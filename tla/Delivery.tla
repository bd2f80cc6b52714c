------------------------------- MODULE Delivery -------------------------------
(***************************************************************************)
(* What a connection's owner is shown of it, and what a device gets by its *)
(* link, beside the outbox: ConnectionSyncService.connection(),            *)
(* ConnectionService.subscription(), bySubscriptionToken() and             *)
(* markFetched(), and the handlers of /s/... in http.ts.                   *)
(*                                                                         *)
(* A link is the generation its token was derived from.  The digest of a   *)
(* body is awaited, so an answer is two steps, and the lifecycle goes on   *)
(* in between.                                                             *)
(***************************************************************************)
EXTENDS ConnectionSync

VARIABLES
    hash,      \* subscription_token_hash: the generation it accepts, 0 none
    used,      \* first_used_at is set
    link,      \* the newest link the owner handed over, 0 none
    held,      \* the generation of the profile the device has imported
    request,   \* the request whose digest is being computed
    raced      \* history: an answer was recorded for a newer generation

deliveryVars == <<hash, used, link, held, request, raced>>

NoRequest == [conn |-> NoConn, gen |-> 0, what |-> "page", head |-> FALSE, same |-> FALSE]

-----------------------------------------------------------------------------
(* connection(): the state the panel shows.                                 *)

Changing(c, kind) == job[c].kind = kind /\ job[c].status # "completed"

Failed(c) == job[c].status = "failed"

SuspendedState(c) ==
    CASE Changing(c, "resume")  -> IF Failed(c) THEN "resume_retry" ELSE "resuming"
      [] Changing(c, "suspend") -> IF Failed(c) THEN "suspension_retry" ELSE "suspending"
      [] OTHER                  -> "suspended"

Shown(c) ==
    CASE conn[c].status = "active" ->
            IF conn[c].suspended THEN SuspendedState(c) ELSE "ready"
      [] conn[c].status = "archived" -> "archived"
      [] conn[c].status = "rotating" -> IF Failed(c) THEN "rotation_retry" ELSE "rotating"
      [] conn[c].status = "archiving" -> IF Failed(c) THEN "archive_retry" ELSE "archiving"
      [] OTHER -> IF Failed(c) THEN "retrying" ELSE "provisioning"

InProgress == {"resuming", "suspending", "rotating", "archiving", "provisioning"}
Retrying   == {"resume_retry", "suspension_retry", "rotation_retry", "archive_retry",
               "retrying"}

(* subscription(): derives the link again and stores its hash.              *)
GiveLink(c) ==
    /\ conn[c].status = "active" /\ ~conn[c].archived /\ ~conn[c].suspended
    /\ hash' = [hash EXCEPT ![c] = conn[c].generation]
    /\ link' = [link EXCEPT ![c] = conn[c].generation]
    /\ UNCHANGED <<used, held, request, raced>>

-----------------------------------------------------------------------------
(* The device's side: a page, a profile, or anything else under the link.   *)

(* universalSubscription(): by the client's name, else by what it accepts.  *)
universalSubscription(agent, html) ==
    CASE agent \in {"mihomo", "sing-box"} -> agent
      [] agent = "incy" -> "links"
      [] agent = "xray" -> "xray"
      [] OTHER          -> IF html THEN "page" ELSE "xray"

(* /s/:token with a platform is the page; applications and advanced formats *)
(* have paths of their own; a QR code and the routes need the link only.    *)
Asked ==
    {IF universalSubscription(agent, html) = "page" THEN "page" ELSE "profile" :
        agent \in {"mihomo", "sing-box", "incy", "xray", "other"}, html \in BOOLEAN}
    \cup {"page", "profile", "other"}

bySubscriptionToken(c, g) == hash[c] = g /\ Serving(c)

(* A request by the newest link that was given, which may have been revoked *)
(* since: credentials() and the renderer run before the await.  A client    *)
(* that has the profile may say so in if-none-match.                        *)
Ask(c) ==
    /\ request = NoRequest
    /\ link[c] # 0 /\ bySubscriptionToken(c, link[c])
    /\ \E what \in Asked, head \in BOOLEAN, same \in BOOLEAN :
          /\ what = "profile" => Readable(c, conn[c].generation)
          /\ same => what = "profile" /\ held[c] = conn[c].generation
          /\ request' = [conn |-> c, gen |-> conn[c].generation,
                         what |-> what, head |-> head, same |-> same]
    /\ UNCHANGED <<hash, used, link, held, raced>>

(* profile(): only a whole answer to GET is recorded.                       *)
Marks(r) == r.what = "profile" /\ ~r.same /\ ~r.head

(* markFetched() throws for a connection archived meanwhile; nothing else   *)
(* is looked at again.                                                      *)
Answer ==
    /\ request # NoRequest
    /\ LET c == request.conn IN
       IF Marks(request) /\ ~conn[c].archived
       THEN /\ used' = [used EXCEPT ![c] = TRUE]
            /\ held' = [held EXCEPT ![c] = request.gen]
            /\ raced' = [raced EXCEPT ![c] = @ \/ request.gen # conn[c].generation]
       ELSE UNCHANGED <<used, held, raced>>
    /\ request' = NoRequest
    /\ UNCHANGED <<hash, link>>

-----------------------------------------------------------------------------
(* The lifecycle writes its own columns of the same rows.                   *)

NewToken(c) ==
    /\ hash' = [hash EXCEPT ![c] = conn'[c].generation]
    /\ used' = [used EXCEPT ![c] = FALSE]
    /\ raced' = [raced EXCEPT ![c] = FALSE]

NoToken(c) == hash' = [hash EXCEPT ![c] = 0] /\ UNCHANGED <<used, raced>>

(* An answer is lost when the process dies in the segment of a request.     *)
Survives == request' = IF faults' = faults THEN request ELSE NoRequest

OwnerStep ==
    /\ \E c \in Conn :
          \/ (Create(c) \/ Rotate(c)) /\ NewToken(c)
          \/ Archive(c) /\ NoToken(c)
          \/ (Suspend(c) \/ Resume(c) \/ Retry(c)) /\ UNCHANGED <<hash, used, raced>>
    /\ Survives
    /\ UNCHANGED <<link, held>>

OutboxStep ==
    /\ \/ Reconcile \/ DrainStart \/ Begin \/ XrayReplies \/ OptionalReplies
       \/ EngineFails \/ XrayRestarts \/ OptionalRestarts
       \/ \E c \in Conn : BackoffElapses(c) \/ DrainNext(c)
    /\ UNCHANGED deliveryVars

ProcessDies ==
    /\ Crash \/ CrashInCompletion
    /\ request' = NoRequest
    /\ UNCHANGED <<hash, used, link, held, raced>>

DeliveryNext ==
    \/ OwnerStep \/ OutboxStep \/ ProcessDies
    \/ /\ Answer \/ \E c \in Conn : GiveLink(c) \/ Ask(c)
       /\ UNCHANGED vars

DeliveryInit ==
    /\ Init
    /\ hash = [c \in Conn |-> 0] /\ used = [c \in Conn |-> FALSE]
    /\ link = [c \in Conn |-> 0] /\ held = [c \in Conn |-> 0]
    /\ raced = [c \in Conn |-> FALSE]
    /\ request = NoRequest

DeliverySpec == DeliveryInit /\ [][DeliveryNext]_<<vars, deliveryVars>>

-----------------------------------------------------------------------------
(* Properties. *)

(* What the panel says of a connection is so: "ready" means that the link   *)
(* just given works and its profile can be rendered; what is in progress    *)
(* has a run that will end, what is retried a failed job to try again, and  *)
(* a suspended connection no change that is still to be made.               *)
ShownIsSo ==
    \A c \in Conn :
        conn[c].status # "absent" /\ (conn[c].archived => conn[c].status # "active") =>
        /\ Shown(c) = "ready" => /\ bySubscriptionToken(c, conn[c].generation)
                                 /\ Readable(c, conn[c].generation)
        /\ Shown(c) \in InProgress => job[c].status \in {"pending", "running"}
        /\ Shown(c) \in Retrying => Failed(c)
        /\ Shown(c) = "suspended" => ~Open(c)

(* A connection counts as used once a device has the profile of its newest  *)
(* generation, and not before: neither by a page, a HEAD or a QR code, nor  *)
(* by what the replaced generation had fetched, unless that answer was      *)
(* still being computed when the connection was rotated.                    *)
UseIsReal ==
    \A c \in Conn :
        /\ used[c] /\ ~raced[c] => held[c] = conn[c].generation
        /\ held[c] # 0 /\ held[c] = conn[c].generation => used[c]

LinksAreServed == ShownIsSo /\ UseIsReal
=============================================================================
