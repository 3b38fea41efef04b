------------------------------- MODULE Consent ------------------------------
(***************************************************************************)
(* The parental consent of one under-13 account:                           *)
(* signaling-server/internal/hub/consent.go, the gate isConsentRequired of *)
(* blocks.go, and the table of supabase/migrations/006_parental_consents   *)
(* .sql.                                                                   *)
(*                                                                         *)
(* Every request is served by a goroutine of its own that talks to the     *)
(* database over HTTP: it fetches the row, decides, patches the row, then  *)
(* patches the metadata of the account.  Each call may fail, or be carried *)
(* out and its answer be lost; a call given up after the five seconds of   *)
(* the HTTP client may still be carried out later.  A server that stops is *)
(* all its handlers failing.  Accounts share nothing, so one is enough.    *)
(* The tokens are unguessable: a link is followed only by who got the      *)
(* e-mail, but by that person as often as they like.                       *)
(***************************************************************************)
CONSTANTS
    Visit,         \* requests of one page that may be served at once
    None

Row == [consented : BOOLEAN, revoked : BOOLEAN, token : BOOLEAN]

(* What the columns of the table accept: consent_token is NOT NULL.        *)
Storable(r) == r.token

VARIABLES
    row,     \* the account's row of parental_consents, or None
    mailed,  \* the e-mail with the two links was sent
    expired, \* requested_at is more than seven days ago
    meta,    \* consented_at is set in the metadata of the account
    asking,  \* the handler of /consent/request
    confirm, \* the handlers of /consent/confirm
    revoke,  \* the handlers of /consent/revoke
    late     \* the calls given up that are still under way

vars == <<row, mailed, expired, meta, asking, confirm, revoke, late>>

Page == {"idle", "fetched", "patched"}
Call == {"confirm", "revoke", "meta set", "meta cleared"}

TypeOK ==
    /\ row \in Row \cup {None} /\ (mailed => row # None)
    /\ mailed \in BOOLEAN /\ expired \in BOOLEAN /\ meta \in BOOLEAN
    /\ asking \in {"idle", "inserted"}
    /\ confirm \in [Visit -> Page] /\ revoke \in [Visit -> Page]
    /\ late \subseteq Call \X Visit

Init ==
    /\ row = None
    /\ mailed = FALSE /\ expired = FALSE /\ meta = FALSE
    /\ asking = "idle"
    /\ confirm = [v \in Visit |-> "idle"] /\ revoke = [v \in Visit |-> "idle"]
    /\ late = {}

(***************************************************************************)
(* The database.  It refuses a patch as a whole where a column does not    *)
(* accept its value.                                                       *)
(***************************************************************************)
Patched(call) ==
    IF call = "confirm" THEN [consented |-> TRUE, revoked |-> FALSE, token |-> FALSE]
    ELSE [row EXCEPT !.revoked = TRUE]

Accepted(call) == Storable(Patched(call)) /\ row' = Patched(call)

(* A call fails, or is given up and still under way.                       *)
Unanswered(call, v) == late' \in {late, late \cup {<<call, v>>}}

(* A call that was given up is carried out, or fails after all.            *)
CarriedOutLate(call, v) ==
    /\ <<call, v>> \in late
    /\ late' = late \ {<<call, v>>}
    /\ \/ call \in {"confirm", "revoke"} /\ (Accepted(call) \/ UNCHANGED row) /\ UNCHANGED meta
       \/ call = "meta set" /\ meta' \in {meta, TRUE} /\ UNCHANGED row
       \/ call = "meta cleared" /\ meta' \in {meta, FALSE} /\ UNCHANGED row
    /\ UNCHANGED <<mailed, expired, asking, confirm, revoke>>

(***************************************************************************)
(* HandleRequest.  Where the row exists the insert is refused (409) and    *)
(* nothing more happens: a request is never repeated.                      *)
(***************************************************************************)
InsertRow ==
    /\ asking = "idle" /\ row = None
    /\ row' = [consented |-> FALSE, revoked |-> FALSE, token |-> TRUE]
    /\ asking' \in {"inserted", "idle"}
    /\ UNCHANGED <<mailed, expired, meta, confirm, revoke, late>>

(* sendConsentEmail: a failure is only logged.                             *)
SendMail ==
    /\ asking = "inserted"
    /\ asking' = "idle"
    /\ mailed' \in BOOLEAN
    /\ UNCHANGED <<row, expired, meta, confirm, revoke, late>>

(***************************************************************************)
(* HandleConfirm.                                                          *)
(***************************************************************************)

(* The row is found by its token, is not confirmed and not too old; every
   other outcome is a page that changes nothing.                           *)
ConfirmFetch(v) ==
    /\ confirm[v] = "idle" /\ mailed
    /\ row.token /\ ~row.consented /\ ~expired
    /\ confirm' = [confirm EXCEPT ![v] = "fetched"]
    /\ UNCHANGED <<row, mailed, expired, meta, asking, revoke, late>>

(* The patch of the row, whatever has become of it since: it succeeds, or
   its answer is lost, or it is refused, fails or takes too long.          *)
ConfirmPatch(v) ==
    /\ confirm[v] = "fetched"
    /\ \/ /\ Accepted("confirm") /\ UNCHANGED late
          /\ \E next \in {"patched", "idle"} : confirm' = [confirm EXCEPT ![v] = next]
       \/ /\ UNCHANGED row /\ Unanswered("confirm", v)
          /\ confirm' = [confirm EXCEPT ![v] = "idle"]
    /\ UNCHANGED <<mailed, expired, meta, asking, revoke>>

(* patchGoTrueUserMeta: a failure is only logged.                          *)
ConfirmMeta(v) ==
    /\ confirm[v] = "patched"
    /\ confirm' = [confirm EXCEPT ![v] = "idle"]
    /\ \/ meta' = TRUE /\ UNCHANGED late
       \/ UNCHANGED meta /\ Unanswered("meta set", v)
    /\ UNCHANGED <<row, mailed, expired, asking, revoke>>

(***************************************************************************)
(* HandleRevoke.  Its link has no age and is never used up.                *)
(***************************************************************************)
RevokeFetch(v) ==
    /\ revoke[v] = "idle" /\ mailed
    /\ ~row.revoked
    /\ revoke' = [revoke EXCEPT ![v] = "fetched"]
    /\ UNCHANGED <<row, mailed, expired, meta, asking, confirm, late>>

RevokePatch(v) ==
    /\ revoke[v] = "fetched"
    /\ \/ /\ Accepted("revoke") /\ UNCHANGED late
          /\ \E next \in {"patched", "idle"} : revoke' = [revoke EXCEPT ![v] = next]
       \/ /\ UNCHANGED row /\ Unanswered("revoke", v)
          /\ revoke' = [revoke EXCEPT ![v] = "idle"]
    /\ UNCHANGED <<mailed, expired, meta, asking, confirm>>

RevokeMeta(v) ==
    /\ revoke[v] = "patched"
    /\ revoke' = [revoke EXCEPT ![v] = "idle"]
    /\ \/ meta' = FALSE /\ UNCHANGED late
       \/ UNCHANGED meta /\ Unanswered("meta cleared", v)
    /\ UNCHANGED <<row, mailed, expired, asking, confirm>>

SevenDaysPass ==
    /\ row # None /\ ~expired
    /\ expired' = TRUE
    /\ UNCHANGED <<row, mailed, meta, asking, confirm, revoke, late>>

Next ==
    \/ InsertRow \/ SendMail
    \/ \E v \in Visit : ConfirmFetch(v) \/ ConfirmPatch(v) \/ ConfirmMeta(v)
    \/ \E v \in Visit : RevokeFetch(v) \/ RevokePatch(v) \/ RevokeMeta(v)
    \/ \E v \in Visit, call \in Call : CarriedOutLate(call, v)
    \/ SevenDaysPass

Spec == Init /\ [][Next]_vars

(* isConsentRequired, the gate of every offer: an account without a row is
   no child's.                                                             *)
Required == row # None /\ (~row.consented \/ row.revoked)

(***************************************************************************)
(* Properties.                                                             *)
(***************************************************************************)

(* consent.go 6: the confirm page "validates token, sets consented_at,
   clears token (single-use)".  A handler that has found a valid link is
   able to record the consent and open the gate.                           *)
ValidLinkConfirms ==
    \A v \in Visit : confirm[v] = "fetched" => ENABLED (ConfirmPatch(v) /\ ~Required')
=============================================================================
