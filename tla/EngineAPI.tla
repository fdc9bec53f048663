------------------------------ MODULE EngineAPI ------------------------------
(***************************************************************************)
(* The Docker client's choice of Engine API version (internal/docker,      *)
(* client.go and version.go).  Calls made at the same time - by a pass, by *)
(* the event stream, by a helper container - share one negotiated version, *)
(* while the daemon they speak to may be upgraded or downgraded under them.*)
(* A call refused for its version is made once more in a fresh one.        *)
(*                                                                         *)
(* A version is its place in Docker's numbering, and 0 is "": no version.  *)
(***************************************************************************)
EXTENDS Naturals

CONSTANTS
  Calls,      \* the calls in flight at once
  NewestAPI,  \* the newest version the client asks for
  Offers,     \* the ranges of versions the daemon may offer
  NoCall, NoOffer

NoVersion == 0

ASSUME EngineAssumption ==
  /\ NewestAPI \in Nat \ {NoVersion}
  /\ Offers \subseteq [newest: Nat \ {NoVersion}, oldest: Nat]
  /\ \A o \in Offers : o.oldest <= o.newest
  /\ NoCall \notin Calls /\ NoOffer \notin Offers

VARIABLES
  offer,    \* what the daemon accepts now
  cached,   \* Client.version
  holder,   \* the call that holds Client.mu across /version, or NoCall
  heard,    \* what /version answered it, or NoOffer
  pc,       \* where each call is
  version,  \* the version each call is made in
  \* History.
  disturbed, \* the daemon changed, or could not say its versions, since the call began
  moved      \* the daemon changed since the call was refused

client == <<cached, holder, heard>>
calls == <<pc, version>>
past == <<disturbed, moved>>
engineVars == <<offer, client, calls, past>>

(* What the daemon makes of a request in this version.  An oldest of 0 is   *)
(* one it does not say.                                                    *)
Takes(o, v) == o.oldest <= v /\ v <= o.newest

-----------------------------------------------------------------------------
(* Wrong: the daemon's oldest version is not looked at. *)
Choose_NoFloor(o) == IF o.newest > NewestAPI THEN NewestAPI ELSE o.newest

(* offer.choose: the daemon's newest, capped, and never below its oldest. *)
Choose(o) ==
  LET capped == IF o.newest > NewestAPI THEN NewestAPI ELSE o.newest
  IN  IF capped < o.oldest THEN o.oldest ELSE capped

At(c, places) == pc[c] \in places
Goes(c, place) == pc' = [pc EXCEPT ![c] = place]

(* Client.do returns, and what it knew is gone. *)
Ends(c) ==
  /\ Goes(c, "idle")
  /\ version' = [version EXCEPT ![c] = NoVersion]
  /\ disturbed' = [disturbed EXCEPT ![c] = FALSE]
  /\ moved' = [moved EXCEPT ![c] = FALSE]

(* A call, from the first thing Client.do asks. *)
Call(c) ==
  /\ At(c, {"idle"})
  /\ Goes(c, "asking")
  /\ UNCHANGED <<offer, client, version, past>>

(* apiVersion returns v, for the first sending or the second. *)
Speaks(c, v) ==
  /\ version' = [version EXCEPT ![c] = v]
  /\ Goes(c, IF At(c, {"asking"}) THEN "sending" ELSE "resending")

UseCached(c) ==
  /\ At(c, {"asking", "reasking"}) /\ holder = NoCall
  /\ cached # NoVersion
  /\ Speaks(c, cached)
  /\ UNCHANGED <<offer, client, past>>

(* apiVersion keeps Client.mu until /version has answered. *)
Negotiate(c) ==
  /\ At(c, {"asking", "reasking"}) /\ holder = NoCall
  /\ cached = NoVersion
  /\ holder' = c
  /\ UNCHANGED <<offer, cached, heard, calls, past>>

Hear(c) ==
  /\ holder = c /\ heard = NoOffer
  /\ heard' = offer
  /\ UNCHANGED <<offer, cached, holder, calls, past>>

Release == holder' = NoCall /\ heard' = NoOffer

Keep(c) ==
  /\ holder = c /\ heard # NoOffer
  /\ cached' = Choose(heard)
  /\ Speaks(c, Choose(heard))
  /\ Release
  /\ UNCHANGED <<offer, past>>

(* Docker cannot say which versions it speaks. *)
CannotSay(c) ==
  /\ holder = c
  /\ cached' = NewestAPI
  /\ Speaks(c, NewestAPI)
  /\ Release
  /\ disturbed' = [d \in Calls |-> pc[d] # "idle"]
  /\ UNCHANGED <<offer, moved>>

(* Wrong: the lock is kept by a call that gives up. *)
GivesUp_Locked(c) ==
  /\ holder = c
  /\ Ends(c)
  /\ heard' = NoOffer
  /\ UNCHANGED <<offer, cached, holder>>

(* The call's own ctx is done before /version has answered. *)
GivesUp(c) ==
  /\ holder = c
  /\ Ends(c)
  /\ Release
  /\ UNCHANGED <<offer, cached>>

(* The request is answered, or fails for a reason that is not its version. *)
Returns(c) ==
  /\ At(c, {"sending", "resending", "rejected"})
  /\ Ends(c)
  /\ UNCHANGED <<offer, client>>

(* "client version is too old", or too new. *)
Refused(c) ==
  /\ At(c, {"sending", "resending"}) /\ ~Takes(offer, version[c])
  /\ Goes(c, IF At(c, {"sending"}) THEN "refused" ELSE "rejected")
  /\ UNCHANGED <<offer, client, version, past>>

(* Wrong: whatever is cached is dropped. *)
Forget_Whatever(c) ==
  /\ At(c, {"refused"}) /\ holder = NoCall
  /\ cached' = NoVersion
  /\ Goes(c, "reasking")
  /\ version' = [version EXCEPT ![c] = NoVersion]
  /\ moved' = [moved EXCEPT ![c] = FALSE]
  /\ UNCHANGED <<offer, holder, heard, disturbed>>

(* Client.forget, for the version this call was refused for only. *)
Forget(c) ==
  /\ At(c, {"refused"}) /\ holder = NoCall
  /\ cached' = IF cached = version[c] THEN NoVersion ELSE cached
  /\ Goes(c, "reasking")
  /\ version' = [version EXCEPT ![c] = NoVersion]
  /\ moved' = [moved EXCEPT ![c] = FALSE]
  /\ UNCHANGED <<offer, holder, heard, disturbed>>

(* The daemon is upgraded or downgraded. *)
Upgrade ==
  /\ offer' \in Offers \ {offer}
  /\ disturbed' = [c \in Calls |-> pc[c] # "idle"]
  /\ moved' = [c \in Calls |-> pc[c] = "refused"]
  /\ UNCHANGED <<client, calls>>

-----------------------------------------------------------------------------
EngineInit ==
  /\ offer \in Offers
  /\ cached = NoVersion /\ holder = NoCall /\ heard = NoOffer
  /\ pc = [c \in Calls |-> "idle"] /\ version = [c \in Calls |-> NoVersion]
  /\ disturbed = [c \in Calls |-> FALSE] /\ moved = [c \in Calls |-> FALSE]

Locks(c) == UseCached(c) \/ Negotiate(c) \/ Forget(c)
Holds(c) == Hear(c) \/ Keep(c) \/ CannotSay(c) \/ GivesUp(c)
Sends(c) == Returns(c) \/ Refused(c)

EngineNext == Upgrade \/ \E c \in Calls : Call(c) \/ Locks(c) \/ Holds(c) \/ Sends(c)

EngineSpec == EngineInit /\ [][EngineNext]_engineVars

(* A mutex starves nobody, /version is bounded by RequestTimeout, and a     *)
(* request by its ctx.                                                     *)
EngineFairSpec ==
  /\ EngineSpec
  /\ \A c \in Calls : SF_engineVars(Locks(c)) /\ WF_engineVars(Holds(c)) /\ WF_engineVars(Sends(c))

-----------------------------------------------------------------------------
(* Properties. *)

(* Every variable has its type; only the holder of the lock has heard, and *)
(* it is still to get its version.                                         *)
EngineTypeOK ==
  /\ offer \in Offers /\ cached \in Nat
  /\ holder \in Calls \cup {NoCall} /\ heard \in Offers \cup {NoOffer}
  /\ pc \in [Calls -> {"idle", "asking", "sending", "refused", "reasking",
                       "resending", "rejected"}]
  /\ version \in [Calls -> Nat]
  /\ disturbed \in [Calls -> BOOLEAN] /\ moved \in [Calls -> BOOLEAN]
  /\ heard # NoOffer => holder # NoCall
  /\ \A c \in Calls : holder = c => At(c, {"asking", "reasking"})

(* One retry is enough: a call fails for its version only if the daemon    *)
(* changed while it was being made, or could not say what it speaks.  What *)
(* other calls do meanwhile - a negotiation begun before the change, a     *)
(* version dropped or replaced between the refusal and the retry - does    *)
(* not use the retry up.                                                   *)
OneRetryIsEnough == \A c \in Calls : At(c, {"rejected"}) => disturbed[c]

(* "Unless another call has already done so" (forget): a version the       *)
(* daemon accepts is not thrown away by a call that was refused in another,*)
(* so that one change of the daemon costs one negotiation.                 *)
GoodVersionIsKept ==
  [][\A c \in Calls :
       /\ pc[c] = "refused" /\ pc'[c] = "reasking"
       /\ ~moved[c] /\ Takes(offer, cached)
       => cached' = cached]_engineVars

(* No call waits for ever on the lock, whatever becomes of the others. *)
CallsEnd == \A c \in Calls : pc[c] # "idle" ~> pc[c] = "idle"
==============================================================================
