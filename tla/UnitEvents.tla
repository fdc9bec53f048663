----------------------------- MODULE UnitEvents ------------------------------
(***************************************************************************)
(* How the systemd source learns that its answer may have changed          *)
(* (internal/systemd: dbus.go, systemd.go): systemd signals a unit's state *)
(* and its own reloads on the bus, Watch passes on what matters, Events    *)
(* compares it with what it heard before and asks for a pass, and a pass   *)
(* reads the running units and their files.                                *)
(*                                                                         *)
(* A unit's files are the paths of its unit file and drop-ins as systemd   *)
(* has them loaded, in one of two versions; a reload moves the units to    *)
(* the other, one at a time. What is in the files can change without a     *)
(* word on the bus, and only the interval sees that. Systemd always says   *)
(* the new ActiveState, and not only that the old one is stale.            *)
(***************************************************************************)
EXTENDS Naturals, Sequences

CONSTANTS
  Units,
  Declares,    \* the units whose files declare a forward
  Unheard,     \* a unit this stream has not mentioned
  MaxSignals   \* the bound on signals sent and not yet heard

(* Reloading stands for refreshing too, inactive for failed, between for    *)
(* activating and deactivating.                                            *)
States == {"active", "reloading", "inactive", "between"}
RunningStates == {"active", "reloading"}
settled == {"active", "inactive"}

ASSUME UnitAssumption ==
  /\ Declares \subseteq Units /\ Unheard \notin States
  /\ MaxSignals \in Nat \ {0}

VARIABLES
  \* systemd.
  state,      \* each unit's ActiveState
  files,      \* the version of each unit's files systemd has loaded
  target,     \* the version on disk at the last reload
  reloading,  \* whether a reload is under way
  \* The stream.
  open,       \* whether a Watch is open
  signals,    \* what the bus has sent it and it has not yet heard
  holding,    \* Watch's reloading: what it hears of units is dropped
  heard,      \* Events' states, Unheard for those not in it
  \* The passes.
  asked,      \* a pass has been asked for
  listed,     \* the running units a pass listed, and whether one is under way
  read,       \* the version of its files the last pass read, for each running unit
  declaring,  \* Source.declaring
  \* History.
  missed,     \* something changed that no stream carried, or a pass failed,
              \* since a pass last listed
  blurred,    \* units dropped while holding, and not heard since
  forwarded   \* units whose forwards some pass had in its answer

systemd == <<state, files, target, reloading>>
stream == <<open, signals, holding, heard>>
pass == <<asked, listed, read, declaring>>
history == <<missed, blurred, forwarded>>
vars == <<systemd, stream, pass, history>>

Running == {u \in Units : state[u] \in RunningStates}
NoPass == [busy |-> FALSE, units |-> {}]

Unit(u, s) == [unit |-> u, state |-> s]
Reload(starting) == [reload |-> starting]

-----------------------------------------------------------------------------
(* systemd, external to the program. *)

(* A change comes with a signal, if there is a stream to carry it. *)
Sends(signal) ==
  IF open THEN Len(signals) < MaxSignals /\ signals' = Append(signals, signal)
               /\ UNCHANGED missed
  ELSE missed' = TRUE /\ UNCHANGED signals

(* A unit moves, perhaps so fast that what it passed through is not said. *)
Move(u) ==
  /\ state' \in {[state EXCEPT ![u] = s] : s \in States \ {state[u]}}
  /\ Sends(Unit(u, state'[u]))
  /\ UNCHANGED <<files, target, reloading, open, holding, heard, pass, blurred, forwarded>>

(* Its state is said again with a change to anything else. *)
Repeat(u) ==
  /\ open /\ Sends(Unit(u, state[u]))
  /\ UNCHANGED <<systemd, open, holding, heard, pass, blurred, forwarded>>

ReloadStarts ==
  /\ ~reloading
  /\ reloading' = TRUE /\ target' = 1 - target
  /\ Sends(Reload(TRUE))
  /\ UNCHANGED <<state, files, open, holding, heard, pass, blurred, forwarded>>

ReloadsUnit(u) ==
  /\ reloading /\ files[u] # target
  /\ files' = [files EXCEPT ![u] = target]
  /\ UNCHANGED <<state, target, reloading, stream, pass, history>>

ReloadEnds ==
  /\ reloading /\ \A u \in Units : files[u] = target
  /\ reloading' = FALSE
  /\ Sends(Reload(FALSE))
  /\ UNCHANGED <<state, files, target, open, holding, heard, pass, blurred, forwarded>>

-----------------------------------------------------------------------------
(* Watch and Events. *)

WatchOpens ==
  /\ ~open
  /\ open' = TRUE /\ holding' = FALSE /\ heard' = [u \in Units |-> Unheard]
  /\ blurred' = {}
  /\ UNCHANGED <<systemd, signals, pass, missed, forwarded>>

(* The bus drops, and with it what was still to be heard and what Events   *)
(* would have told a repeat by.                                            *)
WatchEnds ==
  /\ open
  /\ open' = FALSE /\ signals' = <<>>
  /\ missed' = (missed \/ signals # <<>> \/ blurred # {})
  /\ UNCHANGED <<systemd, holding, heard, pass, blurred, forwarded>>

Hears(signal) == open /\ signals # <<>> /\ Head(signals) = signal /\ signals' = Tail(signals)

Asks == asked' = TRUE

(* Wrong: a reload is not thought to change anything. *)
HearReload_Silent(starting) ==
  /\ Hears(Reload(starting))
  /\ holding' = starting
  /\ UNCHANGED <<systemd, open, heard, pass, history>>

(* A reload is worth a pass once it is done. *)
HearReload(starting) ==
  /\ Hears(Reload(starting))
  /\ holding' = starting
  /\ IF starting THEN UNCHANGED asked ELSE Asks
  /\ UNCHANGED <<systemd, open, heard, listed, read, declaring, history>>

HearWhileHolding(u, s) ==
  /\ Hears(Unit(u, s)) /\ holding
  /\ blurred' = blurred \cup {u}
  /\ UNCHANGED <<systemd, open, holding, heard, pass, missed, forwarded>>

HearAgain(u, s) ==
  /\ Hears(Unit(u, s)) /\ ~holding /\ heard[u] = s
  /\ UNCHANGED <<systemd, open, holding, heard, pass, history>>

(* Wrong: only a unit that comes to rest is worth a pass. *)
Worth_Settled(u, s) == s \in settled

Worth(u, s) == TRUE

(* A line in the log: for a unit known to declare forwards that settles     *)
(* having been somewhere else first.                                       *)
Logs(u, s) == heard[u] # Unheard /\ s \in settled /\ u \in declaring

(* The unit's first word on this stream, or a move. *)
HearMove(u, s) ==
  /\ Hears(Unit(u, s)) /\ ~holding /\ heard[u] # s
  /\ heard' = [heard EXCEPT ![u] = s]
  /\ IF Worth(u, s) THEN Asks ELSE UNCHANGED asked
  /\ blurred' = blurred \ {u}
  /\ UNCHANGED <<systemd, open, holding, listed, read, declaring, missed, forwarded>>

-----------------------------------------------------------------------------
(* Passes. *)

Tick == Asks /\ UNCHANGED <<systemd, stream, listed, read, declaring, history>>

(* Units: the running units are listed ... *)
PassLists ==
  /\ asked /\ ~listed.busy
  /\ asked' = FALSE
  /\ listed' = [busy |-> TRUE, units |-> Running]
  /\ missed' = FALSE
  /\ UNCHANGED <<systemd, stream, read, declaring, blurred, forwarded>>

(* Wrong: only the units of this pass are known to declare. *)
Declare_ThisPass(units) == declaring' = units \cap Declares

(* declare, which never forgets. *)
Declare(units) == declaring' = declaring \cup (units \cap Declares)

(* ... and then where their files are, and the files. *)
PassReads ==
  /\ listed.busy
  /\ read' = [u \in listed.units |-> files[u]]
  /\ Declare(listed.units)
  /\ forwarded' = forwarded \cup (listed.units \cap Declares)
  /\ listed' = NoPass
  /\ UNCHANGED <<systemd, stream, asked, missed, blurred>>

(* Systemd could not be asked, or a file not read, after some were: the     *)
(* interval tries again.                                                   *)
PassFails ==
  /\ listed.busy
  /\ \E done \in SUBSET listed.units : Declare(done)
  /\ listed' = NoPass /\ missed' = TRUE
  /\ UNCHANGED <<systemd, stream, asked, read, blurred, forwarded>>

-----------------------------------------------------------------------------
Init ==
  /\ state \in [Units -> States]
  /\ files = [u \in Units |-> 0] /\ target = 0 /\ reloading = FALSE
  /\ open = FALSE /\ signals = <<>> /\ holding = FALSE
  /\ heard = [u \in Units |-> Unheard]
  /\ asked = TRUE /\ listed = NoPass
  /\ read = [u \in {} |-> 0] /\ declaring = {}
  /\ missed = FALSE /\ blurred = {} /\ forwarded = {}

Systemd == ReloadStarts \/ ReloadEnds \/ \E u \in Units : Move(u) \/ Repeat(u) \/ ReloadsUnit(u)
Hear ==
  \/ \E starting \in BOOLEAN : HearReload(starting)
  \/ \E u \in Units, s \in States :
       HearWhileHolding(u, s) \/ HearAgain(u, s) \/ HearMove(u, s)

Next == Systemd \/ WatchOpens \/ WatchEnds \/ Hear \/ Tick \/ PassLists \/ PassReads \/ PassFails

Spec == Init /\ [][Next]_vars

-----------------------------------------------------------------------------
(* Properties. *)

(* Every variable has its type. *)
TypeOK ==
  /\ state \in [Units -> States] /\ files \in [Units -> {0, 1}] /\ target \in {0, 1}
  /\ reloading \in BOOLEAN /\ open \in BOOLEAN /\ holding \in BOOLEAN
  /\ signals \in Seq({Unit(u, s) : u \in Units, s \in States}
                       \cup {Reload(b) : b \in BOOLEAN})
  /\ heard \in [Units -> States \cup {Unheard}]
  /\ asked \in BOOLEAN /\ listed.units \subseteq Units
  /\ DOMAIN read \subseteq Units /\ declaring \subseteq Declares
  /\ missed \in BOOLEAN /\ blurred \subseteq Units /\ forwarded \subseteq Declares
  /\ ~reloading => \A u \in Units : files[u] = target
  /\ ~open => signals = <<>>

(* Nothing is on its way, nothing was missed for want of a stream, and no  *)
(* pass has failed since the last that did not.                            *)
Settled ==
  open /\ signals = <<>> /\ ~asked /\ ~listed.busy /\ ~reloading /\ ~missed

(* Events are enough: when all of them have been heard and acted on, the   *)
(* last pass read what is so now - the right units, with the right files - *)
(* but for units that moved while a reload was being waited out.           *)
UpToDate ==
  Settled => \A u \in Units \ blurred :
               /\ u \in Running <=> u \in DOMAIN read
               /\ u \in Running => read[u] = files[u]

(* Once a reload is done the files it loaded are read, whatever else was   *)
(* dropped while it lasted.                                                *)
ReloadIsRead == Settled => \A u \in Running \cap DOMAIN read : read[u] = files[u]

(* "So nothing is lost by waiting for it" (Watch): what units say during a *)
(* reload can be dropped, because the reload's end starts a pass.          *)
NothingIsLost == Settled => DOMAIN read = Running

(* "The line that says why its forward went" is not "the one left out"     *)
(* (Source.declaring): a unit whose forwards some pass had in its answer,  *)
(* heard running and then heard stopped on one stream, gets its line, how  *)
(* ever many passes there were between.                                    *)
StopsAreLogged ==
  [][\A u \in forwarded :
       open /\ heard[u] \notin {"inactive", Unheard} /\ heard'[u] = "inactive"
       => Logs(u, "inactive")]_vars
==============================================================================
