------------------------------- MODULE UnitPass -------------------------------
(***************************************************************************)
(* One pass of the systemd source after another (internal/systemd,         *)
(* Source.Desired): the running units are listed, systemd is asked where   *)
(* the files of each are, so many at a time, and the files are read        *)
(* through a cache by their stamps while they are edited, replaced,        *)
(* deleted and restored.  What UnitEvents takes for two steps.             *)
(*                                                                         *)
(* A stamp stands for inode, size and modification time, 0 for no file.    *)
(* A text is the assignments to the key in it, in order, each with the     *)
(* section it is in; a term is a rule or the word published.               *)
(***************************************************************************)
EXTENDS Naturals, SequencesExt

CONSTANTS
  Listed,      \* the running units, in the order systemd lists them
  Paths,       \* the files there may be
  Files,       \* for each unit its unit file and drop-ins
  Texts,       \* what may be in them
  Published,   \* the term of that name
  Reset,       \* the empty value
  Sockets,     \* the listening sockets, in the order the kernel lists them
  Triggers,    \* for each unit itself and the socket units that trigger it
  InFlight,    \* how many questions to systemd are out at once
  MaxStamp,    \* the bound on new stamps
  Faults       \* what may go wrong: see FaultKinds

FaultKinds == {"systemd", "unreadable", "unseen_edit", "restored"}
ListedUnits == ToSet(Listed)
Sections == {"Unit", "own", "other"}
RuleTerms == [slot: Nat, port: Nat]
NoFile == [stamp |-> 0, text |-> <<>>]

ASSUME UnitPassAssumption ==
  /\ InFlight \in Nat \ {0} /\ MaxStamp \in Nat \ {0} /\ Faults \subseteq FaultKinds
  /\ Listed \in Seq(ListedUnits)
  /\ \A u \in ListedUnits : Files[u] \in Seq(Paths) /\ u \in Triggers[u]
  /\ Texts \subseteq Seq([section: Sections, value: RuleTerms \cup {Published, Reset}])
  /\ Published \notin RuleTerms /\ Sockets \in Seq(ToSet(Sockets))
  /\ \A s \in ToSet(Sockets) : s.slot \in Nat /\ s.forwardable \in BOOLEAN

VARIABLES
  disk,      \* each path's stamp and text
  aside,     \* the version of it that was replaced or deleted last
  stamps,    \* how many stamps there have been
  \* The pass.
  pc,        \* "idle", "asking" or "reading"
  questions,     \* how many units systemd has been asked about
  pending,   \* those it has not answered about
  tokens,    \* how many places of the limit are taken
  failed,    \* whether it could not answer about one
  statted,   \* the stamp of the file being read, or 0
  texts,     \* the texts read, in the order of ToRead
  cache,     \* unitFiles.cache, NoFile for a path not in it
  \* History.
  during,    \* the texts each path has had since this pass began
  raced,     \* paths cached with another text than their stamp's
  fooled     \* paths whose stamp came to stand for another text, or came
             \* back while the path was raced

onDisk == <<disk, aside, stamps>>
asking == <<questions, pending, tokens, failed>>
reading == <<statted, texts, cache>>
past == <<during, raced, fooled>>
passVars == <<onDisk, pc, asking, reading, past>>

-----------------------------------------------------------------------------
(* What a unit's files declare. *)

(* Source.read, of every unit: the files in the order systemd applies them. *)
ToRead ==
  FlattenSeq([i \in DOMAIN Listed |->
    [j \in DOMAIN Files[Listed[i]] |-> [unit |-> Listed[i], path |-> Files[Listed[i]][j]]]])

(* All assignments read for a unit, across its files. *)
Assignments(unit) ==
  FlattenSeq([i \in DOMAIN ToRead |-> IF ToRead[i].unit = unit THEN texts[i] ELSE <<>>])

(* One in a section that is not for it is left out, an empty one throws    *)
(* away all before it.                                                     *)
Applied(terms, assignment) ==
  IF assignment.section = "other" THEN terms
  ELSE IF assignment.value = Reset THEN <<>>
  ELSE Append(terms, assignment.value)

(* Wrong: a reset is about its own file only. *)
Declaration_PerFile(unit) ==
  FlattenSeq([i \in DOMAIN ToRead |->
    IF ToRead[i].unit = unit THEN FoldLeft(Applied, <<>>, texts[i]) ELSE <<>>])

Declaration(unit) == FoldLeft(Applied, <<>>, Assignments(unit))

(* Rules that would fight an earlier one for its slot are dropped. *)
KeepFirst(kept, rule) ==
  IF \E i \in DOMAIN kept : kept[i].slot = rule.slot THEN kept ELSE Append(kept, rule)

Collapse(rules) == FoldLeft(KeepFirst, <<>>, rules)

(* The elements that are to be kept, in their order. *)
Sift(seq, keep) ==
  FoldLeft(LAMBDA kept, x : IF x \in keep THEN Append(kept, x) ELSE kept, <<>>, seq)

(* The unit's own sockets that the gateway's traffic could reach and that  *)
(* are no UDP client's.                                                    *)
Listening(unit) ==
  LET own == Sift(Sockets, {s \in ToSet(Sockets) : s.unit \in Triggers[unit] /\ s.forwardable})
  IN [i \in DOMAIN own |-> [slot |-> own[i].slot, port |-> own[i].slot]]

(* Explicit rules first, so that they win.  Sockets listed without their    *)
(* cgroups belong to nobody.                                               *)
Rules(unit, cgroups) ==
  LET terms == Declaration(unit)
      published == Published \in ToSet(terms) /\ cgroups
  IN Collapse(Sift(terms, RuleTerms) \o IF published THEN Listening(unit) ELSE <<>>)

-----------------------------------------------------------------------------
(* DBus.Units. *)

(* The pass is over, and what it read is gone but for the cache. *)
Over ==
  /\ pc' = "idle"
  /\ questions' = 0 /\ pending' = {} /\ tokens' = 0 /\ failed' = FALSE
  /\ statted' = 0 /\ texts' = <<>>
  /\ during' = [p \in Paths |-> {}]

Begin ==
  /\ pc = "idle"
  /\ pc' = "asking"
  /\ during' = [p \in Paths |-> {disk[p].text}]
  /\ UNCHANGED <<onDisk, asking, reading, raced, fooled>>

(* The next unit is asked about, once there is a place. *)
Ask ==
  /\ pc = "asking" /\ questions < Len(Listed) /\ tokens < InFlight
  /\ questions' = questions + 1 /\ tokens' = tokens + 1
  /\ pending' = pending \cup {Listed[questions + 1]}
  /\ UNCHANGED <<onDisk, pc, failed, reading, past>>

(* Wrong: the place is given back only with an answer. *)
Release_Answered(ok) == tokens' = IF ok THEN tokens - 1 ELSE tokens

Release(ok) == tokens' = tokens - 1

(* Systemd answers about a unit, or fails to: its place is free again. *)
Answered(unit, ok) ==
  /\ unit \in pending /\ (ok \/ "systemd" \in Faults)
  /\ pending' = pending \ {unit} /\ Release(ok)
  /\ failed' = (failed \/ ~ok)
  /\ UNCHANGED <<onDisk, pc, questions, reading, past>>

AllAnswered == pc = "asking" /\ questions = Len(Listed) /\ pending = {}

(* Any failure fails the pass, once all have answered. *)
UnitsFail ==
  /\ AllAnswered /\ failed /\ Over
  /\ UNCHANGED <<onDisk, cache, raced, fooled>>

UnitsKnown ==
  /\ AllAnswered /\ ~failed
  /\ pc' = "reading"
  /\ UNCHANGED <<onDisk, asking, reading, past>>

-----------------------------------------------------------------------------
(* unitFiles.read. *)

Current == ToRead[Len(texts) + 1].path
IsReading == pc = "reading" /\ Len(texts) < Len(ToRead)

(* This text is the file's as far as the pass is concerned. *)
Take(text) == texts' = Append(texts, text) /\ statted' = 0

Forget ==
  /\ Take(<<>>)
  /\ cache' = [cache EXCEPT ![Current] = NoFile] /\ raced' = raced \ {Current}

(* Stat finds no file, which declares nothing. *)
Missing ==
  /\ IsReading /\ statted = 0 /\ disk[Current] = NoFile
  /\ Forget
  /\ UNCHANGED <<onDisk, pc, asking, during, fooled>>

(* Wrong: a file of the same size is taken for the same. *)
Same_Size(cached, file) == cached # NoFile /\ Len(cached.text) = Len(file.text)

Same(cached, file) == cached.stamp = file.stamp

(* Stat finds the stamp the text is cached under. *)
Hit ==
  /\ IsReading /\ statted = 0 /\ disk[Current] # NoFile
  /\ Same(cache[Current], disk[Current])
  /\ Take(cache[Current].text)
  /\ UNCHANGED <<onDisk, pc, asking, cache, past>>

(* Stat finds another. *)
Miss ==
  /\ IsReading /\ statted = 0 /\ disk[Current] # NoFile
  /\ ~Same(cache[Current], disk[Current])
  /\ statted' = disk[Current].stamp
  /\ UNCHANGED <<onDisk, pc, asking, texts, cache, past>>

MissingByNow ==
  /\ IsReading /\ statted # 0 /\ disk[Current] = NoFile
  /\ Forget
  /\ UNCHANGED <<onDisk, pc, asking, during, fooled>>

(* The text is cached under the stamp it had before it was read. *)
Read ==
  /\ IsReading /\ statted # 0 /\ disk[Current] # NoFile
  /\ Take(disk[Current].text)
  /\ cache' = [cache EXCEPT ![Current] = [stamp |-> statted, text |-> disk[Current].text]]
  /\ raced' = IF statted = disk[Current].stamp THEN raced \ {Current} ELSE raced \cup {Current}
  /\ UNCHANGED <<onDisk, pc, asking, during, fooled>>

(* A file that is there and cannot be read fails the pass. *)
Unreadable ==
  /\ IsReading /\ disk[Current] # NoFile /\ "unreadable" \in Faults
  /\ Over
  /\ UNCHANGED <<onDisk, cache, raced, fooled>>

-----------------------------------------------------------------------------
(* Desired, once all is read. *)

AllRead == pc = "reading" /\ Len(texts) = Len(ToRead)

(* The pass answers Rules for each unit, unless the sockets are wanted and  *)
(* cannot be listed.                                                       *)
Finish ==
  /\ AllRead /\ Over
  /\ UNCHANGED <<onDisk, cache, raced, fooled>>

-----------------------------------------------------------------------------
(* The disk, external to the program. *)

Becomes(path, file) ==
  /\ disk' = [disk EXCEPT ![path] = file]
  /\ during' = IF pc = "idle" THEN during ELSE [during EXCEPT ![path] = @ \cup {file.text}]
  /\ UNCHANGED <<pc, asking, reading, raced>>

(* A file is edited, or replaced by another, and has a new stamp. *)
Replace(path, text) ==
  /\ stamps < MaxStamp /\ stamps' = stamps + 1
  /\ Becomes(path, [stamp |-> stamps + 1, text |-> text])
  /\ aside' = [aside EXCEPT ![path] = disk[path]]
  /\ UNCHANGED fooled

Delete(path) ==
  /\ disk[path] # NoFile /\ Becomes(path, NoFile)
  /\ aside' = [aside EXCEPT ![path] = disk[path]]
  /\ UNCHANGED <<stamps, fooled>>

(* The last one is put back, with the stamp it had. *)
Restore(path) ==
  /\ aside[path] # NoFile /\ "restored" \in Faults
  /\ Becomes(path, aside[path])
  /\ aside' = [aside EXCEPT ![path] = disk[path]]
  /\ fooled' = IF path \in raced THEN fooled \cup {path} ELSE fooled
  /\ UNCHANGED stamps

(* A file is edited in place, to the same size and within the resolution of *)
(* the clock.                                                              *)
UnseenEdit(path, text) ==
  /\ disk[path] # NoFile /\ "unseen_edit" \in Faults
  /\ text # disk[path].text /\ Len(text) = Len(disk[path].text)
  /\ Becomes(path, [disk[path] EXCEPT !.text = text])
  /\ fooled' = fooled \cup {path}
  /\ UNCHANGED <<aside, stamps>>

Change(p) == Delete(p) \/ Restore(p) \/ \E t \in Texts : Replace(p, t) \/ UnseenEdit(p, t)

-----------------------------------------------------------------------------
PassInit ==
  /\ disk = [p \in Paths |-> NoFile] /\ aside = disk /\ stamps = 0
  /\ pc = "idle" /\ questions = 0 /\ pending = {} /\ tokens = 0 /\ failed = FALSE
  /\ statted = 0 /\ texts = <<>> /\ cache = [p \in Paths |-> NoFile]
  /\ during = [p \in Paths |-> {}] /\ raced = {} /\ fooled = {}

AskUnits == Ask \/ (\E u \in ListedUnits : Answered(u, TRUE)) \/ UnitsFail \/ UnitsKnown
ReadFiles == Missing \/ Hit \/ Miss \/ MissingByNow \/ Read \/ Finish
Fault == Unreadable \/ \E u \in ListedUnits : Answered(u, FALSE)

PassNext == Begin \/ AskUnits \/ ReadFiles \/ Fault \/ \E p \in Paths : Change(p)

PassSpec == PassInit /\ [][PassNext]_passVars

(* Systemd answers each question, if only to fail it: the requests to it    *)
(* have no timeout.                                                        *)
PassFairSpec ==
  /\ PassSpec /\ WF_passVars(Ask \/ UnitsFail \/ UnitsKnown) /\ WF_passVars(ReadFiles)
  /\ \A u \in ListedUnits : WF_passVars(Answered(u, TRUE) \/ Answered(u, FALSE))

-----------------------------------------------------------------------------
(* Properties. *)

(* A pass goes by what each file held at some moment of it, however it was  *)
(* changed before or since - but for a file whose stamp lied: edited so    *)
(* that it shows in neither size nor time, or put back after it was cached  *)
(* with its successor's text.                                              *)
ReadsAreCurrent ==
  \A i \in DOMAIN texts :
    ToRead[i].path \in fooled \/ texts[i] \in during[ToRead[i].path]

(* What a unit forwards, said without the order it is worked out in: the    *)
(* assignments that count are those in [Unit] or its own section after the *)
(* last empty one in any file; of the rules for a slot the first wins, and  *)
(* what is listened on is forwarded only where no rule has the slot.       *)
ForwardsWhatIsDeclared ==
  AllRead => \A u \in ListedUnits, cgroups \in BOOLEAN :
    LET all == Assignments(u)
        In(i) == all[i].section # "other"
        counts == {i \in DOMAIN all : /\ In(i) /\ all[i].value # Reset
                                      /\ \A j \in i .. Len(all) : ~(In(j) /\ all[j].value = Reset)}
        rules == {i \in counts : all[i].value # Published}
        First(i) == \A j \in rules : j < i => all[j].value.slot # all[i].value.slot
        listened == IF cgroups /\ \E i \in counts : all[i].value = Published
                    THEN ToSet(Listening(u)) ELSE {}
    IN ToSet(Rules(u, cgroups)) =
         {all[i].value : i \in {i \in rules : First(i)}}
         \cup {l \in listened : \A i \in rules : all[i].value.slot # l.slot}

(* A pass ends though more units run than systemd may be asked about at     *)
(* once, and though it fails to answer about some.                         *)
PassEnds == pc # "idle" ~> pc = "idle"
==============================================================================
