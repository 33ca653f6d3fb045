------------------------- MODULE BundleSaving_proofs -------------------------
(***************************************************************************)
(* What a restart brings back of a bundle with any number of files, of any *)
(* number of leaves, however often the program ends or crashes.            *)
(***************************************************************************)
EXTENDS BundleSaving, TLAPS

USE BundleSavingAssumption

-----------------------------------------------------------------------------
(* Types *)

Working(f) == conn[f].at \in {"assigned", "receiving", "received"}

\* What the types of the queue, the segments and the users' files rest on.
TypeInv ==
    /\ TypeOK
    /\ \A f \in Files : tmp.content.done[f] \subseteq Leaves(f)
    /\ \A f \in Files : Working(f) => conn[f].leaf \in Leaves(f)
    /\ user.at \in {"removed", "deleting"} => user.files \cap queue = {}

\* While the program does not run, nothing is in memory and nobody is at work.
Down == up \in {"ended", "crashed"}
DownInv ==
    Down =>
        /\ ~bundle.listed /\ bundle.files = {} /\ user.at = "idle"
        /\ \A f \in Files : At(f, "idle")
        /\ \A s \in Savers : saver[s] = "idle"

\* What may happen less often once it has happened.
LEMMA Spending ==
    ASSUME limits \in Limits,
           NEW what \in {"crash", "stop", "remove", "lose", "fail", "toggle", "move"}, Spend(what)
    PROVE  /\ limits' \in Limits
           /\ limits.crash \in Nat /\ limits.stop \in Nat /\ limits.remove \in Nat
           /\ limits.lose \in Nat
           /\ limits'.crash = IF what = "crash" THEN limits.crash - 1 ELSE limits.crash
           /\ limits'.stop = IF what = "stop" THEN limits.stop - 1 ELSE limits.stop
           /\ limits'.remove = IF what = "remove" THEN limits.remove - 1 ELSE limits.remove
           /\ limits'.lose = IF what = "lose" THEN limits.lose - 1 ELSE limits.lose
           /\ limits[what] > 0
  BY DEF Spend, Limits

Places == {"idle", "assigned", "receiving", "received", "failed", "recorded", "moving", "stuck"}
Conns == [Files -> [at : Places, leaf : Nat, bytes : BOOLEAN]]

\* The connection of a file goes somewhere else with its segment, or has done with it; the
\* others stay where they are.
LEMMA Going ==
    ASSUME conn \in Conns, NEW f \in Files, NEW where \in Places, Goes(f, where)
    PROVE  /\ conn' \in Conns
           /\ conn'[f].at = where /\ conn'[f].leaf = conn[f].leaf
           /\ conn'[f].bytes = conn[f].bytes
           /\ \A g \in Files \ {f} : conn'[g] = conn[g]
  BY DEF Goes, Conns
LEMMA GettingBytes ==
    ASSUME conn \in Conns, NEW f \in Files, conn' = [conn EXCEPT ![f].bytes = TRUE]
    PROVE  /\ conn' \in Conns
           /\ conn'[f].at = conn[f].at /\ conn'[f].leaf = conn[f].leaf /\ conn'[f].bytes
           /\ \A g \in Files \ {f} : conn'[g] = conn[g]
  BY DEF Conns
LEMMA Ending ==
    ASSUME conn \in Conns, NEW f \in Files, Ends(f)
    PROVE  /\ conn' \in Conns /\ conn'[f] = Idle
           /\ \A g \in Files \ {f} : conn'[g] = conn[g]
  BY DEF Ends, Conns, Idle, Places

Temps == [Files -> [exists : BOOLEAN, good : SUBSET Nat]]

\* The temporary file of a file is another one; those of the others are the same.
LEMMA TempReplaced ==
    ASSUME temp \in Temps, NEW f \in Files, NEW t \in [exists : BOOLEAN, good : SUBSET Nat],
           temp' = [temp EXCEPT ![f] = t]
    PROVE  temp' \in Temps /\ temp'[f] = t /\ \A g \in Files \ {f} : temp'[g] = temp[g]
  BY DEF Temps
LEMMA NoTempTyped ==
    NoTemp \in [exists : BOOLEAN, good : SUBSET Nat] /\ ~NoTemp.exists /\ NoTemp.good = {}
  BY DEF NoTemp
LEMMA TempGone ==
    ASSUME temp \in Temps, NEW f \in Files, temp' = [temp EXCEPT ![f] = NoTemp]
    PROVE  ~temp'[f].exists /\ \A g \in Files \ {f} : temp'[g] = temp[g]
  BY TempReplaced, NoTempTyped
LEMMA TempGrows ==
    ASSUME temp \in Temps, NEW f \in Files, NEW leaf \in Nat,
           temp' = [temp EXCEPT ![f].good = @ \cup {leaf}]
    PROVE  /\ temp' \in Temps
           /\ temp'[f].exists = temp[f].exists /\ temp'[f].good = temp[f].good \cup {leaf}
           /\ \A g \in Files \ {f} : temp'[g] = temp[g]
  BY DEF Temps
LEMMA TempCreated ==
    ASSUME temp \in Temps, NEW f \in Files, temp' = [temp EXCEPT ![f].exists = TRUE]
    PROVE  /\ temp' \in Temps
           /\ temp'[f].exists /\ temp'[f].good = temp[f].good
           /\ \A g \in Files \ {f} : temp'[g] = temp[g]
  BY DEF Temps

\* What a file of a bundle may hold.
LEMMA NothingTyped ==
    Nothing \in Contents /\ Nothing.files = {} /\ \A f \in Files : Nothing.done[f] = {}
  BY DEF Nothing, Contents
LEMMA ContentTyped ==
    ASSUME TypeOK
    PROVE  /\ Content \in Contents
           /\ Content.files = bundle.files /\ Content.auto = bundle.auto
           /\ \A f \in bundle.files : Content.done[f] = done[f]
           /\ \A f \in Files : Content.done[f] \subseteq done[f]
  BY DEF TypeOK, Content, Contents

LEMMA TypeInit == Init => TypeInv
  BY DEF Init, TypeInv, TypeOK, Limits, Contents, Nothing, Idle, NoTemp, Resting, Leaves, Working

LEMMA DownInit == Init => DownInv
  BY DEF Init, DownInv, Down

LEMMA DownStep == TypeInv /\ DownInv /\ [Next]_vars => DownInv'
<1> SUFFICES ASSUME TypeInv, DownInv, [Next]_vars PROVE DownInv'
  OBVIOUS
<1> USE DEF DownInv, Down, memory, threads, saving, disk
<1>1. CASE UNCHANGED vars
  BY <1>1 DEF vars, At
<1>2. ASSUME NEW f \in Files, Connection(f) \/ Fail(f) PROVE DownInv'
  <2>1. ~At(f, "idle") \/ up = "running"
    BY <1>2 DEF Connection, Assign, Open, Receive, PutFailed, Record, FinishItem, Move, Fail, At
  <2>2. UNCHANGED up
    BY <1>2 DEF Connection, Assign, Open, Receive, PutFailed, Record, FinishItem, Move, Fail
  <2> QED BY <2>1, <2>2
<1>3. ASSUME NEW f \in Files, RemoveFile(f) PROVE DownInv'
  BY <1>3 DEF RemoveFile
<1>4. ASSUME NEW f \in Files, LoseTemp(f) PROVE DownInv'
  BY <1>4 DEF LoseTemp, At
<1>5. CASE User \/ RemoveBundle \/ ToggleAuto
  BY <1>5 DEF User, RemoveItem, NoteChange, DeleteTemps, RemoveBundle, ToggleAuto
<1>6. ASSUME NEW s \in Savers, Save(s) PROVE DownInv'
  <2>1. saver[s] # "idle" \/ up \in {"saving", "running"}
    BY <1>6 DEF Save, BeginSave, WriteTmp, DeleteOld, RenameTmp, ClearDirty
  <2>2. UNCHANGED up
    BY <1>6 DEF Save, BeginSave, WriteTmp, DeleteOld, RenameTmp, ClearDirty
  <2> QED BY <2>1, <2>2
<1>7. CASE Stop \/ SaveAtEnd \/ Start
  BY <1>7 DEF Stop, SaveAtEnd, Start
<1>8. CASE End \/ Crash
  <2>1. Vanish
    BY <1>8 DEF End, Crash
  <2> QED BY <2>1 DEF Vanish, Idle, Resting, At, Savers
<1> QED
  BY <1>1, <1>2, <1>3, <1>4, <1>5, <1>6, <1>7, <1>8 DEF Next, Restart

LEMMA TypeStep == TypeInv /\ DownInv /\ [Next]_vars => TypeInv'
<1> SUFFICES ASSUME TypeInv, DownInv, [Next]_vars PROVE TypeInv'
  OBVIOUS
<1> USE DEF TypeInv, TypeOK, Leaves, Working, memory, threads, saving, disk, At, Conns, Places,
            Temps
<1>1. CASE UNCHANGED vars
  BY <1>1 DEF vars
<1>2. ASSUME NEW f \in Files, Assign(f) PROVE TypeInv'
  BY <1>2 DEF Assign, DoneOnDisk
<1>3. ASSUME NEW f \in Files, Open(f) PROVE TypeInv'
  <2>1. conn' \in Conns
        /\ \A g \in Files : conn'[g].leaf = conn[g].leaf /\ (Working(g)' => Working(g))
    BY <1>3, Going DEF Open
  <2>2. temp' \in Temps /\ \A g \in Files : temp'[g].good = temp[g].good
    BY <1>3, TempCreated DEF Open
  <2> QED BY <1>3, <2>1, <2>2 DEF Open
<1>4. ASSUME NEW f \in Files, Receive(f) PROVE TypeInv'
  <2>1. conn' \in Conns
        /\ \A g \in Files : conn'[g].leaf = conn[g].leaf /\ (Working(g)' => Working(g))
    <3>1. CASE conn[f].bytes
      BY <1>4, <3>1, Going DEF Receive
    <3>2. CASE ~conn[f].bytes
      BY <1>4, <3>2, GettingBytes DEF Receive
    <3> QED BY <3>1, <3>2
  <2>2. temp' \in Temps /\ \A g \in Files : temp'[g].good \subseteq Leaves(g)
    <3>1. conn[f].leaf \in Leaves(f) /\ conn[f].leaf \in Nat
      BY <1>4 DEF Receive
    <3>2. CASE conn[f].bytes
      <4>1. temp' = [temp EXCEPT ![f].good = @ \cup {conn[f].leaf}]
        BY <1>4, <3>2 DEF Receive
      <4>2. /\ temp' \in Temps /\ temp'[f].good = temp[f].good \cup {conn[f].leaf}
            /\ \A g \in Files \ {f} : temp'[g] = temp[g]
        BY <3>1, <4>1, TempGrows
      <4> QED BY <3>1, <4>2
    <3>3. CASE ~conn[f].bytes
      BY <1>4, <3>3 DEF Receive
    <3> QED BY <3>2, <3>3
  <2> QED BY <1>4, <2>1, <2>2 DEF Receive
<1>5. ASSUME NEW f \in Files, PutFailed(f) PROVE TypeInv'
  <2>1. conn' \in Conns
        /\ \A g \in Files : conn'[g] = conn[g] \/ conn'[g] = Idle
    BY <1>5, Ending DEF PutFailed
  <2>2. temp' \in Temps /\ \A g \in Files : temp'[g] = temp[g] \/ temp'[g] = NoTemp
    BY <1>5, TempReplaced, NoTempTyped DEF PutFailed
  <2>3. ASSUME NEW g \in Files
        PROVE  temp'[g].good \subseteq Leaves(g) /\ (Working(g)' => conn'[g].leaf \in Leaves(g))
    <3>1. temp'[g].good \subseteq Leaves(g)
      BY <2>2, NoTempTyped
    <3>2. Idle.at = "idle"
      BY DEF Idle
    <3>3. CASE conn'[g] = conn[g]
      BY <3>1, <3>3
    <3>4. CASE conn'[g] = Idle
      BY <3>1, <3>2, <3>4
    <3> QED BY <2>1, <3>3, <3>4
  <2>4. UNCHANGED <<limits, up, bundle, queue, done, user, saver, xml, tmp, saved, reset, target>>
    BY <1>5 DEF PutFailed
  <2> QED BY <2>1, <2>2, <2>3, <2>4
<1>6. ASSUME NEW f \in Files, Record(f) PROVE TypeInv'
  <2>1. conn' \in Conns
        /\ \A g \in Files : conn'[g] = conn[g] \/ ~Working(g)'
    BY <1>6, Going, Ending DEF Record, Idle
  <2>2. done' \in [Files -> SUBSET Nat] /\ \A g \in Files : done'[g] \subseteq Leaves(g)
    BY <1>6 DEF Record
  <2> QED BY <1>6, <2>1, <2>2 DEF Record, Dirty
<1>7. ASSUME NEW f \in Files, FinishItem(f) PROVE TypeInv'
  BY <1>7, Going DEF FinishItem, Dirty
<1>8. ASSUME NEW f \in Files, Move(f) PROVE TypeInv'
  <2>1. conn' \in Conns
        /\ \A g \in Files : conn'[g] = conn[g] \/ ~Working(g)'
    BY <1>8, Going, Ending DEF Move, Idle
  <2>2. temp' \in Temps /\ \A g \in Files : temp'[g] = temp[g] \/ temp'[g] = NoTemp
    BY <1>8, TempReplaced, NoTempTyped DEF Move
  <2>3. limits' \in Limits
    BY <1>8, Spending DEF Move
  <2>4. target' \in [Files -> {"none", "good", "bad"}]
    BY <1>8 DEF Move
  <2> QED BY <1>8, <2>1, <2>2, <2>3, <2>4, NoTempTyped DEF Move
<1>9. ASSUME NEW f \in Files, Fail(f) PROVE TypeInv'
  <2>1. limits' \in Limits
    BY <1>9, Spending DEF Fail
  <2>2. conn' \in Conns
        /\ \A g \in Files : conn'[g].leaf = conn[g].leaf /\ (Working(g)' => Working(g))
    BY <1>9, Going DEF Fail
  <2> QED BY <1>9, <2>1, <2>2 DEF Fail
<1>10. ASSUME NEW f \in Files, RemoveFile(f) PROVE TypeInv'
  BY <1>10, Spending DEF RemoveFile, Dequeued, NoTemp, Acts
<1>11. ASSUME NEW f \in Files, LoseTemp(f) PROVE TypeInv'
  BY <1>11, Spending DEF LoseTemp, NoTemp
<1>12. CASE RemoveItem
  BY <1>12 DEF RemoveItem, Acts
<1>13. CASE NoteChange
  BY <1>13 DEF NoteChange, Dirty, Resting
<1>14. CASE DeleteTemps
  BY <1>14 DEF DeleteTemps, NoTemp, Resting
<1>15. CASE RemoveBundle
  BY <1>15, Spending, NothingTyped DEF RemoveBundle, Dequeued, Acts
<1>16. CASE ToggleAuto
  BY <1>16, Spending DEF ToggleAuto, Acts
<1>17. ASSUME NEW s \in Savers, BeginSave(s) PROVE TypeInv'
  BY <1>17 DEF BeginSave, Saves, Ready, Savers
<1>18. ASSUME NEW s \in Savers, WriteTmp(s) PROVE TypeInv'
  <2>1. /\ tmp' \in [exists : BOOLEAN, content : Contents]
        /\ \A f \in Files : tmp'.content.done[f] \subseteq done[f]
    BY <1>18, ContentTyped DEF WriteTmp
  <2> QED BY <1>18, <2>1 DEF WriteTmp, Saves
<1>19. ASSUME NEW s \in Savers, DeleteOld(s) PROVE TypeInv'
  BY <1>19, NothingTyped DEF DeleteOld, Saves
<1>20. ASSUME NEW s \in Savers, RenameTmp(s) PROVE TypeInv'
  <2>1. /\ xml' \in Contents /\ tmp' \in [exists : BOOLEAN, content : Contents]
        /\ \A f \in Files : xml'.done[f] \cup tmp'.content.done[f] \subseteq Leaves(f)
        /\ saved' \subseteq Files /\ reset' \subseteq Files
    <3>1. tmp.content \in Contents /\ tmp.content.files \subseteq Files
      BY DEF Contents
    <3>2. CASE UNCHANGED saving
      BY <3>2
    <3>3. CASE /\ xml' = tmp.content /\ tmp' = [exists |-> FALSE, content |-> Nothing]
               /\ saved' = saved \cup tmp.content.files /\ reset' = {}
      <4>1. tmp' \in [exists : BOOLEAN, content : Contents] /\ tmp'.content = Nothing
        BY <3>3, NothingTyped
      <4> QED BY <3>3, <3>1, <4>1, NothingTyped
    <3> QED BY <1>20, <3>2, <3>3 DEF RenameTmp
  <2> QED BY <1>20, <2>1 DEF RenameTmp, Saves, Ready
<1>21. ASSUME NEW s \in Savers, ClearDirty(s) PROVE TypeInv'
  BY <1>21 DEF ClearDirty, Saves, Ready
<1>22. CASE Stop
  BY <1>22, Spending DEF Stop
<1>23. CASE SaveAtEnd
  BY <1>23 DEF SaveAtEnd
<1>24. CASE End \/ Crash
  <2>1. limits' \in Limits /\ up' \in {"ended", "crashed"} /\ UNCHANGED <<saving, disk>>
    BY <1>24, Spending DEF End, Crash, Vanish
  <2>2. /\ bundle' = [listed |-> FALSE, files |-> {}, dirty |-> FALSE, auto |-> TRUE]
        /\ queue' = {} /\ done' = [f \in Files |-> {}] /\ conn' = [f \in Files |-> Idle]
        /\ user' = Resting /\ saver' = [s \in Savers |-> "idle"]
    BY <1>24 DEF End, Crash, Vanish
  <2> QED BY <2>1, <2>2 DEF Idle, Resting
<1>25. CASE Start
  <2>1. PICK files \in SUBSET Files :
          /\ bundle' = [listed |-> files # {}, files |-> files, dirty |-> FALSE,
                        auto |-> (files = {} \/ xml.auto)]
          /\ queue' = files
          /\ done' = [f \in Files |-> IF f \in files THEN xml.done[f] ELSE {}]
          /\ xml' = IF files = {} THEN Nothing ELSE xml
    BY <1>25 DEF Start
  <2>2. xml.auto \in BOOLEAN /\ xml.done \in [Files -> SUBSET Nat]
    BY DEF Contents
  <2>3. UNCHANGED <<limits, threads, tmp, saved, reset, disk>> /\ up' = "running"
    BY <1>25 DEF Start
  <2>4. bundle' \in [listed : BOOLEAN, files : SUBSET Files, dirty : BOOLEAN, auto : BOOLEAN]
    <3>1. (files = {} \/ xml.auto) \in BOOLEAN
      BY <2>2
    <3> QED BY <2>1, <3>1
  <2>5. xml' \in Contents /\ \A f \in Files : xml'.done[f] \subseteq Leaves(f)
    BY <2>1, NothingTyped
  <2>6. done' \in [Files -> SUBSET Nat] /\ \A f \in Files : done'[f] \subseteq Leaves(f)
    BY <2>1, <2>2
  <2>7. /\ queue' \subseteq bundle'.files
        /\ user'.at \in {"removed", "deleting"} => user'.files \cap queue' = {}
    BY <2>1, <2>3, <1>25 DEF Start, DownInv, Down
  <2> QED BY <2>3, <2>4, <2>5, <2>6, <2>7
<1> QED
  BY <1>1, <1>2, <1>3, <1>4, <1>5, <1>6, <1>7, <1>8, <1>9, <1>10, <1>11, <1>12, <1>13, <1>14,
     <1>15, <1>16, <1>17, <1>18, <1>19, <1>20, <1>21, <1>22, <1>23, <1>24, <1>25
  DEF Next, Connection, User, Save, Restart

\* What is kept of a bundle has its type: nothing is queued that is not a file of the
\* bundle, and nothing counts as finished that is not a leaf of its file.
THEOREM TypeCorrect == Spec => []TypeOK
<1>1. TypeInv => TypeOK
  BY DEF TypeInv
<1> QED BY <1>1, TypeInit, TypeStep, DownInit, DownStep, PTL DEF Spec
-----------------------------------------------------------------------------
(* Finished files *)

\* A file that is in its place counts as finished; nobody finishes one that is removed.
FinishInv ==
    /\ \A f \in bundle.files : InPlace(f) => Finished(f)
    /\ \A f \in Files : Finishing(f) => f \in queue /\ Finished(f)
    /\ user.at = "emptied" => bundle.files = {}

\* What the invariants need of the types.
LEMMA Fields ==
    ASSUME TypeInv
    PROVE  /\ bundle \in [listed : BOOLEAN, files : SUBSET Files, dirty : BOOLEAN, auto : BOOLEAN]
           /\ bundle.files \subseteq Files /\ queue \subseteq bundle.files
           /\ done \in [Files -> SUBSET Nat] /\ conn \in Conns /\ temp \in Temps
           /\ target \in [Files -> {"none", "good", "bad"}] /\ limits \in Limits
           /\ saver \in [Savers -> {"idle", "writing", "written", "deleted", "renamed", "done"}]
           /\ \A f \in Files : done[f] \subseteq Leaves(f) /\ temp[f].good \subseteq Leaves(f)
           /\ \A f \in Files : Leaves(f) # {}
<1>1. \A f \in Files : 1 \in Leaves(f)
  BY DEF Leaves
<1>2. \A f \in Files : done[f] \subseteq Leaves(f) /\ temp[f].good \subseteq Leaves(f)
  BY DEF TypeInv, TypeOK
<1> QED BY <1>1, <1>2 DEF TypeInv, TypeOK, Conns, Places, Temps

\* A step of the threads that save changes nothing but what they are to save.
LEMMA SavingChanges ==
    ASSUME TypeInv, NEW s \in Savers, Save(s)
    PROVE  /\ UNCHANGED <<limits, up, queue, done, conn, user, temp, target>>
           /\ UNCHANGED <<bundle.listed, bundle.files, bundle.auto>>
  BY DEF TypeInv, TypeOK, Save, BeginSave, WriteTmp, DeleteOld, RenameTmp, ClearDirty, memory, disk

\* What is assigned again has not been finished, and is not afterwards.
LEMMA Assigning ==
    ASSUME TypeInv, NEW f \in Files, Assign(f)
    PROVE  /\ f \in queue /\ ~Finished(f) /\ done'[f] # Leaves(f)
           /\ done'[f] = done[f] \/ (~temp[f].exists /\ done'[f] = {})
           /\ \A g \in Files \ {f} : done'[g] = done[g]
           /\ conn'[f].at = "assigned" /\ \A g \in Files \ {f} : conn'[g] = conn[g]
  BY Fields DEF Assign, DoneOnDisk, Finished, Conns

\* What comes back counts as finished when it is in its place, and only then.
LEMMA Starting ==
    ASSUME TypeInv, Start
    PROVE  /\ bundle'.files = {f \in Files : Loads(f)} /\ queue' = bundle'.files
           /\ \A f \in bundle'.files : f \in xml.files /\ done'[f] = xml.done[f]
           /\ ~bundle'.dirty
           /\ bundle'.files = {} => xml' = Nothing
           /\ bundle'.files # {} => xml' = xml /\ bundle'.auto = xml.auto
           /\ up \in {"ended", "crashed"} /\ up' = "running"
           /\ UNCHANGED <<limits, conn, user, saver, tmp, saved, reset, temp, target>>
<1>1. xml.auto \in BOOLEAN
  BY DEF TypeInv, TypeOK, Contents
<1> QED BY <1>1 DEF Start, threads, disk, Loads

LEMMA FinishInit == Init => FinishInv
  BY DEF Init, FinishInv, InPlace, Finishing, Idle, Resting

LEMMA FinishStep == TypeInv /\ DownInv /\ FinishInv /\ [Next]_vars => FinishInv'
<1> SUFFICES ASSUME TypeInv, DownInv, FinishInv, [Next]_vars PROVE FinishInv'
  OBVIOUS
<1> USE Fields DEF FinishInv, memory, threads, saving, disk, InPlace, Finished, Finishing, Leaves
<1>1. CASE UNCHANGED vars
  BY <1>1 DEF vars
<1>2. ASSUME NEW f \in Files, Assign(f) PROVE FinishInv'
  BY <1>2, Assigning DEF Assign
<1>3. ASSUME NEW f \in Files, Open(f) PROVE FinishInv'
  BY <1>3, Going DEF Open, Places
<1>4. ASSUME NEW f \in Files, Receive(f) PROVE FinishInv'
  BY <1>4, Going, GettingBytes DEF Receive, Places
<1>5. ASSUME NEW f \in Files, PutFailed(f) PROVE FinishInv'
  <2>1. \A g \in Files : conn'[g].at = conn[g].at \/ conn'[g].at = "idle"
    BY <1>5, Ending DEF PutFailed, Idle
  <2>2. UNCHANGED <<bundle, queue, done, user, target>>
    BY <1>5 DEF PutFailed
  <2>3. \A g \in Files : Finishing(g)' => Finishing(g)
    BY <2>1
  <2> QED BY <2>2, <2>3
<1>6. ASSUME NEW f \in Files, Record(f) PROVE FinishInv'
  <2>1. bundle'.files = bundle.files /\ UNCHANGED <<queue, user, target>>
    BY <1>6 DEF Record, Dirty
  <2>2. /\ f \in queue /\ ~Finishing(f)
        /\ done'[f] = done[f] \cup {conn[f].leaf} /\ \A g \in Files \ {f} : done'[g] = done[g]
    BY <1>6 DEF Record, At
  <2>3. /\ \A g \in Files \ {f} : conn'[g] = conn[g]
        /\ Finishing(f)' => Finished(f)'
    BY <1>6, Going, Ending DEF Record, Idle, Places
  <2>4. conn[f].leaf \in Leaves(f)
    BY <1>6 DEF Record, At, TypeInv, Working
  <2>5. Finished(f) => Finished(f)'
    BY <2>2, <2>4
  <2>6. \A g \in Files : Finishing(g)' => g \in queue' /\ Finished(g)'
    BY <2>1, <2>2, <2>3, <2>5
  <2>7. \A g \in bundle'.files : InPlace(g)' => Finished(g)'
    BY <2>1, <2>2, <2>5
  <2> QED BY <2>1, <2>6, <2>7
<1>7. ASSUME NEW f \in Files, FinishItem(f) PROVE FinishInv'
  <2>1. bundle'.files = bundle.files /\ UNCHANGED <<queue, done, user, target>>
    BY <1>7 DEF FinishItem, Dirty
  <2>2. \A g \in Files : Finishing(g)' => Finishing(g)
    BY <1>7, Going DEF FinishItem, Places, At
  <2> QED BY <2>1, <2>2
<1>8. ASSUME NEW f \in Files, Move(f) PROVE FinishInv'
  <2>1. \A g \in Files : Finishing(g)' => Finishing(g)
    BY <1>8, Going, Ending DEF Move, Idle, Places, At
  <2>2. UNCHANGED <<bundle, queue, done, user>> /\ \A g \in Files \ {f} : target'[g] = target[g]
    BY <1>8 DEF Move
  <2>3. Finished(f)
    BY <1>8 DEF Move, At
  <2> QED BY <2>1, <2>2, <2>3
<1>9. ASSUME NEW f \in Files, Fail(f) PROVE FinishInv'
  <2>1. \A g \in Files : Finishing(g)' => Finishing(g)
    BY <1>9, Going DEF Fail, Places
  <2> QED BY <1>9, <2>1 DEF Fail
<1>10. ASSUME NEW f \in Files, RemoveFile(f) PROVE FinishInv'
  BY <1>10 DEF RemoveFile, Dequeued, Acts
<1>11. ASSUME NEW f \in Files, LoseTemp(f) PROVE FinishInv'
  BY <1>11 DEF LoseTemp
<1>12. CASE RemoveItem
  BY <1>12 DEF RemoveItem, Acts
<1>13. CASE NoteChange \/ DeleteTemps \/ ToggleAuto
  <2>1. /\ bundle'.files = bundle.files /\ user'.at # "emptied"
        /\ UNCHANGED <<queue, done, conn, target>>
    BY <1>13 DEF NoteChange, Dirty, DeleteTemps, ToggleAuto, Acts, Resting
  <2> QED BY <2>1
<1>14. CASE RemoveBundle
  <2>1. \A f \in Files : ~Finishing(f)
    BY <1>14 DEF RemoveBundle
  <2> QED BY <1>14, <2>1 DEF RemoveBundle, Acts
<1>15. ASSUME NEW s \in Savers, Save(s) PROVE FinishInv'
  BY <1>15, SavingChanges
<1>16. CASE Stop \/ SaveAtEnd
  BY <1>16 DEF Stop, SaveAtEnd
<1>17. CASE End \/ Crash
  BY <1>17 DEF End, Crash, Vanish, Idle, Resting
<1>18. CASE Start
  BY <1>18, Starting DEF DownInv, Down, Loads, At
<1> QED
  BY <1>1, <1>2, <1>3, <1>4, <1>5, <1>6, <1>7, <1>8, <1>9, <1>10, <1>11, <1>12, <1>13, <1>14,
     <1>15, <1>16, <1>17, <1>18
  DEF Next, Connection, User, Restart
-----------------------------------------------------------------------------
(* A crash *)

\* What others do while a bundle is not loaded, saved or dropped.
Others ==
    \/ \E f \in Files : Connection(f) \/ Fail(f) \/ RemoveFile(f) \/ LoseTemp(f)
    \/ User \/ RemoveBundle \/ ToggleAuto \/ Stop \/ SaveAtEnd

LEMMA NextSteps ==
    Next <=> Others \/ (\E s \in Savers : Save(s)) \/ End \/ Crash \/ Start
  BY DEF Next, Others, Restart

Kept == <<tmp, saved, saver>>

\* While a bundle is saved, nothing of what is saved changes, unless its priority is
\* toggled; at any time, it gets no more files and what is finished stays finished.
LEMMA OthersChange ==
    ASSUME TypeInv, Others
    PROVE  /\ UNCHANGED Kept
           /\ xml' = xml \/ (xml' = Nothing /\ bundle'.files = {} /\ ~Saving)
           /\ bundle'.files \subseteq bundle.files
           /\ \A f \in Files : Finished(f) => Finished(f)'
           /\ Saving => /\ bundle'.files = bundle.files
                        /\ done' = done /\ reset' = reset
                        /\ "unlocked" \notin Mishaps => bundle'.auto = bundle.auto
<1> USE Fields DEF Kept, memory, threads, saving, disk, WriteLock, Finished, Leaves
<1>1. ASSUME NEW f \in Files, Assign(f)
      PROVE  /\ UNCHANGED <<Kept, xml, bundle>> /\ ~Saving
             /\ \A g \in Files : Finished(g) => Finished(g)'
  BY <1>1, Assigning DEF Assign
<1>2. ASSUME NEW f \in Files, Record(f)
      PROVE  /\ UNCHANGED <<Kept, xml>> /\ bundle'.files = bundle.files /\ ~Saving
             /\ \A g \in Files : Finished(g) => Finished(g)'
  <2>1. /\ done'[f] = done[f] \cup {conn[f].leaf} /\ \A g \in Files \ {f} : done'[g] = done[g]
        /\ UNCHANGED <<Kept, xml>> /\ bundle'.files = bundle.files /\ ~Saving
    BY <1>2 DEF Record, Dirty
  <2>2. conn[f].leaf \in Leaves(f)
    BY <1>2 DEF Record, At, TypeInv, Working
  <2>3. Finished(f) => Finished(f)'
    BY <2>1, <2>2
  <2>4. \A g \in Files \ {f} : Finished(g) => Finished(g)'
    BY <2>1
  <2> QED BY <2>1, <2>3, <2>4
<1>3. ASSUME NEW f \in Files,
             Open(f) \/ Receive(f) \/ PutFailed(f) \/ Move(f) \/ Fail(f) \/ LoseTemp(f)
      PROVE  UNCHANGED <<Kept, xml, bundle, done, reset>>
  BY <1>3 DEF Open, Receive, PutFailed, Move, Fail, LoseTemp
<1>4. ASSUME NEW f \in Files, FinishItem(f) \/ RemoveFile(f)
      PROVE  UNCHANGED <<Kept, xml, bundle.files, done, reset>> /\ ~Saving
  BY <1>4 DEF FinishItem, RemoveFile, Dirty
<1>5. CASE RemoveItem \/ RemoveBundle
  <2>1. /\ UNCHANGED <<Kept, done>> /\ ~Saving
        /\ xml' = xml \/ (xml' = Nothing /\ bundle'.files = {})
    BY <1>5 DEF RemoveItem, RemoveBundle
  <2>2. bundle'.files = bundle.files \ user.files \/ bundle'.files = {}
    BY <1>5 DEF RemoveItem, RemoveBundle
  <2> QED BY <2>1, <2>2
<1>6. CASE NoteChange \/ DeleteTemps \/ Stop \/ SaveAtEnd
  <2>1. UNCHANGED <<Kept, xml, bundle.files, bundle.auto, done, reset>>
    BY <1>6 DEF NoteChange, DeleteTemps, Stop, SaveAtEnd, Dirty
  <2> QED BY <2>1
<1>7. CASE ToggleAuto
  <2>1. /\ UNCHANGED <<Kept, xml, bundle.files, done, reset>>
        /\ Saving => "unlocked" \in Mishaps
    BY <1>7 DEF ToggleAuto
  <2> QED BY <2>1
<1> QED
  BY <1>1, <1>2, <1>3, <1>4, <1>5, <1>6, <1>7 DEF Others, Connection, User

\* Each step of a save, of a bundle that only one thread saves.
LEMMA Moving ==
    ASSUME TypeInv, NEW s \in Savers,
           NEW where \in {"idle", "writing", "written", "deleted", "renamed", "done"},
           Saves(s, where)
    PROVE  saver'[s] = where /\ \A r \in Savers \ {s} : saver'[r] = saver[r]
  BY Fields DEF Saves

Busy(s) == saver[s] \notin {"idle", "done"}
Alone == \A r, s \in Savers : Busy(r) /\ Busy(s) => r = s

\* What counts as finished in a file of the bundle does so in memory.
StaysFinished(c) == \A f \in c.files \cap bundle.files : c.done[f] = Leaves(f) => Finished(f)
Holds(s) == saver[s] \in {"written", "deleted"}

\* What has been saved of the bundle is in its file, or in the one that takes its place.
KeepInv ==
    /\ Alone
    /\ StaysFinished(xml)
    /\ \A s \in Savers :
         /\ Holds(s) => /\ tmp.exists /\ tmp.content.files = bundle.files
                        /\ StaysFinished(tmp.content)
         /\ saver[s] = "renamed" => xml.files = bundle.files
    /\ (\A s \in Savers : saver[s] # "deleted") => bundle.files \cap saved \subseteq xml.files

LEMMA KeepInit == Init => KeepInv
  BY DEF Init, KeepInv, Alone, Busy, StaysFinished, Holds, Nothing

LEMMA KeepStep ==
    ASSUME "overlap" \notin Mishaps, TypeInv, DownInv, KeepInv, [Next]_vars
    PROVE  KeepInv'
<1>1. CASE UNCHANGED vars
  BY <1>1 DEF vars, memory, threads, saving, KeepInv, Alone, Busy, StaysFinished, Holds, Finished
<1>2. CASE Others
  <2>1. /\ UNCHANGED <<tmp, saved, saver>>
        /\ xml' = xml \/ (xml' = Nothing /\ bundle'.files = {} /\ ~Saving)
        /\ bundle'.files \subseteq bundle.files /\ bundle.files \subseteq Files
        /\ \A f \in Files : Finished(f) => Finished(f)'
        /\ Saving => bundle'.files = bundle.files
    BY <1>2, OthersChange, Fields DEF Kept
  <2>2. Alone'
    BY <2>1 DEF KeepInv, Alone, Busy
  <2>3. StaysFinished(xml)'
    BY <2>1 DEF KeepInv, StaysFinished
  <2>4. ASSUME NEW s \in Savers, Holds(s)'
        PROVE  tmp'.exists /\ tmp'.content.files = bundle'.files /\ StaysFinished(tmp.content)'
    <3>1. Holds(s) /\ Saving
      BY <2>1, <2>4 DEF Holds, Saving
    <3> QED BY <2>1, <3>1 DEF KeepInv, StaysFinished
  <2>5. ASSUME NEW s \in Savers, saver'[s] = "renamed"
        PROVE  xml'.files = bundle'.files
    <3>1. Saving
      BY <2>1, <2>5 DEF Saving
    <3> QED BY <2>1, <2>5, <3>1 DEF KeepInv
  <2>6. (\A s \in Savers : saver'[s] # "deleted") => bundle'.files \cap saved' \subseteq xml'.files
    BY <2>1 DEF KeepInv
  <2> QED BY <2>2, <2>3, <2>4, <2>5, <2>6 DEF KeepInv
<1>3. ASSUME NEW s \in Savers, Save(s) PROVE KeepInv'
  <2>1. /\ bundle'.files = bundle.files /\ done' = done /\ bundle.files \subseteq Files
        /\ \A f \in Files : Finished(f)' = Finished(f)
    BY <1>3, SavingChanges, Fields DEF Finished
  <2> USE DEF KeepInv, Alone, Busy, StaysFinished, Holds
  <2>2. CASE BeginSave(s)
    <3>1. saver'[s] \in {"idle", "writing", "done"} /\ \A r \in Savers \ {s} : saver'[r] = saver[r]
      BY <2>2, Moving DEF BeginSave, Ready
    <3>2. \A r \in Savers \ {s} : ~Busy(r)
      BY <2>2 DEF BeginSave
    <3>3. UNCHANGED <<xml, tmp, saved>> /\ saver[s] = "idle"
      BY <2>2 DEF BeginSave, saving
    <3> QED BY <2>1, <3>1, <3>2, <3>3
  <2>3. CASE WriteTmp(s)
    <3>1. /\ saver[s] = "writing" /\ saver'[s] = "written"
          /\ \A r \in Savers \ {s} : saver'[r] = saver[r]
          /\ tmp'.exists /\ tmp'.content = Content /\ UNCHANGED <<xml, saved>>
      BY <2>3, Moving DEF WriteTmp
    <3>2. \A r \in Savers \ {s} : ~Busy(r)
      BY <3>1
    <3>3. Content.files = bundle.files /\ \A f \in bundle.files : Content.done[f] = done[f]
      BY ContentTyped DEF TypeInv
    <3> QED BY <2>1, <3>1, <3>2, <3>3 DEF Finished
  <2>4. CASE DeleteOld(s)
    <3>1. /\ saver[s] = "written" /\ saver'[s] = "deleted"
          /\ \A r \in Savers \ {s} : saver'[r] = saver[r]
          /\ xml' = Nothing /\ UNCHANGED <<tmp, saved>>
      BY <2>4, Moving DEF DeleteOld
    <3> QED BY <2>1, <3>1, NothingTyped
  <2>5. CASE RenameTmp(s)
    <3>1. saver[s] = "deleted" /\ tmp.exists /\ \A r \in Savers \ {s} : ~Busy(r)
      BY <2>5 DEF RenameTmp
    <3>2. ~OpenTmp(s)
      BY <3>1 DEF OpenTmp
    <3>3. /\ xml' = tmp.content /\ saved' = saved \cup tmp.content.files
          /\ saver'[s] = "renamed" /\ \A r \in Savers \ {s} : saver'[r] = saver[r]
      BY <2>5, <3>1, <3>2, Moving DEF RenameTmp
    <3> QED BY <2>1, <3>1, <3>3
  <2>6. CASE ClearDirty(s)
    <3>1. /\ saver[s] = "renamed" /\ saver'[s] \in {"idle", "done"}
          /\ \A r \in Savers \ {s} : saver'[r] = saver[r]
          /\ UNCHANGED <<xml, tmp, saved>>
      BY <2>6, Moving DEF ClearDirty, Ready, saving
    <3> QED BY <2>1, <3>1
  <2> QED BY <1>3, <2>2, <2>3, <2>4, <2>5, <2>6 DEF Save
<1>4. CASE End \/ Crash
  <2>1. bundle'.files = {} /\ UNCHANGED saved /\ \A s \in Savers : saver'[s] = "idle"
    BY <1>4 DEF End, Crash, Vanish, saving
  <2> QED BY <2>1 DEF KeepInv, Alone, Busy, StaysFinished, Holds
<1>5. CASE Start
  <2>1. \A s \in Savers : saver'[s] = "idle"
    BY <1>5, Starting DEF DownInv, Down
  <2>2. /\ bundle'.files \subseteq Files /\ UNCHANGED saved
        /\ \A f \in bundle'.files : f \in xml.files /\ done'[f] = xml.done[f]
        /\ bundle'.files # {} => xml' = xml
    BY <1>5, Starting
  <2> QED BY <2>1, <2>2 DEF KeepInv, Alone, Busy, StaysFinished, Holds, Finished
<1> QED BY <1>1, <1>2, <1>3, <1>4, <1>5, NextSteps

\* When no two threads save the bundle at once, a crash at any moment forgets a saved file
\* only where the code lets it: between the deletion of the old and the renaming of the
\* new file of the bundle, or when the file counts as finished and has not been moved.
THEOREM SavedIsKept ==
    ASSUME "overlap" \notin Mishaps
    PROVE  Spec => []CrashKeeps
<1>1. TypeInv /\ DownInv /\ KeepInv /\ [Next]_vars => KeepInv'
  BY KeepStep
<1>2. TypeInv /\ KeepInv => CrashKeeps
  <2> SUFFICES ASSUME TypeInv, KeepInv, \A s \in Savers : saver[s] # "deleted",
                      NEW f \in bundle.files \cap saved, ~InPlace(f), ~Unmoved(f)
               PROVE  Loads(f)
    BY DEF CrashKeeps
  <2>1. f \in xml.files
    BY DEF KeepInv
  <2>2. xml.done[f] # Leaves(f)
    BY <2>1 DEF KeepInv, StaysFinished, Unmoved
  <2> QED BY <2>1, <2>2 DEF Loads
<1> QED BY <1>1, <1>2, TypeInit, TypeStep, DownInit, DownStep, KeepInit, PTL DEF Spec
-----------------------------------------------------------------------------
(* What "dirty" says *)

\* The file holds the bundle: its files, what is finished of them but for the segments that
\* have gone with a temporary file, and its priority, if no other thread may change that
\* without the lock. What else is in it is not loaded.
InSync ==
    /\ bundle.files \subseteq xml.files
    /\ \A f \in bundle.files :
         xml.done[f] = done[f] \/ (f \in reset /\ ~Finished(f) /\ xml.done[f] # Leaves(f))
    /\ \A f \in xml.files \ bundle.files : ~Loads(f)
    /\ "unlocked" \notin Mishaps /\ bundle.files # {} => xml.auto = bundle.auto

\* Nobody is about to change the bundle, or to note that it has changed.
Settled == ~Down /\ ~bundle.dirty /\ ~Saving /\ user.at \in {"idle", "removed", "deleting"}

\* What is written of the bundle.
Says(content) ==
    /\ content.files = bundle.files /\ content.done = Content.done
    /\ "unlocked" \notin Mishaps => content.auto = bundle.auto

SyncInv ==
    /\ \A s \in Savers : /\ Holds(s) => Says(tmp.content)
                         /\ saver[s] = "renamed" => Says(xml)
    /\ Settled => InSync

LEMMA SyncInit == Init => SyncInv
  BY DEF Init, SyncInv, Settled, Holds

\* What others do to a bundle that is in its file.
LEMMA OthersSync ==
    ASSUME TypeInv, FinishInv, Others, Settled', Settled => InSync
    PROVE  InSync'
<1> USE Fields DEF Settled, Down, memory, threads, saving, disk, Saving
<1>0. bundle.files \subseteq Files /\ queue \subseteq bundle.files
  OBVIOUS
<1>1. ASSUME NEW f \in Files, Assign(f) PROVE InSync'
  <2>1. InSync
    BY <1>1 DEF Assign
  <2>2. UNCHANGED <<bundle, xml, target>>
    BY <1>1 DEF Assign
  <2>3. reset' = IF done'[f] = done[f] THEN reset ELSE reset \cup {f}
    BY <1>1 DEF Assign
  <2>4. /\ ~Finished(f) /\ done'[f] # Leaves(f) /\ \A g \in Files \ {f} : done'[g] = done[g]
    BY <1>1, Assigning
  <2>5. ASSUME NEW g \in bundle.files
        PROVE  \/ xml'.done[g] = done'[g]
               \/ g \in reset' /\ ~Finished(g)' /\ xml'.done[g] # Leaves(g)
    <3>1. xml.done[g] = done[g] \/ (g \in reset /\ ~Finished(g) /\ xml.done[g] # Leaves(g))
      BY <2>1 DEF InSync
    <3>2. CASE g = f
      BY <2>2, <2>3, <2>4, <3>1, <3>2 DEF Finished, Leaves
    <3>3. CASE g # f
      BY <1>0, <2>2, <2>3, <2>4, <3>1, <3>3 DEF Finished, Leaves
    <3> QED BY <3>2, <3>3
  <2> QED BY <2>1, <2>2, <2>5 DEF InSync, Loads, InPlace, Leaves
<1>2. ASSUME NEW f \in Files, Record(f) \/ FinishItem(f) PROVE InSync'
  <2>1. bundle' = Dirty(bundle)
    BY <1>2 DEF Record, FinishItem
  <2> QED BY <2>1 DEF Dirty
<1>3. ASSUME NEW f \in Files, Move(f) PROVE InSync'
  <2>1. UNCHANGED <<up, bundle, queue, done, user, saver, xml, reset>>
    BY <1>3 DEF Move
  <2>2. f \in bundle.files
    BY <1>3 DEF Move, FinishInv, Finishing, At
  <2>3. \A g \in Files \ {f} : target'[g] = target[g]
    BY <1>3 DEF Move
  <2>4. xml.files \subseteq Files
    BY DEF TypeInv, TypeOK, Contents
  <2>5. InSync
    BY <2>1
  <2>6. \A g \in xml.files \ bundle.files : ~Loads(g)'
    BY <2>1, <2>2, <2>3, <2>4, <2>5 DEF InSync, Loads, InPlace, Leaves
  <2> QED BY <2>1, <2>5, <2>6 DEF InSync, Finished, Leaves
<1>4. CASE \/ \E f \in Files : \/ Open(f) \/ Receive(f) \/ PutFailed(f) \/ Fail(f)
                               \/ LoseTemp(f) \/ RemoveFile(f)
           \/ DeleteTemps \/ Stop \/ SaveAtEnd
  <2>1. UNCHANGED <<bundle, done, saver, xml, reset, target>>
    BY <1>4
    DEF Open, Receive, PutFailed, Fail, LoseTemp, RemoveFile, DeleteTemps, Stop, SaveAtEnd
  <2>2. ~Down /\ user.at \in {"idle", "removed", "deleting"}
    BY <1>4
    DEF Open, Receive, PutFailed, Fail, LoseTemp, RemoveFile, DeleteTemps, Stop, SaveAtEnd
  <2> QED BY <2>1, <2>2 DEF InSync, Loads, InPlace, Finished, Leaves
<1>5. CASE RemoveItem \/ ToggleAuto
  <2>1. user'.at \in {"emptied", "changed"}
    BY <1>5 DEF RemoveItem, ToggleAuto, Acts
  <2> QED BY <2>1
<1>6. CASE NoteChange
  BY <1>6 DEF NoteChange, Dirty
<1>7. CASE RemoveBundle
  <2>1. bundle'.files = {} /\ xml' = Nothing
    BY <1>7 DEF RemoveBundle
  <2> QED BY <2>1, NothingTyped DEF InSync
<1> QED
  BY <1>1, <1>2, <1>3, <1>4, <1>5, <1>6, <1>7 DEF Others, Connection, User

LEMMA SyncStep ==
    ASSUME "overlap" \notin Mishaps, TypeInv, DownInv, FinishInv, KeepInv, SyncInv, [Next]_vars
    PROVE  SyncInv'
<1>1. CASE UNCHANGED vars
  BY <1>1 DEF vars, memory, threads, saving, disk, SyncInv, Says, Holds, Content, Settled, Down, Saving,
              InSync, Loads, InPlace, Finished, Leaves
<1>2. CASE Others
  <2>1. UNCHANGED <<tmp, saver>>
    BY <1>2, OthersChange DEF Kept
  <2>2. ASSUME NEW s \in Savers, Holds(s)' \/ saver'[s] = "renamed"
        PROVE  /\ xml' = xml /\ bundle'.files = bundle.files /\ Content'.done = Content.done
               /\ "unlocked" \notin Mishaps => bundle'.auto = bundle.auto
    <3>1. Saving
      BY <2>1, <2>2 DEF Saving, Holds
    <3> QED BY <1>2, <3>1, OthersChange DEF Content
  <2>3. Settled' => InSync'
    BY <1>2, OthersSync DEF SyncInv
  <2> QED BY <2>1, <2>2, <2>3 DEF SyncInv, Says, Holds
<1>3. ASSUME NEW s \in Savers, Save(s) PROVE SyncInv'
  <2>1. /\ UNCHANGED <<up, done, user, target, bundle.files, bundle.auto>>
        /\ Content'.done = Content.done
    BY <1>3, SavingChanges DEF Content
  <2>2. \A r \in Savers \ {s} : Busy(s) => ~Busy(r)
    BY DEF KeepInv, Alone
  <2>3. saver'[s] \in {"written", "deleted", "renamed", "writing"} => Saving'
    BY DEF Saving
  <2> USE DEF SyncInv, Says, Holds, Busy
  <2>4. CASE BeginSave(s)
    <3>1. /\ saver'[s] \in {"idle", "writing", "done"} /\ saver[s] = "idle"
          /\ \A r \in Savers \ {s} : saver'[r] = saver[r]
          /\ UNCHANGED <<bundle, xml, tmp, reset>>
      BY <2>4, Moving DEF BeginSave, Ready, saving, memory
    <3>2. Settled' => Settled
      BY <2>1, <3>1 DEF Settled, Down, Saving
    <3>3. InSync => InSync'
      BY <2>1, <3>1 DEF InSync, Loads, InPlace, Finished, Leaves
    <3> QED BY <2>1, <3>1, <3>2, <3>3
  <2>5. CASE WriteTmp(s)
    <3>1. /\ saver[s] = "writing" /\ saver'[s] = "written"
          /\ \A r \in Savers \ {s} : saver'[r] = saver[r]
          /\ tmp'.content = Content /\ Content.files = bundle.files /\ Content.auto = bundle.auto
      BY <2>5, Moving, ContentTyped DEF WriteTmp, TypeInv
    <3> QED BY <2>1, <2>2, <2>3, <3>1 DEF Settled
  <2>6. CASE DeleteOld(s)
    <3>1. /\ saver[s] = "written" /\ saver'[s] = "deleted"
          /\ \A r \in Savers \ {s} : saver'[r] = saver[r]
          /\ UNCHANGED tmp
      BY <2>6, Moving DEF DeleteOld
    <3> QED BY <2>1, <2>2, <2>3, <3>1 DEF Settled
  <2>7. CASE RenameTmp(s)
    <3>1. saver[s] = "deleted" /\ tmp.exists /\ ~OpenTmp(s)
      BY <2>2, <2>7 DEF RenameTmp, KeepInv, OpenTmp
    <3>2. /\ xml' = tmp.content /\ saver'[s] = "renamed"
          /\ \A r \in Savers \ {s} : saver'[r] = saver[r]
      BY <2>7, <3>1, Moving DEF RenameTmp
    <3> QED BY <2>1, <2>2, <2>3, <3>1, <3>2 DEF Settled
  <2>8. CASE ClearDirty(s)
    <3>1. /\ saver[s] = "renamed" /\ saver'[s] \in {"idle", "done"}
          /\ \A r \in Savers \ {s} : saver'[r] = saver[r]
          /\ UNCHANGED <<xml, tmp, reset>>
      BY <2>8, Moving DEF ClearDirty, Ready, saving
    <3>2. InSync'
      <4>1. Says(xml') /\ xml' = xml
        BY <3>1
      <4> QED BY <2>1, <4>1, ContentTyped DEF InSync, TypeInv
    <3> QED BY <2>1, <2>2, <3>1, <3>2
  <2> QED BY <1>3, <2>4, <2>5, <2>6, <2>7, <2>8 DEF Save
<1>4. CASE End \/ Crash
  <2>1. Down' /\ \A s \in Savers : saver'[s] = "idle"
    BY <1>4 DEF End, Crash, Vanish, Down
  <2> QED BY <2>1 DEF SyncInv, Settled, Holds
<1>5. CASE Start
  <2>1. \A s \in Savers : saver'[s] = "idle"
    BY <1>5, Starting DEF DownInv, Down
  <2>2. InSync'
    <3>1. /\ bundle'.files = {f \in Files : Loads(f)}
          /\ \A f \in bundle'.files : f \in xml.files /\ done'[f] = xml.done[f]
          /\ bundle'.files = {} => xml' = Nothing
          /\ bundle'.files # {} => xml' = xml /\ bundle'.auto = xml.auto
          /\ target' = target
      BY <1>5, Starting
    <3>2. CASE bundle'.files = {}
      BY <3>1, <3>2, NothingTyped DEF InSync
    <3>3. CASE bundle'.files # {}
      <4>1. \A f \in xml'.files \ bundle'.files : ~Loads(f)'
        <5>1. xml.files \subseteq Files
          BY DEF TypeInv, TypeOK, Contents
        <5> QED BY <3>1, <3>3, <5>1 DEF Loads, InPlace, Leaves
      <4> QED BY <3>1, <3>3, <4>1 DEF InSync
    <3> QED BY <3>2, <3>3
  <2> QED BY <2>1, <2>2 DEF SyncInv, Holds
<1> QED BY <1>1, <1>2, <1>3, <1>4, <1>5, NextSteps

\* When no two threads save the bundle at once and its priority is not toggled while it is
\* saved, a bundle that is not dirty is what a restart brings back, after any number of
\* restarts and crashes.
THEOREM RestartIsFaithful ==
    ASSUME Mishaps = {}
    PROVE  Spec => []RestartRestores
<1>1. TypeInv /\ DownInv /\ KeepInv /\ [Next]_vars => KeepInv'
  BY KeepStep
<1>2. TypeInv /\ DownInv /\ FinishInv /\ KeepInv /\ SyncInv /\ [Next]_vars => SyncInv'
  BY SyncStep
<1>3. TypeInv /\ FinishInv /\ SyncInv => RestartRestores
  <2> SUFFICES ASSUME TypeInv, FinishInv, InSync PROVE
          /\ {f \in Files : Loads(f)} = {f \in bundle.files : ~Unmoved(f)}
          /\ \A f \in bundle.files \ reset : Loads(f) => xml.done[f] = done[f]
          /\ bundle.files # {} => xml.auto = bundle.auto
    BY DEF SyncInv, Settled, Down, RestartRestores
  <2>1. bundle.files \subseteq Files
    BY Fields
  <2>2. ASSUME NEW f \in bundle.files PROVE Loads(f) <=> ~Unmoved(f)
    <3>1. InPlace(f) => Finished(f)
      BY DEF FinishInv
    <3> QED BY <2>2, <3>1 DEF InSync, Loads, Unmoved, Finished
  <2>3. ASSUME NEW f \in Files \ bundle.files PROVE ~Loads(f)
    BY <2>3 DEF InSync, Loads
  <2>4. {f \in Files : Loads(f)} = {f \in bundle.files : ~Unmoved(f)}
    BY <2>1, <2>2, <2>3
  <2> QED BY <2>4 DEF InSync
<1> QED
  BY <1>1, <1>2, <1>3, TypeInit, TypeStep, DownInit, DownStep, FinishInit, FinishStep, KeepInit,
     SyncInit, PTL
  DEF Spec
-----------------------------------------------------------------------------
(* What is on the disk *)

\* How often the program may still be started again.
Restarts == limits.crash + limits.stop + (IF up = "running" THEN 0 ELSE 1)

\* A file that goes with a temporary file is not saved as such, so that a restart from the
\* old one may take what is missing for finished: nothing is lost, or nothing is restarted;
\* a file that is removed can come back from the old one once, but is not downloaded again.
KeepsTemps(l) ==
    \/ l.crash = 0 /\ l.stop = 0
    \/ l.lose = 0 /\ (l.remove = 0 \/ l.crash + l.stop <= 1)

OnDisk(f, segments) == temp[f].exists => segments \subseteq temp[f].good
There(f, segments) == segments = {} \/ temp[f].exists \/ InPlace(f)
\* What may be loaded says nothing that is not on the disk.
Safe(c) ==
    /\ Restarts >= 1 => \A f \in c.files : /\ OnDisk(f, c.done[f])
                                           /\ f \in queue => c.done[f] \subseteq done[f]
    /\ Restarts >= 2 => \A f \in c.files : There(f, c.done[f])

\* The temporary file of a queued file is there when something of the file is finished or
\* a connection has it open.
Opened(f) == conn[f].at \in {"receiving", "received"}
Complete(f) == There(f, done[f]) /\ (Opened(f) => temp[f].exists)

\* Nothing has been lost that could be loaded again.
LosslessInv ==
    /\ Restarts >= 1 =>
         /\ limits.lose = 0
         /\ \A f \in queue : Complete(f)
    /\ Restarts >= 2 =>
         /\ limits.remove = 0 /\ user.at \in {"idle", "changed"} /\ queue = bundle.files
         /\ \A f \in Files : ~At(f, "idle") => f \in queue
GoodInv ==
    /\ \A f \in bundle.files : OnDisk(f, done[f])
    /\ \A f \in queue : At(f, "received") => OnDisk(f, {conn[f].leaf})
    /\ \A f \in Files : target[f] # "bad"
SafeInv ==
    /\ Safe(xml)
    /\ \A s \in Savers : Holds(s) => Safe(tmp.content)

Events == {"crash", "stop", "remove", "lose", "fail", "toggle", "move"}

\* What a step spends; the program ends only for what is counted.
LEMMA Spends ==
    ASSUME [Next]_vars
    PROVE  \/ UNCHANGED limits /\ (UNCHANGED up \/ up # "running")
           \/ \E what \in Events : Spend(what) /\ (UNCHANGED up \/ what \in {"stop", "crash"})
<1> USE DEF Events
<1>1. CASE UNCHANGED vars
  BY <1>1 DEF vars
<1>2. ASSUME NEW f \in Files, Connection(f)
      PROVE  UNCHANGED up /\ (UNCHANGED limits \/ Spend("move"))
  BY <1>2 DEF Connection, Assign, Open, Receive, PutFailed, Record, FinishItem, Move
<1>3. ASSUME NEW f \in Files, Fail(f) \/ RemoveFile(f) \/ LoseTemp(f)
      PROVE  UNCHANGED up /\ (UNCHANGED limits \/ Spend("fail") \/ Spend("remove") \/ Spend("lose"))
  BY <1>3 DEF Fail, RemoveFile, LoseTemp
<1>4. CASE User
  BY <1>4 DEF User, RemoveItem, NoteChange, DeleteTemps
<1>5. CASE RemoveBundle \/ ToggleAuto
  BY <1>5 DEF RemoveBundle, ToggleAuto
<1>6. ASSUME NEW s \in Savers, Save(s)
      PROVE  UNCHANGED <<limits, up>>
  BY <1>6 DEF Save, BeginSave, WriteTmp, DeleteOld, RenameTmp, ClearDirty
<1>7. CASE Stop \/ Crash
  BY <1>7 DEF Stop, Crash
<1>8. CASE Restart
  BY <1>8 DEF Restart, SaveAtEnd, End, Start
<1> QED BY <1>1, <1>2, <1>3, <1>4, <1>5, <1>6, <1>7, <1>8 DEF Next

\* Nothing becomes more.
LEMMA Remaining ==
    ASSUME TypeInv, [Next]_vars
    PROVE  /\ Restarts \in Nat /\ Restarts' \in Nat /\ Restarts' <= Restarts
           /\ limits.lose = 0 => limits'.lose = 0
           /\ limits.remove = 0 => limits'.remove = 0
<1>1. /\ limits \in Limits
      /\ limits.crash \in Nat /\ limits.stop \in Nat /\ limits.lose \in Nat
      /\ limits.remove \in Nat
  BY DEF TypeInv, TypeOK, Limits
<1>2. CASE UNCHANGED limits /\ (UNCHANGED up \/ up # "running")
  BY <1>1, <1>2 DEF Restarts
<1>3. ASSUME NEW what \in Events, Spend(what), UNCHANGED up \/ what \in {"stop", "crash"}
      PROVE  /\ Restarts \in Nat /\ Restarts' \in Nat /\ Restarts' <= Restarts
             /\ limits.lose = 0 => limits'.lose = 0
             /\ limits.remove = 0 => limits'.remove = 0
  <2>1. /\ limits'.crash = IF what = "crash" THEN limits.crash - 1 ELSE limits.crash
        /\ limits'.stop = IF what = "stop" THEN limits.stop - 1 ELSE limits.stop
        /\ limits'.remove = IF what = "remove" THEN limits.remove - 1 ELSE limits.remove
        /\ limits'.lose = IF what = "lose" THEN limits.lose - 1 ELSE limits.lose
        /\ limits[what] > 0 /\ limits' \in Limits
    BY <1>1, <1>3, Spending DEF Events
  <2>2. /\ limits'.crash \in Nat /\ limits'.stop \in Nat /\ limits'.lose \in Nat
        /\ limits'.remove \in Nat
    BY <2>1 DEF Limits
  <2>3. CASE UNCHANGED up
    BY <1>1, <2>1, <2>2, <2>3 DEF Restarts
  <2>4. CASE what \in {"stop", "crash"}
    BY <1>1, <2>1, <2>2, <2>4 DEF Restarts
  <2> QED BY <1>3, <2>3, <2>4
<1> QED BY <1>2, <1>3, Spends

\* As long as the program may be started again, others finish more of the files that are
\* queued, and of a file of which something is finished they leave the temporary file as it
\* is or move it to its place; twice, if it can come back although it has been removed.
LEMMA OthersLose ==
    ASSUME TypeInv, FinishInv, LosslessInv, Others
    PROVE  /\ Restarts >= 1 => \A f \in queue' : f \in queue /\ done[f] \subseteq done'[f]
           /\ \A f \in Files : temp'[f].exists =>
                \/ temp[f].exists /\ temp[f].good \subseteq temp'[f].good
                \/ f \in queue /\ done[f] = {}
           /\ Restarts >= 2 => \A f \in Files : temp[f].exists \/ InPlace(f) =>
                \/ temp'[f].exists \/ InPlace(f)'
                \/ f \in queue /\ done[f] = {}
<1> DEFINE More == \A f \in queue' : f \in queue /\ done[f] \subseteq done'[f]
           Grows(f) == \/ temp'[f].exists => temp[f].exists /\ temp[f].good \subseteq temp'[f].good
                       \/ f \in queue /\ done[f] = {}
           Stays(f) == temp[f].exists \/ InPlace(f) =>
                         \/ temp'[f].exists \/ InPlace(f)'
                         \/ f \in queue /\ done[f] = {}
<1> USE Fields DEF InPlace
<1>1. ASSUME NEW f \in Files, Assign(f)
      PROVE  (Restarts >= 1 => More) /\ UNCHANGED disk
  <2>1. UNCHANGED <<queue, temp, target>> /\ f \in queue
    BY <1>1 DEF Assign, disk
  <2>2. ASSUME Restarts >= 1 PROVE done'[f] = done[f]
    <3>1. There(f, done[f]) /\ (InPlace(f) => Finished(f)) /\ ~Finished(f)
      BY <1>1, <2>1, <2>2, Assigning DEF LosslessInv, FinishInv, Complete
    <3> QED BY <1>1, <3>1, Assigning DEF There
  <2> QED BY <1>1, <2>1, <2>2, Assigning DEF disk
<1>2. ASSUME NEW f \in Files, Record(f) \/ FinishItem(f) PROVE More /\ UNCHANGED disk
  BY <1>2 DEF Record, FinishItem, disk
<1>3. ASSUME NEW f \in Files, Open(f)
      PROVE  UNCHANGED <<memory, target>> /\ \A g \in Files : Grows(g) /\ Stays(g)
  BY <1>3, TempCreated DEF Open
<1>4. ASSUME NEW f \in Files, Receive(f)
      PROVE  UNCHANGED <<memory, target>> /\ \A g \in Files : Grows(g) /\ Stays(g)
  <2>1. conn[f].leaf \in Nat
    BY DEF TypeInv, TypeOK
  <2> QED BY <1>4, <2>1, TempGrows DEF Receive
<1>5. ASSUME NEW f \in Files, PutFailed(f)
      PROVE  /\ UNCHANGED <<memory, target>>
             /\ \A g \in Files : Grows(g) /\ (Restarts >= 2 => Stays(g))
  <2>1. UNCHANGED <<memory, target>>
    BY <1>5 DEF PutFailed
  <2>2. temp' = temp \/ (temp' = [temp EXCEPT ![f] = NoTemp] /\ Useless(f))
    BY <1>5 DEF PutFailed
  <2>3. Restarts >= 2 => f \in queue
    BY <1>5 DEF PutFailed, LosslessInv, At
  <2>4. CASE temp' = temp
    BY <2>1, <2>4
  <2>5. CASE temp' = [temp EXCEPT ![f] = NoTemp] /\ Useless(f)
    <3>1. ~temp'[f].exists /\ \A g \in Files \ {f} : temp'[g] = temp[g]
      BY <2>5, TempGone
    <3>2. Restarts >= 2 => f \in queue /\ done[f] = {}
      BY <2>3, <2>5 DEF Useless
    <3> QED BY <2>1, <3>1, <3>2
  <2> QED BY <2>2, <2>4, <2>5
<1>6. ASSUME NEW f \in Files, Move(f)
      PROVE  UNCHANGED memory /\ \A g \in Files : Grows(g) /\ Stays(g)
  <2>1. UNCHANGED memory
    BY <1>6 DEF Move
  <2>2. CASE UNCHANGED disk
    BY <2>1, <2>2 DEF disk
  <2>3. CASE /\ target' = [target EXCEPT ![f] = IF temp[f].good = Leaves(f) THEN "good" ELSE "bad"]
             /\ temp' = [temp EXCEPT ![f] = NoTemp]
    <3>1. ~temp'[f].exists /\ \A g \in Files \ {f} : temp'[g] = temp[g]
      BY <2>3, TempGone
    <3>2. target'[f] # "none" /\ \A g \in Files \ {f} : target'[g] = target[g]
      BY <2>3
    <3> QED BY <2>1, <3>1, <3>2
  <2> QED BY <1>6, <2>2, <2>3 DEF Move
<1>7. ASSUME NEW f \in Files, Fail(f) PROVE UNCHANGED <<memory, disk>>
  BY <1>7 DEF Fail
<1>8. ASSUME NEW f \in Files, RemoveFile(f) \/ LoseTemp(f)
      PROVE  /\ More /\ ~(Restarts >= 2)
             /\ \A g \in Files : Grows(g)
  <2>1. temp' = temp \/ temp' = [temp EXCEPT ![f] = NoTemp]
    BY <1>8 DEF RemoveFile, LoseTemp
  <2>2. queue' \subseteq queue /\ UNCHANGED done
    BY <1>8 DEF RemoveFile, LoseTemp, Dequeued, memory
  <2>3. limits.remove # 0 \/ limits.lose # 0
    BY <1>8, Spending DEF RemoveFile, LoseTemp, Spend
  <2>4. ~(Restarts >= 2)
    <3>1. Restarts \in Nat
      BY DEF Restarts, Limits
    <3> QED BY <2>3, <3>1 DEF LosslessInv
  <2>5. \A g \in Files : Grows(g)
    BY <2>1, TempGone
  <2> QED BY <2>2, <2>4, <2>5
<1>9. CASE RemoveItem \/ NoteChange \/ RemoveBundle \/ ToggleAuto \/ Stop \/ SaveAtEnd
  <2>1. UNCHANGED <<done, disk>> /\ queue' \subseteq queue
    BY <1>9 DEF RemoveItem, NoteChange, RemoveBundle, ToggleAuto, Stop, SaveAtEnd, Dequeued, memory
  <2> QED BY <2>1 DEF disk
<1>10. CASE DeleteTemps
  <2>1. ~(Restarts >= 2) /\ UNCHANGED memory
    BY <1>10 DEF DeleteTemps, LosslessInv
  <2>2. \A g \in Files : temp'[g] = temp[g] \/ ~temp'[g].exists
    BY <1>10, NoTempTyped DEF DeleteTemps
  <2> QED BY <2>1, <2>2 DEF memory
<1> QED
  BY <1>1, <1>2, <1>3, <1>4, <1>5, <1>6, <1>7, <1>8, <1>9, <1>10
  DEF Others, Connection, User, memory, disk
DiskInv == FinishInv /\ LosslessInv /\ GoodInv /\ SafeInv

LEMMA DiskInit ==
    ASSUME \A l \in Setups : KeepsTemps(l), Init
    PROVE  LosslessInv /\ GoodInv /\ SafeInv
<1>1. limits.crash \in Nat /\ limits.stop \in Nat /\ limits.lose \in Nat /\ limits.remove \in Nat
  BY DEF Init, Limits
<1>2. Restarts = limits.crash + limits.stop /\ KeepsTemps(limits)
  BY <1>1 DEF Init, Restarts
<1>3. LosslessInv
  BY <1>1, <1>2 DEF LosslessInv, KeepsTemps, Init, Complete, Opened, There, Idle, Resting, At
<1>4. GoodInv
  BY DEF GoodInv, Init, OnDisk, NoTemp
<1>5. SafeInv
  BY NothingTyped DEF SafeInv, Safe, Init, Holds
<1> QED BY <1>3, <1>4, <1>5

\* What the other steps do to what may be loaded, and to what is queued.
LEMMA OthersSafe ==
    ASSUME TypeInv, FinishInv, LosslessInv, Others, NEW c, c \in Contents, Safe(c)
    PROVE  Safe(c)'
<1>1. c.files \subseteq Files /\ Restarts \in Nat /\ Restarts' \in Nat /\ Restarts' <= Restarts
  BY Remaining, NextSteps DEF Contents
<1>2. ASSUME Restarts' >= 1, NEW f \in c.files
      PROVE  OnDisk(f, c.done[f])' /\ (f \in queue' => c.done[f] \subseteq done'[f])
  BY <1>1, <1>2, OthersLose DEF Safe, OnDisk
<1>3. ASSUME Restarts' >= 2, NEW f \in c.files PROVE There(f, c.done[f])'
  BY <1>1, <1>3, OthersLose DEF Safe, There
<1> QED BY <1>2, <1>3 DEF Safe

LEMMA OthersGood ==
    ASSUME TypeInv, FinishInv, LosslessInv, GoodInv, Others
    PROVE  GoodInv'
<1> USE Fields DEF GoodInv, OnDisk
<1>1. ASSUME NEW f \in Files, Assign(f) PROVE GoodInv'
  <2>1. UNCHANGED <<bundle, queue, temp, target>>
    BY <1>1 DEF Assign, disk
  <2>2. /\ done'[f] = done[f] \/ (~temp[f].exists /\ done'[f] = {})
        /\ \A g \in Files \ {f} : done'[g] = done[g]
        /\ conn'[f].at = "assigned" /\ \A g \in Files \ {f} : conn'[g] = conn[g]
    BY <1>1, Assigning
  <2> QED BY <2>1, <2>2 DEF At
<1>2. ASSUME NEW f \in Files, Open(f) PROVE GoodInv'
  <2>1. UNCHANGED <<bundle, queue, done, target>>
    BY <1>2 DEF Open, memory
  <2>2. \A g \in Files : At(g, "received")' => At(g, "received") /\ g # f
    BY <1>2, Going DEF Open, At, Places
  <2>3. \A g \in Files : temp'[g].exists => temp'[g].good = temp[g].good
                                             /\ (temp[g].exists \/ (g = f /\ done[g] = {}))
    BY <1>2, TempCreated DEF Open
  <2>4. \A g \in Files \ {f} : temp'[g] = temp[g] /\ conn'[g] = conn[g]
    BY <1>2, TempCreated, Going DEF Open, Places
  <2> QED BY <2>1, <2>2, <2>3, <2>4
<1>3. ASSUME NEW f \in Files, Receive(f) PROVE GoodInv'
  <2>1. UNCHANGED <<bundle, queue, done, target>>
    BY <1>3 DEF Receive, memory
  <2>2. CASE conn[f].bytes
    <3>1. conn[f].leaf \in Nat
      BY DEF TypeInv, TypeOK
    <3>2. /\ temp'[f].exists = temp[f].exists /\ temp'[f].good = temp[f].good \cup {conn[f].leaf}
          /\ \A g \in Files \ {f} : temp'[g] = temp[g] /\ conn'[g] = conn[g]
          /\ conn'[f].leaf = conn[f].leaf
      BY <1>3, <2>2, <3>1, TempGrows, Going DEF Receive, Places
    <3> QED BY <2>1, <3>2 DEF At
  <2>3. CASE ~conn[f].bytes
    <3>1. /\ temp' = temp /\ \A g \in Files \ {f} : conn'[g] = conn[g]
          /\ conn'[f].at = conn[f].at /\ conn[f].at = "receiving"
      BY <1>3, <2>3, GettingBytes DEF Receive, At
    <3> QED BY <2>1, <3>1 DEF At
  <2> QED BY <2>2, <2>3
<1>4. ASSUME NEW f \in Files, PutFailed(f) \/ Fail(f) \/ LoseTemp(f) \/ RemoveFile(f)
      PROVE  GoodInv'
  <2>1. UNCHANGED <<bundle, done, target>> /\ (queue' = queue \/ queue' = queue \ {f})
    <3>1. CASE PutFailed(f) \/ Fail(f)
      BY <3>1 DEF PutFailed, Fail, memory, disk
    <3>2. CASE LoseTemp(f)
      BY <3>2 DEF LoseTemp, memory
    <3>3. CASE RemoveFile(f)
      BY <3>3 DEF RemoveFile, Dequeued
    <3> QED BY <1>4, <3>1, <3>2, <3>3
  <2>2. \A g \in Files : At(g, "received")' => conn'[g] = conn[g]
    BY <1>4, Going, Ending DEF PutFailed, Fail, LoseTemp, RemoveFile, At, Places, Idle, threads
  <2>3. temp' = temp \/ temp' = [temp EXCEPT ![f] = NoTemp]
    BY <1>4 DEF PutFailed, Fail, LoseTemp, RemoveFile, disk
  <2>4. \A g \in Files : temp'[g] = temp[g] \/ ~temp'[g].exists
    BY <2>3, TempGone
  <2> QED BY <2>1, <2>2, <2>4 DEF At
<1>5. ASSUME NEW f \in Files, Record(f) PROVE GoodInv'
  <2>1. /\ bundle'.files = bundle.files /\ UNCHANGED <<queue, temp, target>>
        /\ f \in queue /\ At(f, "received")
        /\ done'[f] = done[f] \cup {conn[f].leaf} /\ \A g \in Files \ {f} : done'[g] = done[g]
    BY <1>5 DEF Record, Dirty, disk
  <2>2. \A g \in Files : At(g, "received")' => conn'[g] = conn[g]
    BY <1>5, Going, Ending DEF Record, At, Places, Idle
  <2> QED BY <2>1, <2>2 DEF At
<1>6. ASSUME NEW f \in Files, FinishItem(f) PROVE GoodInv'
  <2>1. bundle'.files = bundle.files /\ UNCHANGED <<queue, done, temp, target>>
    BY <1>6 DEF FinishItem, Dirty, disk
  <2>2. \A g \in Files : At(g, "received")' => conn'[g] = conn[g]
    BY <1>6, Going DEF FinishItem, At, Places
  <2> QED BY <2>1, <2>2 DEF At
<1>7. ASSUME NEW f \in Files, Move(f) PROVE GoodInv'
  <2>1. UNCHANGED <<bundle, queue, done>>
    BY <1>7 DEF Move, memory
  <2>2. \A g \in Files : At(g, "received")' => conn'[g] = conn[g]
    BY <1>7, Going, Ending DEF Move, At, Places, Idle
  <2>3. CASE UNCHANGED disk
    BY <2>1, <2>2, <2>3 DEF disk, At
  <2>4. CASE temp[f].exists /\ temp' = [temp EXCEPT ![f] = NoTemp]
             /\ target' = [target EXCEPT ![f] = IF temp[f].good = Leaves(f) THEN "good" ELSE "bad"]
    <3>1. ~temp'[f].exists /\ \A g \in Files \ {f} : temp'[g] = temp[g]
      <4>1. temp' = [temp EXCEPT ![f] = NoTemp]
        BY <2>4
      <4>2. temp \in Temps
        OBVIOUS
      <4> QED BY <4>1, <4>2, TempGone
    <3>2. f \in bundle.files /\ Finished(f)
      BY <1>7 DEF Move, FinishInv, Finishing, At
    <3>3. temp[f].good = Leaves(f)
      <4>1. done[f] \subseteq temp[f].good /\ temp[f].good \subseteq Leaves(f)
        BY <2>4, <3>2
      <4>2. Leaves(f) \subseteq temp[f].good
        BY <3>2, <4>1 DEF Finished
      <4> QED BY <4>1, <4>2, Zenon
    <3>4. target'[f] = "good" /\ \A g \in Files \ {f} : target'[g] = target[g]
      BY <2>4, <3>3
    <3> QED BY <2>1, <2>2, <3>1, <3>4 DEF At
  <2> QED BY <1>7, <2>3, <2>4 DEF Move
<1>8. CASE RemoveItem \/ NoteChange \/ RemoveBundle \/ ToggleAuto \/ Stop \/ SaveAtEnd
  <2>1. UNCHANGED <<done, conn, temp, target>> /\ queue' \subseteq queue
    BY <1>8
    DEF RemoveItem, NoteChange, RemoveBundle, ToggleAuto, Stop, SaveAtEnd, Dequeued, memory,
        threads, disk
  <2>2. bundle'.files \subseteq bundle.files
    BY OthersChange
  <2> QED BY <2>1, <2>2 DEF At
<1>9. CASE DeleteTemps
  <2>1. UNCHANGED <<bundle, queue, done, conn, target>>
    BY <1>9 DEF DeleteTemps, memory
  <2>2. \A g \in Files : temp'[g] = temp[g] \/ ~temp'[g].exists
    BY <1>9, NoTempTyped DEF DeleteTemps
  <2> QED BY <2>1, <2>2 DEF At
<1> QED
  BY <1>1, <1>2, <1>3, <1>4, <1>5, <1>6, <1>7, <1>8, <1>9 DEF Others, Connection, User
LEMMA OthersComplete ==
    ASSUME TypeInv, FinishInv, LosslessInv, Others, Restarts >= 1
    PROVE  \A g \in queue' : Complete(g)'
<1> USE Fields DEF Complete, There, InPlace, Opened
<1> DEFINE All == \A g \in queue : Complete(g)
<1>0. All /\ limits.lose = 0 /\ queue \subseteq Files
  BY DEF LosslessInv
<1>1. ASSUME NEW f \in Files, Assign(f) PROVE All'
  <2>1. UNCHANGED <<queue, temp, target>> /\ f \in queue
    BY <1>1 DEF Assign, disk
  <2>2. (InPlace(f) => Finished(f)) /\ ~Finished(f)
    BY <1>1, <2>1, Assigning DEF FinishInv
  <2>3. done'[f] = done[f]
    BY <1>0, <1>1, <2>1, <2>2, Assigning
  <2>4. /\ \A g \in Files : done'[g] = done[g] /\ ~Opened(f)'
        /\ \A g \in Files \ {f} : conn'[g] = conn[g]
    BY <1>1, <2>3, Assigning
  <2> QED BY <1>0, <2>1, <2>4
<1>2. ASSUME NEW f \in Files, Open(f) PROVE All'
  <2>1. UNCHANGED <<queue, done, target>>
    BY <1>2 DEF Open, memory
  <2>2. \A g \in Files \ {f} : temp'[g] = temp[g] /\ conn'[g] = conn[g]
    BY <1>2, TempCreated, Going DEF Open, Places
  <2>3. (temp[f].exists => temp'[f].exists) /\ (Opened(f)' => temp'[f].exists)
    BY <1>2, TempCreated, Going DEF Open, Places
  <2> QED BY <1>0, <2>1, <2>2, <2>3
<1>3. ASSUME NEW f \in Files, Receive(f) PROVE All'
  <2>1. UNCHANGED <<queue, done, target>> /\ Opened(f)
    BY <1>3 DEF Receive, memory, At
  <2>2. conn[f].leaf \in Nat
    BY DEF TypeInv, TypeOK
  <2>3. \A g \in Files : temp'[g].exists = temp[g].exists
    BY <1>3, <2>2, TempGrows DEF Receive
  <2>4. \A g \in Files \ {f} : conn'[g] = conn[g]
    BY <1>3, Going, GettingBytes DEF Receive, Places
  <2> QED BY <1>0, <2>1, <2>3, <2>4
<1>4. ASSUME NEW f \in Files, PutFailed(f) PROVE All'
  <2>1. UNCHANGED <<queue, done, target>>
    BY <1>4 DEF PutFailed, memory
  <2>2. ~Opened(f)' /\ \A g \in Files \ {f} : conn'[g] = conn[g]
    BY <1>4, Ending DEF PutFailed, Idle
  <2>3. temp' = temp \/ (temp' = [temp EXCEPT ![f] = NoTemp] /\ Useless(f))
    BY <1>4 DEF PutFailed
  <2>4. \A g \in Files \ {f} : temp'[g] = temp[g]
    BY <2>3, TempGone
  <2>5. temp'[f] = temp[f] \/ f \notin queue \/ done[f] = {}
    BY <2>3 DEF Useless
  <2> QED BY <1>0, <2>1, <2>2, <2>4, <2>5
<1>5. ASSUME NEW f \in Files, Record(f) PROVE All'
  <2>1. UNCHANGED <<queue, temp, target>> /\ f \in queue /\ Opened(f)
    BY <1>5 DEF Record, disk, At
  <2>2. \A g \in Files \ {f} : done'[g] = done[g] /\ conn'[g] = conn[g]
    BY <1>5, Going, Ending DEF Record, Places
  <2>3. ~Opened(f)'
    BY <1>5, Going, Ending DEF Record, Places, Idle
  <2> QED BY <1>0, <2>1, <2>2, <2>3
<1>6. ASSUME NEW f \in Files, FinishItem(f) \/ Fail(f) PROVE All'
  <2>1. UNCHANGED <<queue, done, temp, target>>
    BY <1>6 DEF FinishItem, Fail, memory, disk
  <2>2. ~Opened(f)' /\ \A g \in Files \ {f} : conn'[g] = conn[g]
    BY <1>6, Going DEF FinishItem, Fail, Places
  <2> QED BY <1>0, <2>1, <2>2
<1>7. ASSUME NEW f \in Files, Move(f) PROVE All'
  <2>1. UNCHANGED <<queue, done>>
    BY <1>7 DEF Move, memory
  <2>2. ~Opened(f)' /\ \A g \in Files \ {f} : conn'[g] = conn[g]
    BY <1>7, Going, Ending DEF Move, Places, Idle
  <2>3. CASE UNCHANGED disk
    BY <1>0, <2>1, <2>2, <2>3 DEF disk
  <2>4. CASE /\ target' = [target EXCEPT ![f] = IF temp[f].good = Leaves(f) THEN "good" ELSE "bad"]
             /\ temp' = [temp EXCEPT ![f] = NoTemp]
    <3>1. \A g \in Files \ {f} : temp'[g] = temp[g]
      BY <2>4, TempGone
    <3>2. target'[f] # "none" /\ \A g \in Files \ {f} : target'[g] = target[g]
      BY <2>4
    <3> QED BY <1>0, <2>1, <2>2, <3>1, <3>2
  <2> QED BY <1>7, <2>3, <2>4 DEF Move
<1>8. ASSUME NEW f \in Files, RemoveFile(f) PROVE All'
  <2>1. UNCHANGED <<done, conn, target>> /\ queue' = queue \ {f}
    BY <1>8 DEF RemoveFile, Dequeued
  <2>2. temp' = temp \/ temp' = [temp EXCEPT ![f] = NoTemp]
    BY <1>8 DEF RemoveFile
  <2>3. \A g \in Files \ {f} : temp'[g] = temp[g]
    BY <2>2, TempGone
  <2> QED BY <1>0, <2>1, <2>3
<1>9. ASSUME NEW f \in Files, LoseTemp(f) PROVE FALSE
  BY <1>0, <1>9 DEF LoseTemp, Spend
<1>10. CASE RemoveItem \/ NoteChange \/ RemoveBundle \/ ToggleAuto \/ Stop \/ SaveAtEnd
  <2>1. UNCHANGED <<done, conn, temp, target>> /\ queue' \subseteq queue
    BY <1>10
    DEF RemoveItem, NoteChange, RemoveBundle, ToggleAuto, Stop, SaveAtEnd, Dequeued, memory,
        threads, disk
  <2> QED BY <1>0, <2>1
<1>11. CASE DeleteTemps
  <2>1. UNCHANGED <<queue, done, conn, target>>
    BY <1>11 DEF DeleteTemps, memory
  <2>2. \A g \in Files : g \notin user.files => temp'[g] = temp[g]
    BY <1>11 DEF DeleteTemps
  <2>3. \A g \in queue : g \notin user.files
    BY <1>11 DEF DeleteTemps, TypeInv
  <2> QED BY <1>0, <2>1, <2>2, <2>3
<1> QED
  BY <1>1, <1>2, <1>3, <1>4, <1>5, <1>6, <1>7, <1>8, <1>9, <1>10, <1>11
  DEF Others, Connection, User

LEMMA OthersLossless ==
    ASSUME TypeInv, FinishInv, LosslessInv, Others
    PROVE  LosslessInv'
<1>1. /\ Restarts \in Nat /\ Restarts' \in Nat /\ Restarts' <= Restarts
      /\ limits.lose = 0 => limits'.lose = 0
      /\ limits.remove = 0 => limits'.remove = 0
  BY Remaining, NextSteps
<1>2. ASSUME Restarts >= 2
      PROVE  /\ user'.at \in {"idle", "changed"} /\ queue' = bundle'.files
             /\ \A f \in Files : ~At(f, "idle")' => f \in queue'
  <2>1. /\ limits.remove = 0 /\ user.at \in {"idle", "changed"} /\ queue = bundle.files
        /\ \A f \in Files : ~At(f, "idle") => f \in queue
    BY <1>2 DEF LosslessInv
  <2> USE Fields DEF At
  <2>2. ASSUME NEW f \in Files, Connection(f) \/ Fail(f)
        PROVE  /\ UNCHANGED <<user, queue, bundle.files>>
               /\ \A g \in Files \ {f} : conn'[g] = conn[g]
               /\ f \in queue
    <3>1. UNCHANGED <<user, queue, bundle.files>>
      BY <2>2
      DEF Connection, Assign, Open, Receive, PutFailed, Record, FinishItem, Move, Fail, memory,
          Dirty
    <3>2. ~At(f, "idle") \/ Assign(f)
      BY <2>2 DEF Connection, Open, Receive, PutFailed, Record, FinishItem, Move, Fail
    <3>3. f \in queue
      BY <2>1, <3>2, Assigning
    <3>4. \A g \in Files \ {f} : conn'[g] = conn[g]
      BY <2>2, Assigning, Going, Ending, GettingBytes
      DEF Connection, Open, Receive, PutFailed, Record, FinishItem, Move, Fail, Places
    <3> QED BY <3>1, <3>3, <3>4
  <2>3. ASSUME NEW f \in Files, RemoveFile(f) PROVE FALSE
    BY <2>1, <2>3 DEF RemoveFile, Spend
  <2>4. ASSUME NEW f \in Files, LoseTemp(f) PROVE UNCHANGED <<user, queue, bundle, conn>>
    BY <2>4 DEF LoseTemp, memory, threads
  <2>5. CASE User \/ RemoveBundle
    <3>1. NoteChange
      BY <2>1, <2>5 DEF User, RemoveItem, DeleteTemps, RemoveBundle, Spend
    <3> QED BY <2>1, <3>1 DEF NoteChange, Dirty, Resting
  <2>6. CASE ToggleAuto
    BY <2>1, <2>6 DEF ToggleAuto, Acts
  <2>7. CASE Stop \/ SaveAtEnd
    BY <2>1, <2>7 DEF Stop, SaveAtEnd, memory, threads
  <2> QED BY <2>1, <2>2, <2>3, <2>4, <2>5, <2>6, <2>7 DEF Others
<1>3. Restarts' >= 1 => limits'.lose = 0 /\ \A f \in queue' : Complete(f)'
  BY <1>1, OthersComplete DEF LosslessInv
<1>4. Restarts' >= 2 => limits'.remove = 0
  BY <1>1 DEF LosslessInv
<1> QED BY <1>1, <1>2, <1>3, <1>4 DEF LosslessInv

LEMMA SavesDisk ==
    ASSUME TypeInv, DiskInv, NEW s \in Savers, Save(s)
    PROVE  LosslessInv' /\ GoodInv' /\ SafeInv'
<1>1. /\ UNCHANGED <<limits, up, queue, done, conn, user, temp, target, bundle.files>>
      /\ Restarts' = Restarts
  BY SavingChanges DEF Restarts
<1>2. LosslessInv'
  BY <1>1 DEF DiskInv, LosslessInv, Complete, There, Opened, InPlace, At
<1>3. GoodInv'
  BY <1>1 DEF DiskInv, GoodInv, OnDisk, At
<1>4. ASSUME NEW c, Safe(c) PROVE Safe(c)'
  BY <1>1, <1>4 DEF Safe, OnDisk, There, InPlace
<1>5. Safe(Nothing)
  BY NothingTyped DEF Safe
<1>6. Safe(Content)
  <2>1. /\ Content.files = bundle.files /\ bundle.files \subseteq Files
        /\ \A f \in bundle.files : Content.done[f] = done[f]
    BY ContentTyped, Fields DEF TypeInv
  <2>2. Restarts >= 1 => \A f \in bundle.files : OnDisk(f, done[f])
    BY DEF DiskInv, GoodInv
  <2>3. Restarts >= 2 => \A f \in bundle.files : There(f, done[f])
    <3>1. Restarts \in Nat
      BY DEF Restarts, TypeInv, TypeOK, Limits
    <3>2. Restarts >= 2 => queue = bundle.files
      BY DEF DiskInv, LosslessInv
    <3>3. Restarts >= 2 => \A f \in queue : Complete(f)
      <4>1. Restarts >= 2 => Restarts >= 1
        BY <3>1
      <4>2. Restarts >= 1 => \A f \in queue : Complete(f)
        BY DEF DiskInv, LosslessInv
      <4> QED BY <4>1, <4>2
    <3> QED BY <3>2, <3>3 DEF Complete
  <2> QED BY <2>1, <2>2, <2>3 DEF Safe
<1>7. xml' \in {xml, Nothing, tmp.content} /\ (xml' = tmp.content /\ xml' # xml => Holds(s))
  BY DEF Save, BeginSave, WriteTmp, DeleteOld, RenameTmp, ClearDirty, saving, Holds
<1>8. ASSUME NEW r \in Savers, Holds(r)'
      PROVE  tmp'.content \in {Nothing, Content} \/ (Holds(r) /\ tmp' = tmp)
                                                \/ (Holds(s) /\ tmp' = tmp)
  <2>1. WriteTmp(s) => tmp'.content = Content
    BY DEF WriteTmp
  <2>2. RenameTmp(s) => tmp'.content = Nothing \/ (tmp' = tmp /\ saver[s] = "deleted")
    BY DEF RenameTmp, saving
  <2>3. CASE r # s
    <3>1. saver'[r] = saver[r]
      BY <2>3, Fields DEF Save, BeginSave, WriteTmp, DeleteOld, RenameTmp, ClearDirty, Saves
    <3> QED BY <1>8, <2>1, <2>2, <3>1
        DEF Save, BeginSave, DeleteOld, ClearDirty, saving, Holds
  <2>4. CASE r = s
    <3>1. BeginSave(s) \/ ClearDirty(s) => ~Holds(s)'
      BY Moving DEF BeginSave, ClearDirty, Ready, Holds
    <3> QED BY <1>8, <2>1, <2>2, <2>4, <3>1 DEF Save, DeleteOld, Holds
  <2> QED BY <2>3, <2>4
<1>9. SafeInv'
  <2>1. Safe(xml)'
    BY <1>4, <1>5, <1>7 DEF DiskInv, SafeInv
  <2>2. ASSUME NEW r \in Savers, Holds(r)' PROVE Safe(tmp.content)'
    BY <1>4, <1>5, <1>6, <1>8, <2>2 DEF DiskInv, SafeInv
  <2> QED BY <2>1, <2>2 DEF SafeInv
<1> QED BY <1>2, <1>3, <1>9
LEMMA DiskStep == TypeInv /\ DownInv /\ DiskInv /\ [Next]_vars => DiskInv'
<1> SUFFICES ASSUME TypeInv, DownInv, DiskInv, [Next]_vars PROVE DiskInv'
  OBVIOUS
<1>0. FinishInv'
  BY FinishStep DEF DiskInv
<1>1. CASE UNCHANGED vars
  <2>1. UNCHANGED <<limits, up, bundle, queue, done, conn, user, saver, xml, tmp, temp, target>>
    BY <1>1 DEF vars, memory, threads, saving, disk
  <2>2. Restarts' = Restarts /\ \A c : Safe(c)' <=> Safe(c)
    BY <2>1 DEF Restarts, Safe, OnDisk, There, InPlace
  <2>3. LosslessInv'
    BY <2>1, <2>2 DEF DiskInv, LosslessInv, Complete, There, Opened, InPlace, At
  <2>4. GoodInv'
    BY <2>1 DEF DiskInv, GoodInv, OnDisk, At
  <2> QED BY <1>0, <2>1, <2>2, <2>3, <2>4 DEF DiskInv, SafeInv, Holds
<1>2. CASE Others
  <2>1. LosslessInv' /\ GoodInv'
    BY <1>2, OthersLossless, OthersGood DEF DiskInv
  <2>2. \A c \in Contents : Safe(c) => Safe(c)'
    BY <1>2, OthersSafe DEF DiskInv
  <2>3. /\ UNCHANGED <<tmp, saver>> /\ (xml' = xml \/ xml' = Nothing)
        /\ xml \in Contents /\ tmp.content \in Contents
    BY <1>2, OthersChange DEF Kept, TypeInv, TypeOK
  <2>4. Safe(Nothing)'
    BY NothingTyped DEF Safe
  <2>5. SafeInv'
    BY <2>2, <2>3, <2>4 DEF DiskInv, SafeInv, Holds
  <2> QED BY <1>0, <2>1, <2>5 DEF DiskInv
<1>3. ASSUME NEW s \in Savers, Save(s) PROVE DiskInv'
  BY <1>0, <1>3, SavesDisk DEF DiskInv
<1>4. CASE End \/ Crash
  <2>1. /\ bundle'.files = {} /\ queue' = {} /\ user'.at = "idle" /\ UNCHANGED <<xml, temp, target>>
        /\ \A f \in Files : conn'[f].at = "idle"
        /\ \A s \in Savers : saver'[s] = "idle"
    BY <1>4 DEF End, Crash, Vanish, saving, disk, Idle, Resting
  <2>2. /\ Restarts \in Nat /\ Restarts' \in Nat /\ Restarts' <= Restarts /\ Restarts >= 1
        /\ limits.lose = 0 => limits'.lose = 0
        /\ limits.remove = 0 => limits'.remove = 0
    <3>1. Restarts >= 1
      BY <1>4 DEF End, Crash, Spend, Restarts, TypeInv, TypeOK, Limits
    <3> QED BY <3>1, Remaining
  <2>3. LosslessInv'
    BY <2>1, <2>2 DEF DiskInv, LosslessInv, At
  <2>4. GoodInv'
    BY <2>1 DEF DiskInv, GoodInv
  <2>5. SafeInv'
    BY <2>1, <2>2 DEF DiskInv, SafeInv, Safe, OnDisk, There, InPlace, Holds
  <2> QED BY <1>0, <2>3, <2>4, <2>5 DEF DiskInv
<1>5. CASE Start
  <2>1. /\ bundle'.files = {f \in Files : Loads(f)} /\ queue' = bundle'.files
        /\ \A f \in bundle'.files : f \in xml.files /\ done'[f] = xml.done[f]
        /\ bundle'.files = {} => xml' = Nothing
        /\ bundle'.files # {} => xml' = xml
        /\ up # "running" /\ up' = "running"
        /\ UNCHANGED <<limits, conn, user, saver, tmp, temp, target>>
    BY <1>5, Starting
  <2>2. /\ user.at = "idle"
        /\ \A f \in Files : conn[f].at = "idle"
        /\ \A s \in Savers : saver[s] = "idle"
    BY <1>5, Starting DEF DownInv, Down, At
  <2>3. Restarts \in Nat /\ Restarts' = Restarts - 1 /\ Restarts >= 1
    BY <2>1 DEF Restarts, TypeInv, TypeOK, Limits
  <2>4. \A f \in bundle'.files : OnDisk(f, done[f])'
    BY <2>1, <2>3 DEF DiskInv, SafeInv, Safe, OnDisk
  <2>5. Restarts >= 2 => \A f \in bundle'.files : There(f, done[f])'
    BY <2>1, <2>3 DEF DiskInv, SafeInv, Safe, There, InPlace
  <2>6. GoodInv'
    BY <2>1, <2>2, <2>4 DEF DiskInv, GoodInv, At
  <2>7. LosslessInv'
    <3>1. Restarts' >= 1 => limits'.lose = 0 /\ \A f \in queue' : Complete(f)'
      BY <2>1, <2>2, <2>3, <2>5 DEF DiskInv, LosslessInv, Complete, Opened
    <3>2. Restarts' >= 2 => limits'.remove = 0
      BY <2>1, <2>3 DEF DiskInv, LosslessInv
    <3> QED BY <2>1, <2>2, <3>1, <3>2 DEF LosslessInv, At
  <2>8. SafeInv'
    <3>1. Safe(xml)'
      <4>1. CASE bundle'.files = {}
        BY <2>1, <4>1, NothingTyped DEF Safe
      <4>2. CASE bundle'.files # {}
        BY <2>1, <2>3, <4>2 DEF DiskInv, SafeInv, Safe, OnDisk, There, InPlace
      <4> QED BY <4>1, <4>2
    <3> QED BY <2>1, <2>2, <3>1 DEF SafeInv, Holds
  <2> QED BY <1>0, <2>6, <2>7, <2>8 DEF DiskInv
<1> QED BY <1>1, <1>2, <1>3, <1>4, <1>5, NextSteps

\* What counts as finished is on the disk as long as there is a temporary file, and no file
\* comes to its place with parts missing, through any number of restarts, as long as no
\* temporary file is lost that a restart counts on.
THEOREM OnDiskWhatIsFinished ==
    ASSUME \A l \in Setups : KeepsTemps(l)
    PROVE  Spec => []FinishedIsOnDisk
<1>1. Init => DiskInv
  BY DiskInit, FinishInit DEF DiskInv
<1>2. TypeInv /\ DiskInv => FinishedIsOnDisk
  BY Fields DEF DiskInv, GoodInv, FinishedIsOnDisk, OnDisk
<1> QED BY <1>1, <1>2, TypeInit, TypeStep, DownInit, DownStep, DiskStep, PTL DEF Spec
-----------------------------------------------------------------------------
(* What a restart brings back *)

\* An end in order: the user and the connections have come to rest, the main thread saves
\* what is left to save, and of a bundle that is not in the queue any more nothing is kept.
EndInv ==
    /\ up \in {"closing", "saving"} => user.at = "idle"
    /\ up = "saving" => ConnectionsEnded
    /\ ~Down /\ ~bundle.listed => bundle.files = {} /\ xml = Nothing /\ ~Saving
    /\ saver["main"] # "idle" => up = "saving"
    /\ saver["main"] = "done" => ~bundle.listed \/ ~bundle.dirty
    /\ Exposed => xml = Nothing

LEMMA EndInit == Init => EndInv
  BY DEF Init, EndInv, Down, Exposed, Savers

\* The user changes something only while the program runs.
LEMMA UserRuns ==
    ASSUME TypeInv, DownInv, EndInv,
           User \/ RemoveBundle \/ ToggleAuto \/ \E f \in Files : RemoveFile(f)
    PROVE  up = "running"
<1>1. up = "running" \/ user.at # "idle"
  BY DEF User, RemoveItem, NoteChange, DeleteTemps, RemoveBundle, ToggleAuto, RemoveFile
<1>2. up \in {"running", "closing", "saving", "ended", "crashed"}
  BY DEF TypeInv, TypeOK
<1> QED BY <1>1, <1>2 DEF EndInv, DownInv, Down

\* When the queue is saved for the last time, no connection is left to do anything.
LEMMA ConnectionsRun ==
    ASSUME EndInv, NEW f \in Files, Connection(f) \/ Fail(f)
    PROVE  up # "saving"
  BY DEF EndInv, ConnectionsEnded, At,
         Connection, Assign, Open, Receive, PutFailed, Record, FinishItem, Move, Fail

LEMMA OthersEnd ==
    ASSUME TypeInv, DownInv, EndInv, Others
    PROVE  EndInv'
<1> USE Fields DEF memory, threads, saving, disk
<1>1. /\ UNCHANGED <<tmp, saver>>
      /\ xml' = xml \/ (xml' = Nothing /\ bundle'.files = {} /\ ~Saving)
      /\ bundle'.files \subseteq bundle.files
  BY OthersChange DEF Kept
<1>2. /\ Saving' = Saving /\ Exposed' = Exposed
      /\ Exposed' => xml' = Nothing
  BY <1>1 DEF EndInv, Saving, Exposed
<1>3. ASSUME NEW f \in Files, Connection(f) \/ Fail(f) PROVE EndInv'
  <2>1. up # "saving" /\ saver["main"] = "idle"
    BY <1>3, ConnectionsRun DEF EndInv
  <2>2. UNCHANGED <<up, user, xml, bundle.listed, bundle.files>>
    BY <1>3
    DEF Connection, Assign, Open, Receive, PutFailed, Record, FinishItem, Move, Fail, Dirty
  <2> QED BY <1>1, <1>2, <2>1, <2>2 DEF EndInv, Down
<1>4. CASE User \/ ToggleAuto \/ \E f \in Files : RemoveFile(f)
  <2>1. up = "running" /\ saver["main"] = "idle"
    BY <1>4, UserRuns DEF EndInv
  <2>2. UNCHANGED <<up, xml, bundle.listed>>
    BY <1>4 DEF User, RemoveItem, NoteChange, DeleteTemps, ToggleAuto, RemoveFile, Dirty
  <2> QED BY <1>1, <1>2, <2>1, <2>2 DEF EndInv, Down
<1>5. CASE RemoveBundle
  <2>1. up = "running" /\ saver["main"] = "idle"
    BY <1>5, UserRuns DEF EndInv
  <2>2. UNCHANGED up /\ xml' = Nothing /\ bundle'.files = {} /\ ~Saving
    BY <1>5 DEF RemoveBundle, WriteLock
  <2> QED BY <1>1, <1>2, <2>1, <2>2 DEF EndInv, Down
<1>6. ASSUME NEW f \in Files, LoseTemp(f) PROVE EndInv'
  <2>1. UNCHANGED <<up, bundle, conn, user, xml>>
    BY <1>6 DEF LoseTemp
  <2> QED BY <1>1, <1>2, <2>1 DEF EndInv, Down, ConnectionsEnded
<1>7. CASE Stop \/ SaveAtEnd
  <2>1. /\ UNCHANGED <<bundle, conn, user, xml>> /\ saver["main"] = "idle"
        /\ up' \in {"closing", "saving"} /\ ~Down
        /\ up = "running" => up' = "closing" /\ user.at = "idle"
        /\ up' = "saving" => up = "closing" /\ ConnectionsEnded
    BY <1>7 DEF Stop, SaveAtEnd, EndInv, Down
  <2>2. up' \in {"closing", "saving"} => user'.at = "idle"
    BY <1>7, <2>1 DEF Stop, SaveAtEnd, EndInv
  <2>3. up' = "saving" => ConnectionsEnded'
    BY <2>1 DEF ConnectionsEnded
  <2>4. saver'["main"] = "idle"
    BY <1>1, <2>1
  <2> QED BY <1>1, <1>2, <2>1, <2>2, <2>3, <2>4 DEF EndInv
<1> QED BY <1>3, <1>4, <1>5, <1>6, <1>7 DEF Others

LEMMA SaveEnd ==
    ASSUME "overlap" \notin Mishaps, TypeInv, DownInv, KeepInv, EndInv, NEW s \in Savers, Save(s)
    PROVE  EndInv'
<1>1. UNCHANGED <<up, conn, user, bundle.listed, bundle.files>>
  BY SavingChanges
<1>2. \A r \in Savers \ {s} : Busy(s) => ~Busy(r)
  BY DEF KeepInv, Alone
<1>3. Busy(s) => bundle.listed /\ ~Down
  BY DEF Busy, EndInv, DownInv, Saving
<1>4. ConnectionsEnded' = ConnectionsEnded /\ Down' = Down /\ "main" \in Savers
  BY <1>1 DEF ConnectionsEnded, Down, Savers
<1> USE DEF Busy
<1>5. CASE BeginSave(s)
  <2>1. /\ saver[s] = "idle" /\ UNCHANGED <<bundle, xml, tmp>>
        /\ \A r \in Savers \ {s} : saver'[r] = saver[r] /\ saver[r] \in {"idle", "done"}
        /\ saver'[s] \in {"idle", "writing", "done"} /\ (s = "main" => up = "saving")
        /\ up \in {"saving", "running"}
    BY <1>5, Moving DEF BeginSave, Ready, memory, saving
  <2>2. ~OpenTmp(s)
    BY <2>1 DEF OpenTmp
  <2>3. IF bundle.listed /\ bundle.dirty THEN saver'[s] = "writing" ELSE saver'[s] = "done"
    BY <1>5, <2>2, Moving DEF BeginSave
  <2>4. ~Exposed'
    BY <2>1 DEF Exposed
  <2>5. ~Down' /\ ~bundle'.listed => bundle'.files = {} /\ xml' = Nothing /\ ~Saving'
    BY <1>1, <1>4, <2>1, <2>3 DEF EndInv, Saving
  <2>6. /\ saver'["main"] # "idle" => up' = "saving"
        /\ saver'["main"] = "done" => ~bundle'.listed \/ ~bundle'.dirty
    <3>1. CASE s = "main"
      BY <1>1, <2>1, <2>3, <3>1
    <3>2. CASE s # "main"
      <4>1. saver'["main"] = saver["main"]
        BY <1>4, <2>1, <3>2
      <4> QED BY <1>1, <2>1, <4>1 DEF EndInv
    <3> QED BY <3>1, <3>2
  <2> QED BY <1>1, <1>4, <2>4, <2>5, <2>6 DEF EndInv
<1>6. ASSUME Busy(s), NEW where \in {"written", "deleted", "renamed"}, Saves(s, where),
             UNCHANGED bundle, where = "deleted" => xml' = Nothing
      PROVE  EndInv'
  <2>1. saver'[s] = where /\ \A r \in Savers \ {s} : saver'[r] = saver[r] /\ ~Busy(r)
    BY <1>2, <1>6, Moving
  <2>2. Exposed' => xml' = Nothing
    BY <1>6, <2>1 DEF Exposed
  <2>3. /\ saver'["main"] # "idle" => up' = "saving"
        /\ saver'["main"] = "done" => ~bundle'.listed \/ ~bundle'.dirty
    <3>1. CASE s = "main"
      BY <1>1, <1>6, <2>1, <3>1 DEF EndInv
    <3>2. CASE s # "main"
      <4>1. saver'["main"] = saver["main"]
        BY <1>4, <2>1, <3>2
      <4> QED BY <1>1, <1>6, <4>1 DEF EndInv
    <3> QED BY <3>1, <3>2
  <2> QED BY <1>1, <1>3, <1>4, <1>6, <2>2, <2>3 DEF EndInv
<1>7. CASE WriteTmp(s) \/ DeleteOld(s)
  BY <1>6, <1>7 DEF WriteTmp, DeleteOld, memory
<1>8. CASE RenameTmp(s)
  <2>1. tmp.exists /\ ~OpenTmp(s)
    BY <1>2, <1>8 DEF RenameTmp, KeepInv, OpenTmp, Holds
  <2> QED BY <1>6, <1>8, <2>1 DEF RenameTmp, memory
<1>9. CASE ClearDirty(s)
  <2>1. /\ saver[s] = "renamed" /\ saver'[s] = Ready(s) /\ ~bundle'.dirty
        /\ \A r \in Savers \ {s} : saver'[r] = saver[r] /\ ~Busy(r)
    BY <1>2, <1>9, Moving, Fields DEF ClearDirty, Ready
  <2>2. ~Exposed'
    BY <2>1 DEF Exposed, Ready
  <2>3. saver'["main"] # "idle" => up' = "saving"
    BY <1>1, <1>4, <2>1 DEF EndInv, Ready
  <2> QED BY <1>1, <1>3, <1>4, <2>1, <2>2, <2>3 DEF EndInv
<1> QED BY <1>5, <1>7, <1>8, <1>9 DEF Save

LEMMA EndStep ==
    ASSUME "overlap" \notin Mishaps, TypeInv, DownInv, KeepInv, EndInv, [Next]_vars
    PROVE  EndInv'
<1>1. CASE UNCHANGED vars
  BY <1>1 DEF vars, memory, threads, saving, EndInv, Down, Saving, Exposed, ConnectionsEnded
<1>2. CASE End \/ Crash
  <2>1. up' \in {"ended", "crashed"} /\ \A s \in Savers : saver'[s] = "idle"
    BY <1>2 DEF End, Crash, Vanish
  <2> QED BY <2>1 DEF EndInv, Down, Exposed, Savers
<1>3. CASE Start
  <2>1. /\ \A s \in Savers : saver'[s] = "idle"
        /\ up' = "running" /\ (~bundle'.listed => bundle'.files = {} /\ xml' = Nothing)
    BY <1>3, Starting DEF DownInv, Down, Start
  <2> QED BY <2>1 DEF EndInv, Saving, Exposed, Savers
<1> QED BY <1>1, <1>2, <1>3, OthersEnd, SaveEnd, NextSteps

\* What the bundle, and what is kept of it, is made of.
LEMMA Views ==
    /\ InMemory.files = bundle.files
    /\ \A f \in Files : InMemory.done[f] = (IF f \in bundle.files THEN done[f] ELSE {})
    /\ InMemory.files' = bundle'.files
    /\ ~Exposed => Filed = [files |-> xml.files, done |-> xml.done]
    /\ ~Exposed' => Filed' = [files |-> xml'.files, done |-> xml'.done]
    /\ Exposed => Filed = [files |-> tmp.content.files, done |-> tmp.content.done]
    /\ Exposed' => Filed' = [files |-> tmp'.content.files, done |-> tmp'.content.done]
  BY DEF InMemory, Filed

\* Most steps change nothing of them.
LEMMA Unseen ==
    ASSUME UNCHANGED <<bundle.files, done, xml, reset, target, Exposed, Down>>,
           tmp' = tmp \/ ~Exposed
    PROVE  UNCHANGED Promise!vars
<1>1. InMemory' = InMemory
  BY DEF InMemory
<1>2. Filed' = Filed
  BY DEF Filed
<1>3. (up \notin {"ended", "crashed"})' = (up \notin {"ended", "crashed"})
  BY DEF Down
<1>4. {f \in Files : InPlace(f)}' = {f \in Files : InPlace(f)}
  BY DEF InPlace
<1> QED BY <1>1, <1>2, <1>3, <1>4 DEF Promise!vars

LEMMA DoneChanges ==
    ASSUME TypeInv, NEW f \in bundle.files, NEW segments, UNCHANGED bundle.files,
           done' = [done EXCEPT ![f] = segments]
    PROVE  InMemory' = [InMemory EXCEPT !.done[f] = segments]
<1> DEFINE of(d) == [g \in Files |-> IF g \in bundle.files THEN d[g] ELSE {}]
<1>1. of(done') = [of(done) EXCEPT ![f] = segments]
  BY Fields
<1>2. InMemory = [files |-> bundle.files, done |-> of(done)]
  BY DEF InMemory
<1>3. InMemory' = [files |-> bundle.files, done |-> of(done')]
  BY DEF InMemory
<1> HIDE DEF of
<1> QED BY <1>1, <1>2, <1>3

LEMMA ConnectionPromise ==
    ASSUME TypeInv, DownInv, FinishInv, NEW f \in Files, Connection(f) \/ Fail(f) \/ LoseTemp(f)
    PROVE  [Promise!Next]_Promise!vars
<1> USE Fields DEF memory, threads, saving, disk
<1>1. UNCHANGED <<up, bundle.files, xml, tmp, saver, Exposed, Down>>
  BY DEF Connection, Assign, Open, Receive, PutFailed, Record, FinishItem, Move, Fail, LoseTemp,
         Dirty, Exposed, Down
<1>2. Filed' = Filed
  BY <1>1 DEF Filed
<1>3. ~Saving => ~Exposed
  BY DEF Saving, Exposed
<1>4. CASE Assign(f)
  <2>1. /\ f \in bundle.files /\ done[f] # Leaves(f) /\ ~Exposed /\ ~Down
        /\ UNCHANGED target
    BY <1>3, <1>4, Assigning DEF Assign, WriteLock, Finished, Down
  <2>2. CASE done'[f] = done[f]
    <3>1. done' = done /\ reset' = reset
      BY <1>4, <2>2 DEF Assign
    <3> QED BY <1>1, <2>1, <3>1, Unseen
  <2>3. CASE done'[f] # done[f]
    <3>1. done' = [done EXCEPT ![f] = {}] /\ reset' = reset \cup {f}
      BY <1>4, <2>3 DEF Assign, DoneOnDisk
    <3>2. InMemory' = [InMemory EXCEPT !.done[f] = {}]
      BY <1>1, <2>1, <3>1, DoneChanges
    <3>3. Promise!GiveUp(f)
      BY <1>1, <1>2, <2>1, <3>1, <3>2, Views
      DEF Promise!GiveUp, Promise!Changes, Promise!Complete, Promise!Leaves, Leaves, Down, InPlace
    <3> QED BY <3>3 DEF Promise!Next
  <2> QED BY <2>2, <2>3
<1>5. CASE Record(f)
  <2>1. /\ f \in bundle.files /\ conn[f].leaf \in Leaves(f) /\ ~Exposed /\ ~Down
        /\ done' = [done EXCEPT ![f] = @ \cup {conn[f].leaf}] /\ UNCHANGED <<target, reset>>
    BY <1>3, <1>5 DEF Record, WriteLock, At, DownInv, TypeInv, Working
  <2>2. InMemory' = [InMemory EXCEPT !.done[f] = done[f] \cup {conn[f].leaf}]
    BY <1>1, <2>1, DoneChanges
  <2>3. Promise!Finish(f)
    BY <1>1, <1>2, <2>1, <2>2, Views
    DEF Promise!Finish, Promise!Changes, Promise!Leaves, Leaves, Down, InPlace
  <2> QED BY <2>3 DEF Promise!Next
<1>6. CASE Move(f)
  <2>1. UNCHANGED <<done, reset>> /\ f \in bundle.files /\ done[f] = Leaves(f) /\ ~Down
    BY <1>6 DEF Move, FinishInv, Finishing, Finished, DownInv, At
  <2>2. CASE UNCHANGED target
    BY <1>1, <2>1, <2>2, Unseen
  <2>3. CASE target' # target
    <3>1. target' \in [Files -> {"none", "good", "bad"}] /\ target'[f] # "none"
          /\ \A g \in Files \ {f} : target'[g] = target[g]
      BY <1>6, <2>3 DEF Move
    <3>2. {g \in Files : InPlace(g)}' = {g \in Files : InPlace(g)} \cup {f}
      BY <3>1 DEF InPlace
    <3>3. InMemory' = InMemory
      BY <1>1, <2>1 DEF InMemory
    <3>4. Promise!Place(f)
      BY <1>1, <1>2, <2>1, <3>2, <3>3, Views
      DEF Promise!Place, Promise!Complete, Promise!Leaves, Leaves, Down
    <3> QED BY <3>4 DEF Promise!Next
  <2> QED BY <2>2, <2>3
<1>7. CASE Open(f) \/ Receive(f) \/ PutFailed(f) \/ FinishItem(f) \/ Fail(f) \/ LoseTemp(f)
  <2>1. UNCHANGED <<done, reset, target>>
    BY <1>7 DEF Open, Receive, PutFailed, FinishItem, Fail, LoseTemp
  <2> QED BY <1>1, <2>1, Unseen
<1> QED BY <1>4, <1>5, <1>6, <1>7 DEF Connection

LEMMA UserPromise ==
    ASSUME TypeInv, DownInv, EndInv,
           User \/ RemoveBundle \/ ToggleAuto \/ \E f \in Files : RemoveFile(f)
    PROVE  [Promise!Next]_Promise!vars
<1> USE Fields DEF memory, threads, saving, disk
<1>1. /\ UNCHANGED <<up, done, tmp, saver, reset, target, Exposed, Down>> /\ ~Down
      /\ ~Saving => ~Exposed
  <2>1. UNCHANGED <<up, done, tmp, saver, reset, target>>
    BY DEF User, RemoveItem, NoteChange, DeleteTemps, RemoveBundle, ToggleAuto, RemoveFile
  <2> QED BY <2>1, UserRuns DEF Exposed, Down, Saving
<1>2. CASE RemoveItem
  <2>1. /\ UNCHANGED xml /\ ~Exposed
        /\ bundle'.files \subseteq bundle.files
    BY <1>1, <1>2 DEF RemoveItem, WriteLock
  <2>2. /\ InMemory' = Promise!Of(InMemory, bundle'.files)
    <3>1. \A f \in bundle'.files : InMemory.done[f] = done[f]
      BY <2>1, Views
    <3> QED BY <1>1, <2>1, <3>1 DEF Promise!Of, InMemory
  <2>3. Filed' = Filed
    BY <1>1, <2>1 DEF Filed
  <2>4. Promise!Remove
    BY <1>1, <2>1, <2>2, <2>3, Views DEF Promise!Remove, Promise!Changes, Down, InPlace
  <2> QED BY <2>4 DEF Promise!Next
<1>3. CASE RemoveBundle
  <2>1. bundle'.files = {} /\ xml' = Nothing /\ ~Exposed
    BY <1>1, <1>3 DEF RemoveBundle, WriteLock
  <2>2. InMemory' = Promise!Empty
    BY <2>1 DEF InMemory, Promise!Empty, Promise!NothingDone
  <2>3. Filed' = Promise!Empty
    BY <1>1, <2>1, Views DEF Nothing, Promise!Empty, Promise!NothingDone
  <2>4. Promise!Drop
    BY <1>1, <2>1, <2>2, <2>3 DEF Promise!Drop, Promise!Changes, Down, InPlace
  <2> QED BY <2>4 DEF Promise!Next
<1>4. CASE NoteChange \/ DeleteTemps \/ ToggleAuto \/ \E f \in Files : RemoveFile(f)
  <2>1. UNCHANGED <<bundle.files, xml>>
    BY <1>4 DEF NoteChange, DeleteTemps, ToggleAuto, RemoveFile, Dirty
  <2> QED BY <1>1, <2>1, Unseen
<1> QED BY <1>2, <1>3, <1>4 DEF User

\* A save keeps the bundle when the old file is deleted, for then the new one is complete.
LEMMA SavePromise ==
    ASSUME "overlap" \notin Mishaps, TypeInv, DownInv, KeepInv, SyncInv, EndInv,
           NEW s \in Savers, Save(s)
    PROVE  [Promise!Next]_Promise!vars
<1>1. UNCHANGED <<up, done, target, bundle.files, Down, InMemory>>
  BY SavingChanges DEF Down, InMemory
<1>2. Busy(s) => (\A r \in Savers \ {s} : ~Busy(r)) /\ ~Down
  BY DEF KeepInv, Alone, DownInv, Busy
<1>3. UNCHANGED {f \in Files : InPlace(f)}
  BY <1>1 DEF InPlace
<1> USE DEF Busy
<1>4. CASE BeginSave(s)
  <2>1. /\ UNCHANGED <<xml, tmp, reset>>
        /\ \A r \in Savers \ {s} : saver'[r] = saver[r]
        /\ saver[s] = "idle" /\ saver'[s] # "deleted"
    BY <1>4, Moving DEF BeginSave, Ready, saving
  <2>2. Exposed' = Exposed
    BY <2>1 DEF Exposed
  <2> QED BY <1>1, <2>1, <2>2, Unseen
<1>5. CASE WriteTmp(s)
  <2>1. /\ UNCHANGED <<xml, reset>> /\ saver[s] = "writing" /\ saver'[s] = "written"
        /\ \A r \in Savers \ {s} : saver'[r] = saver[r]
    BY <1>5, Moving DEF WriteTmp
  <2>2. ~Exposed /\ Exposed' = Exposed
    BY <1>2, <2>1 DEF Exposed
  <2> QED BY <1>1, <2>1, <2>2, Unseen
<1>6. CASE DeleteOld(s)
  <2>1. /\ UNCHANGED <<tmp, reset>> /\ saver[s] = "written" /\ saver'[s] = "deleted"
    BY <1>6, Moving DEF DeleteOld
  <2>2. ~Exposed /\ Exposed' /\ ~Down
    BY <1>2, <2>1 DEF Exposed
  <2>3. tmp.content.files = bundle.files /\ tmp.content.done = Content.done
    BY <2>1 DEF SyncInv, Holds, Says
  <2>4. Filed' = InMemory
    BY <2>1, <2>2, <2>3, Views DEF InMemory, Content
  <2>5. Promise!Keep
    BY <1>1, <1>3, <2>1, <2>2, <2>4 DEF Promise!Keep, Promise!Changes, Down
  <2> QED BY <2>5 DEF Promise!Next
<1>7. CASE RenameTmp(s)
  <2>1. saver[s] = "deleted" /\ tmp.exists /\ ~OpenTmp(s)
    BY <1>2, <1>7 DEF RenameTmp, KeepInv, OpenTmp, Holds
  <2>2. /\ xml' = tmp.content /\ reset' = {} /\ saver'[s] = "renamed"
        /\ \A r \in Savers \ {s} : saver'[r] = saver[r]
    BY <1>7, <2>1, Moving DEF RenameTmp
  <2>3. Exposed /\ ~Exposed'
    BY <1>2, <2>1, <2>2 DEF Exposed
  <2>4. Filed' = Filed
    BY <2>2, <2>3, Views
  <2>5. Promise!Replace
    BY <1>1, <1>3, <2>2, <2>3, <2>4 DEF Promise!Replace
  <2> QED BY <2>5 DEF Promise!Next
<1>8. CASE ClearDirty(s)
  <2>1. /\ UNCHANGED <<xml, tmp, reset>> /\ saver[s] = "renamed" /\ saver'[s] \in {"done", "idle"}
        /\ \A r \in Savers \ {s} : saver'[r] = saver[r]
    BY <1>8, Moving DEF ClearDirty, Ready, saving
  <2>2. Exposed' = Exposed
    BY <2>1 DEF Exposed
  <2> QED BY <1>1, <2>1, <2>2, Unseen
<1> QED BY <1>4, <1>5, <1>6, <1>7, <1>8 DEF Save

\* After the last save, the file holds the bundle.
LEMMA NothingLostAtEnd ==
    ASSUME TypeInv, FinishInv, SyncInv, EndInv, End
    PROVE  ~Exposed /\ Promise!NothingLost
<1>1. /\ ~Down /\ ~Saving /\ ~Exposed /\ user.at = "idle"
      /\ ~bundle.listed \/ ~bundle.dirty
  <2>1. \A s \in Savers : saver[s] \in {"idle", "done"}
    BY DEF End, Savers
  <2> QED BY <2>1 DEF End, EndInv, Down, Saving, Exposed
<1>2. /\ Filed.files = xml.files /\ Filed.done = xml.done
      /\ \A f \in Files : Promise!Fits(Filed, f) <=> Loads(f)
  BY <1>1, Views DEF Promise!Fits, Promise!Complete, Promise!Leaves, Leaves, Loads
<1>3. \A f \in Files : Promise!Fits(InMemory, f) <=>
                         f \in bundle.files /\ (Finished(f) <=> InPlace(f))
  BY Views DEF Promise!Fits, Promise!Complete, Promise!Leaves, Leaves, Finished
<1>4. CASE ~bundle.listed
  <2>1. bundle.files = {} /\ xml.files = {}
    BY <1>1, <1>4 DEF EndInv, Nothing
  <2> QED BY <1>1, <1>2, <1>3, <2>1 DEF Promise!NothingLost, Promise!ComesBack, Loads
<1>5. CASE ~bundle.dirty
  <2>1. InSync
    BY <1>1, <1>5 DEF SyncInv, Settled
  <2>2. ASSUME NEW f \in Files
        PROVE  Loads(f) <=> f \in bundle.files /\ (Finished(f) <=> InPlace(f))
    BY <2>1 DEF InSync, FinishInv, Loads, Finished
  <2>3. ASSUME NEW f \in Files, Loads(f), f \notin reset
        PROVE  Filed.done[f] = InMemory.done[f]
    BY <1>2, <2>1, <2>2, <2>3, Views DEF InSync
  <2> QED BY <1>1, <1>2, <1>3, <2>2, <2>3 DEF Promise!NothingLost, Promise!ComesBack
<1> QED BY <1>1, <1>4, <1>5

LEMMA RestartPromise ==
    ASSUME TypeInv, DownInv, FinishInv, SyncInv, EndInv, End \/ Crash \/ Start
    PROVE  [Promise!Next]_Promise!vars
<1>1. UNCHANGED <<tmp, reset, target>> /\ UNCHANGED {f \in Files : InPlace(f)}
  BY DEF End, Crash, Start, Vanish, saving, disk, InPlace
<1>2. CASE End \/ Crash
  <2>1. /\ bundle'.files = {} /\ xml' = xml /\ ~Down /\ Down'
        /\ \A s \in Savers : saver'[s] = "idle"
    BY <1>2 DEF End, Crash, Vanish, saving, Down
  <2>2. ~Exposed' /\ InMemory' = Promise!Empty
    BY <2>1 DEF Exposed, InMemory, Promise!Empty, Promise!NothingDone
  <2>3. Filed' = IF Exposed THEN Promise!Empty ELSE Filed
    BY <2>1, <2>2, Views DEF EndInv, Nothing, Promise!Empty, Promise!NothingDone
  <2>4. CASE End
    <3>1. ~Exposed /\ Promise!NothingLost
      BY <2>4, NothingLostAtEnd
    <3>2. Exposed' = Exposed
      BY <2>1, <3>1 DEF Exposed
    <3>3. Promise!End
      BY <1>1, <2>1, <2>2, <2>3, <3>1, <3>2 DEF Promise!End, Promise!Changes, Down
    <3> QED BY <3>3 DEF Promise!Next
  <2>5. CASE Crash
    <3>1. Promise!Crash
      BY <1>1, <2>1, <2>2, <2>3 DEF Promise!Crash, Down
    <3> QED BY <3>1 DEF Promise!Next
  <2> QED BY <1>2, <2>4, <2>5
<1>3. CASE Start
  <2>1. /\ \A s \in Savers : saver[s] = "idle" /\ saver'[s] = "idle"
        /\ Down /\ ~Down'
    BY <1>3, Starting DEF DownInv, Down
  <2>2. ~Exposed /\ ~Exposed' /\ Exposed' = Exposed
    BY <2>1 DEF Exposed
  <2>3. /\ Filed = [files |-> xml.files, done |-> xml.done]
        /\ Filed' = [files |-> xml'.files, done |-> xml'.done]
    BY <2>2, Views
  <2>4. Promise!ComesBack = {f \in Files : Loads(f)}
    BY <2>3 DEF Promise!ComesBack, Promise!Fits, Promise!Complete, Promise!Leaves, Leaves, Loads
  <2>5. /\ bundle'.files = Promise!ComesBack
        /\ done' = [f \in Files |-> IF f \in Promise!ComesBack THEN xml.done[f] ELSE {}]
        /\ xml' = IF Promise!ComesBack = {} THEN Nothing ELSE xml
    BY <1>3, <2>4 DEF Start
  <2>6. InMemory' = Promise!Of(Filed, Promise!ComesBack)
    BY <2>3, <2>5 DEF InMemory, Promise!Of
  <2>7. Filed' = IF Promise!ComesBack = {} THEN Promise!Empty ELSE Filed
    BY <2>3, <2>5 DEF Nothing, Promise!Empty, Promise!NothingDone
  <2>8. Promise!Start
    BY <1>1, <2>1, <2>2, <2>6, <2>7 DEF Promise!Start, Down
  <2> QED BY <2>8 DEF Promise!Next
<1> QED BY <1>2, <1>3

LEMMA PromiseStep ==
    ASSUME "overlap" \notin Mishaps,
           TypeInv, DownInv, FinishInv, KeepInv, SyncInv, EndInv, [Next]_vars
    PROVE  [Promise!Next]_Promise!vars
<1>1. CASE UNCHANGED vars
  <2>1. UNCHANGED <<up, bundle, done, xml, tmp, saver, reset, target>>
    BY <1>1 DEF vars, memory, threads, saving, disk
  <2> QED BY <2>1, Unseen DEF Exposed, Down
<1>2. CASE Stop \/ SaveAtEnd
  <2>1. UNCHANGED <<bundle, done, xml, tmp, saver, reset, target>> /\ Down' = Down
    BY <1>2 DEF Stop, SaveAtEnd, memory, threads, saving, disk, Down
  <2> QED BY <2>1, Unseen DEF Exposed
<1> QED
  BY <1>1, <1>2, ConnectionPromise, UserPromise, SavePromise, RestartPromise, NextSteps DEF Others

\* When no two threads save the bundle at once, a restart brings back the bundle as it was
\* at one moment, after any number of restarts and crashes: an end in order loses nothing
\* that a program can take over, and a crash goes back to the last save.
THEOREM ImplementsSavedBundle ==
    ASSUME "overlap" \notin Mishaps
    PROVE  Spec => PromiseSpec
<1>1. Init => Promise!Init
  <2> SUFFICES ASSUME Init PROVE Promise!Init
    OBVIOUS
  <2>1. ~Exposed /\ {f \in Files : InPlace(f)} = {}
    BY DEF Init, Exposed, InPlace
  <2>2. InMemory = [files |-> Files, done |-> [f \in Files |-> {}]]
    BY DEF Init, InMemory
  <2>3. Filed = [files |-> {}, done |-> [f \in Files |-> {}]]
    BY <2>1, Views DEF Init, Nothing
  <2> QED BY <2>1, <2>2, <2>3 DEF Init, Promise!Init, Promise!Empty, Promise!NothingDone
<1>2. TypeInv /\ DownInv /\ KeepInv /\ [Next]_vars => KeepInv'
  BY KeepStep
<1>3. TypeInv /\ DownInv /\ FinishInv /\ KeepInv /\ SyncInv /\ [Next]_vars => SyncInv'
  BY SyncStep
<1>4. TypeInv /\ DownInv /\ KeepInv /\ EndInv /\ [Next]_vars => EndInv'
  BY EndStep
<1>5. TypeInv /\ DownInv /\ FinishInv /\ KeepInv /\ SyncInv /\ EndInv /\ [Next]_vars
        => [Promise!Next]_Promise!vars
  BY PromiseStep
<1> QED
  BY <1>1, <1>2, <1>3, <1>4, <1>5, TypeInit, TypeStep, DownInit, DownStep, FinishInit, FinishStep,
     KeepInit, SyncInit, EndInit, PTL
  DEF Spec, PromiseSpec, Promise!Spec
=============================================================================
