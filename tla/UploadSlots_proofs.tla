------------------------- MODULE UploadSlots_proofs -------------------------
(***************************************************************************)
(* What module UploadSlots keeps to for any number of users, connections   *)
(* and files, any setup and any failures. The counters are bytes: what     *)
(* they count is stated for no more connections than a byte can count.     *)
(***************************************************************************)
EXTENDS UploadSlots, FiniteSetTheorems, SequenceTheorems, TLAPS

Places == {"none", "get", "deny", "create", "drop", "add", "room", "dequeue", "send", "leave"}
SlotKinds == {"none", "standard", "granted", "fileslot", "mini", "small"}
Connection == [at : Places, slot : SlotKinds, next : SlotKinds, file : Files \cup {"none"},
               reg : 0 .. NotRead, closing : BOOLEAN]

RemoteOK == setup \in Setups /\ wants \in [Users -> SUBSET Files] /\ online \subseteq Users
ConnsOK == conns \in [Conns -> Connection] /\ slotCS \in Conns \cup {"free"}
CountersOK ==
    /\ count \in [{"running", "extra", "small"} -> 0 .. 255]
    /\ multi \in [Users -> Nat] /\ mcnConns \in Nat
QueueOK ==
    /\ queue \in Seq(Users) /\ IsInjective(queue)
    /\ notified \subseteq Users /\ timer \in 0 .. NotRead

TypeInv == RemoteOK /\ ConnsOK /\ CountersOK /\ QueueOK

\* The user slot of a connection is counted.
Counts(c) == conns[c].slot \in UserSlots /\ conns[c].at # "add"

\* Users with several connections that have a slot, and their connections.
Slotted == {u \in Users : Counting(u) # {}}
Multi == {c \in Conns : Mcn(c) /\ Counts(c)}

CountInv ==
    /\ \A u \in Users : multi[u] = IF u \in setup.mcn THEN Cardinality(Counting(u)) ELSE 0
    /\ mcnConns = Cardinality(Multi)
    /\ setup.mcn = Users => count["running"] = Cardinality(Slotted)

-----------------------------------------------------------------------------
(* Facts about the setup and about finite sets.                             *)

\* What a setup says.
LEMMA SetupFacts ==
    ASSUME RemoteOK
    PROVE  /\ Slots \in 0 .. 255 /\ AutoOpened \in 0 .. 255 /\ setup.mcn \subseteq Users
           /\ \A c \in Conns : Owner(c) \in Users
           /\ setup.wants \in [Users -> SUBSET Files]
           /\ setup.perk \in [Users -> {"none", "slot", "fileslot", "operator"}]
BY UploadSlotsAssumption DEF RemoteOK, Slots, AutoOpened, Owner

\* There are finitely many connections.
LEMMA FiniteConns ==
    ASSUME NEW S \in SUBSET Conns
    PROVE  IsFiniteSet(S) /\ Cardinality(S) \in Nat /\ Cardinality(S) <= Cardinality(Conns)
BY UploadSlotsAssumption, FS_Subset, FS_CardinalityType

\* ... and users.
LEMMA FiniteUsers ==
    ASSUME NEW S \in SUBSET Users
    PROVE  IsFiniteSet(S) /\ Cardinality(S) \in Nat
BY UploadSlotsAssumption, FS_Subset, FS_CardinalityType

\* No more users own a connection than there are connections.
LEMMA OwnersBound ==
    ASSUME NEW T \in SUBSET Users, \A u \in T : \E c \in Conns : Owner(c) = u
    PROVE  Cardinality(T) <= Cardinality(Conns)
<1> DEFINE S == {c \in Conns : Owner(c) \in T}
           f == [c \in S |-> Owner(c)]
<1>1. f \in Surjection(S, T)
  BY DEF Surjection
<1>2. IsFiniteSet(S) /\ Cardinality(S) \in Nat /\ Cardinality(S) <= Cardinality(Conns)
  BY FiniteConns
<1>3. Cardinality(Conns) \in Nat /\ Cardinality(T) \in Nat
  BY FiniteConns, FiniteUsers
<1> HIDE DEF f, S
<1>4. Cardinality(T) <= Cardinality(S)
  BY <1>1, <1>2, FS_Surjection
<1> QED BY <1>2, <1>3, <1>4

\* The users with connections that upload are those with a slot, when all users
\* support several connections.
LEMMA UploadingFacts ==
    ASSUME RemoteOK, CountInv, NEW u \in setup.mcn
    PROVE  /\ multi[u] = Cardinality(Counting(u)) /\ multi[u] \in Nat
           /\ Uploading(u) <=> Counting(u) # {}
<1>1. u \in Users
  BY SetupFacts
<1>2. multi[u] = Cardinality(Counting(u))
  BY <1>1 DEF CountInv
<1>3. IsFiniteSet(Counting(u)) /\ Cardinality(Counting(u)) \in Nat
  BY FiniteConns DEF Counting, ConnsOf
<1>4. Cardinality(Counting(u)) = 0 <=> Counting(u) = {}
  BY <1>3, FS_EmptySet
<1> QED BY <1>2, <1>3, <1>4 DEF Uploading
-----------------------------------------------------------------------------
(* Counting.                                                                *)

\* What is counted stays, and so do the counters.
LEMMA CountKept ==
    ASSUME CountInv, setup' = setup, multi' = multi, mcnConns' = mcnConns,
           setup.mcn = Users => count'["running"] = count["running"],
           \A d \in Conns : Mcn(d) => (Counts(d)' <=> Counts(d))
    PROVE  CountInv'
<1>1. ASSUME NEW u \in setup.mcn PROVE Counting(u)' = Counting(u)
  BY <1>1 DEF Counting, ConnsOf, Counts, Mcn, Owner, UserSlots
<1>2. Multi' = Multi
  BY DEF Multi, Mcn, Owner
<1>3. setup.mcn = Users => Slotted' = Slotted
  BY <1>1 DEF Slotted
<1>4. ASSUME NEW u \in Users
      PROVE  multi'[u] = IF u \in setup'.mcn THEN Cardinality(Counting(u)') ELSE 0
  BY <1>1 DEF CountInv
<1> QED BY <1>2, <1>3, <1>4 DEF CountInv

\* A connection of a user with several of them gets a user slot.
LEMMA CountAdded ==
    ASSUME RemoteOK, CountersOK, CountInv, Cardinality(Conns) <= 255, setup' = setup,
           NEW c \in Conns, Mcn(c), ~Counts(c), Counts(c)',
           \A d \in Conns \ {c} : Counts(d)' <=> Counts(d), AddMultiConn(Owner(c))
    PROVE  /\ CountInv' /\ CountersOK'
           /\ count'["running"] <= count["running"] + 1
<1>0. PICK u \in Users : u = Owner(c)
  BY SetupFacts
<1>1. u \in setup.mcn
  BY <1>0 DEF Mcn
<1>2. Counting(u)' = Counting(u) \cup {c} /\ c \notin Counting(u)
  BY <1>0 DEF Counting, ConnsOf, Counts, Owner, UserSlots
<1>3. \A v \in Users \ {u} : Counting(v)' = Counting(v)
  BY <1>0 DEF Counting, ConnsOf, Counts, Owner, UserSlots
<1>4. Multi' = Multi \cup {c} /\ c \notin Multi
  BY DEF Multi, Mcn, Owner
<1>5. Slotted' = Slotted \cup {u} /\ (u \in Slotted <=> Uploading(u))
  <2>1. u \in Slotted <=> Uploading(u)
    BY <1>1, UploadingFacts DEF Slotted
  <2>2. Slotted' = Slotted \cup {u}
    BY <1>1, <1>2, <1>3 DEF Slotted
  <2> QED BY <2>1, <2>2
<1>6. /\ multi' = [multi EXCEPT ![u] = @ + 1] /\ mcnConns' = mcnConns + 1
      /\ count' = [count EXCEPT !["running"] =
                     IF Uploading(u) THEN @ ELSE (@ + 1) % 256]
  BY <1>0 DEF AddMultiConn
<1>7. Cardinality(Counting(u)') = Cardinality(Counting(u)) + 1
  BY <1>2, FiniteConns, FS_AddElement DEF Counting, ConnsOf
<1>8. Cardinality(Multi') = Cardinality(Multi) + 1
  BY <1>4, FiniteConns, FS_AddElement DEF Multi
<1>9. ASSUME NEW v \in Users
      PROVE  multi'[v] = IF v \in setup'.mcn THEN Cardinality(Counting(v)') ELSE 0
  <2>1. multi[v] = IF v \in setup.mcn THEN Cardinality(Counting(v)) ELSE 0
    BY DEF CountInv
  <2>2. CASE v = u
    BY <1>1, <1>6, <1>7, <2>1, <2>2 DEF CountersOK
  <2>3. CASE v # u
    <3>1. Cardinality(Counting(v)') = Cardinality(Counting(v))
      BY <1>3, <2>3
    <3>2. multi'[v] = multi[v]
      BY <1>6, <2>3 DEF CountersOK
    <3> QED BY <2>1, <3>1, <3>2
  <2> QED BY <2>2, <2>3
<1>10. setup.mcn = Users => count'["running"] = Cardinality(Slotted')
  <2> SUFFICES ASSUME setup.mcn = Users PROVE count'["running"] = Cardinality(Slotted')
    OBVIOUS
  <2>1. count["running"] = Cardinality(Slotted) /\ count["running"] \in 0 .. 255
    BY DEF CountInv, CountersOK
  <2>2. CASE Uploading(u)
    <3>1. Slotted' = Slotted
      BY <1>5, <2>2
    <3> QED BY <1>6, <2>1, <2>2, <3>1 DEF CountersOK
  <2>3. CASE ~Uploading(u)
    <3>1. Cardinality(Slotted') = Cardinality(Slotted) + 1
      BY <1>5, <2>3, FiniteUsers, FS_AddElement DEF Slotted
    <3>2. Cardinality(Slotted') <= Cardinality(Conns)
      <4> DEFINE T == Slotted \cup {u}
      <4>1. T \in SUBSET Users
        BY <1>1 DEF Slotted
      <4>2. \A v \in T : \E d \in Conns : Owner(d) = v
        BY <1>0 DEF Slotted, Counting, ConnsOf
      <4>3. Slotted' = T
        BY <1>5
      <4> HIDE DEF T
      <4> QED BY <4>1, <4>2, <4>3, OwnersBound
    <3>3. Cardinality(Conns) \in Nat
      BY FiniteConns
    <3>4. count'["running"] = (count["running"] + 1) % 256
      BY <1>6, <2>3 DEF CountersOK
    <3> QED BY <2>1, <3>1, <3>2, <3>3, <3>4
  <2> QED BY <2>2, <2>3
<1>11. CountersOK'
  <2>1. multi' \in [Users -> Nat] /\ mcnConns' \in Nat
    BY <1>1, <1>6 DEF CountersOK
  <2>2. (count["running"] + 1) % 256 \in 0 .. 255
    BY DEF CountersOK
  <2>3. count' \in [{"running", "extra", "small"} -> 0 .. 255]
    BY <1>6, <2>2 DEF CountersOK
  <2> QED BY <2>1, <2>3 DEF CountersOK
<1>12. count'["running"] <= count["running"] + 1
  <2> DEFINE n == count["running"]
  <2>1. n \in 0 .. 255 /\ count'["running"] \in {n, (n + 1) % 256}
    BY <1>6 DEF CountersOK
  <2> HIDE DEF n
  <2>2. (n + 1) % 256 <= n + 1
    BY <2>1
  <2>3. n <= n + 1
    BY <2>1
  <2>4. count'["running"] <= n + 1
    BY <2>1, <2>2, <2>3
  <2> QED BY <2>4 DEF n
<1> QED BY <1>6, <1>8, <1>9, <1>10, <1>11, <1>12 DEF CountInv

\* A counted connection of a user with several of them loses its slot.
LEMMA CountRemoved ==
    ASSUME RemoteOK, CountersOK, CountInv, setup' = setup,
           NEW c \in Conns, Mcn(c), Counts(c), ~Counts(c)',
           \A d \in Conns \ {c} : Counts(d)' <=> Counts(d), RemoveMultiConn(Owner(c))
    PROVE  /\ CountInv' /\ CountersOK'
           /\ setup.mcn = Users => count'["running"] <= count["running"]
<1>0. PICK u \in Users : u = Owner(c)
  BY SetupFacts
<1>1. u \in setup.mcn
  BY <1>0 DEF Mcn
<1>2. Counting(u)' = Counting(u) \ {c} /\ c \in Counting(u)
  BY <1>0 DEF Counting, ConnsOf, Counts, Owner, UserSlots
<1>3. \A v \in Users \ {u} : Counting(v)' = Counting(v)
  BY <1>0 DEF Counting, ConnsOf, Counts, Owner, UserSlots
<1>4. Multi' = Multi \ {c} /\ c \in Multi
  BY DEF Multi, Mcn, Owner
<1>5. /\ multi' = [multi EXCEPT ![u] = @ - 1] /\ mcnConns' = mcnConns - 1
      /\ count' = [count EXCEPT !["running"] =
                     IF multi[u] = 1 THEN (@ + 255) % 256 ELSE @]
  BY <1>0 DEF RemoveMultiConn
<1>6. /\ IsFiniteSet(Counting(u)) /\ Cardinality(Counting(u)) \in Nat
      /\ Cardinality(Counting(u)') = Cardinality(Counting(u)) - 1
      /\ Cardinality(Counting(u)') \in Nat
  <2>1. IsFiniteSet(Counting(u)) /\ Cardinality(Counting(u)) \in Nat
    BY FiniteConns DEF Counting, ConnsOf
  <2>2. IsFiniteSet(Counting(u)') /\ Cardinality(Counting(u)') \in Nat
    BY <1>2, FiniteConns DEF Counting, ConnsOf
  <2>3. Cardinality(Counting(u)') = Cardinality(Counting(u)) - 1
    BY <1>2, <2>1, FS_RemoveElement
  <2> QED BY <2>1, <2>2, <2>3
<1>7. Cardinality(Multi') = Cardinality(Multi) - 1 /\ Cardinality(Multi') \in Nat
  <2>1. Multi' \in SUBSET Conns
    BY <1>4 DEF Multi
  <2> HIDE DEF Multi
  <2>2. IsFiniteSet(Multi)
    BY FiniteConns DEF Multi
  <2> QED BY <1>4, <2>1, <2>2, FiniteConns, FS_RemoveElement
<1>8. multi[u] = Cardinality(Counting(u))
  BY <1>1 DEF CountInv
<1>9. multi[u] = 1 <=> Counting(u)' = {}
  <2>1. IsFiniteSet(Counting(u)')
    BY <1>2, <1>6, FS_RemoveElement
  <2>2. Cardinality(Counting(u)') = 0 <=> Counting(u)' = {}
    BY <2>1, FS_EmptySet
  <2> QED BY <1>6, <1>8, <2>2
<1>10. ASSUME NEW v \in Users
       PROVE  multi'[v] = IF v \in setup'.mcn THEN Cardinality(Counting(v)') ELSE 0
  <2>1. multi[v] = IF v \in setup.mcn THEN Cardinality(Counting(v)) ELSE 0
    BY DEF CountInv
  <2>2. CASE v = u
    BY <1>1, <1>5, <1>6, <2>1, <2>2 DEF CountersOK
  <2>3. CASE v # u
    <3>1. Cardinality(Counting(v)') = Cardinality(Counting(v))
      BY <1>3, <2>3
    <3>2. multi'[v] = multi[v]
      BY <1>5, <2>3 DEF CountersOK
    <3> QED BY <2>1, <3>1, <3>2
  <2> QED BY <2>2, <2>3
<1>11. setup.mcn = Users => /\ count'["running"] = Cardinality(Slotted')
                            /\ count'["running"] <= count["running"]
  <2> SUFFICES ASSUME setup.mcn = Users
      PROVE  /\ count'["running"] = Cardinality(Slotted')
             /\ count'["running"] <= count["running"]
    OBVIOUS
  <2>1. count["running"] = Cardinality(Slotted) /\ count["running"] \in 0 .. 255
    BY DEF CountInv, CountersOK
  <2>2. CASE multi[u] # 1
    <3>1. Slotted' = Slotted
      BY <1>2, <1>3, <1>9, <2>2 DEF Slotted
    <3>2. count'["running"] = count["running"]
      BY <1>5, <2>2 DEF CountersOK
    <3> QED BY <2>1, <3>1, <3>2
  <2>3. CASE multi[u] = 1
    <3>1. Slotted' = Slotted \ {u} /\ u \in Slotted
      BY <1>2, <1>3, <1>9, <2>3 DEF Slotted
    <3>2. IsFiniteSet(Slotted) /\ Slotted' \in SUBSET Users
      BY <3>1, FiniteUsers DEF Slotted
    <3>3. Cardinality(Slotted') = Cardinality(Slotted) - 1 /\ Cardinality(Slotted') \in Nat
      BY <3>1, <3>2, FiniteUsers, FS_RemoveElement
    <3>4. count'["running"] = (count["running"] + 255) % 256
      BY <1>5, <2>3 DEF CountersOK
    <3> QED BY <2>1, <3>3, <3>4
  <2> QED BY <2>2, <2>3
<1>12. CountersOK'
  <2>1. multi[u] - 1 \in Nat /\ mcnConns - 1 \in Nat
    BY <1>6, <1>7, <1>8 DEF CountInv
  <2>2. multi' \in [Users -> Nat] /\ mcnConns' \in Nat
    BY <1>5, <2>1 DEF CountersOK
  <2>3. (count["running"] + 255) % 256 \in 0 .. 255
    BY DEF CountersOK
  <2>4. count' \in [{"running", "extra", "small"} -> 0 .. 255]
    BY <1>5, <2>3 DEF CountersOK
  <2> QED BY <2>2, <2>4 DEF CountersOK
<1>13. mcnConns' = Cardinality(Multi')
  BY <1>5, <1>7 DEF CountInv
<1> QED BY <1>10, <1>11, <1>12, <1>13 DEF CountInv

\* What is not more is at most one more.
LEMMA AtMostOneMore ==
    CountersOK /\ CountersOK' /\ count'["running"] <= count["running"]
        => count'["running"] <= count["running"] + 1
<1> DEFINE m == count["running"]
           n == count'["running"]
<1> SUFFICES ASSUME CountersOK, CountersOK', n <= m PROVE n <= m + 1
  OBVIOUS
<1>1. m \in Nat /\ n \in Nat
  BY DEF CountersOK
<1> HIDE DEF m, n
<1> QED BY <1>1

\* A slot of c is counted, or not any more. Done is what c is afterwards.
LEMMA CountedFacts ==
    ASSUME RemoteOK, ConnsOK, CountersOK, CountInv, Cardinality(Conns) <= 255,
           setup' = setup, NEW c \in Conns, NEW d \in {1, 255}, NEW done \in Connection,
           Counted(c, conns[c].slot, d, done),
           d = 1 => conns[c].at = "add" /\ done.slot = conns[c].slot /\ done.at # "add",
           d = 255 => conns[c].at # "add" /\ ~(done.slot \in UserSlots /\ done.at # "add")
    PROVE  /\ conns' \in [Conns -> Connection] /\ CountersOK' /\ CountInv'
           /\ \A e \in Conns \ {c} : conns'[e] = conns[e]
           /\ \/ /\ conns'[c].at = done.at /\ conns'[c].slot = done.slot
                 /\ conns'[c].next = done.next
              \/ /\ conns'[c].at = conns[c].at /\ conns'[c].slot = conns[c].slot
                 /\ conns'[c].next = conns[c].next /\ count' = count
           /\ setup.mcn = Users /\ (d = 255 \/ conns[c].slot \notin UserSlots)
                 => count'["running"] <= count["running"]
           /\ setup.mcn = Users => count'["running"] <= count["running"] + 1
<1> DEFINE k == CounterOf(c, conns[c].slot)
<1>1. k \in {"none", "multi", "running", "extra", "small"}
      /\ (k = "multi" <=> Mcn(c) /\ conns[c].slot \in UserSlots)
      /\ (k = "running" <=> ~Mcn(c) /\ conns[c].slot \in UserSlots)
  BY DEF CounterOf, UserSlots
<1>2. conns[c] \in Connection /\ DOMAIN count = {"running", "extra", "small"}
  BY DEF ConnsOK, CountersOK
<1>3. Owner(c) \in Users /\ (setup.mcn = Users => Mcn(c))
  BY SetupFacts DEF Mcn
<1>4. CASE k = "none" /\ conns' = [conns EXCEPT ![c] = done] /\ UNCHANGED slotVars
  <2>1. /\ conns' \in [Conns -> Connection] /\ conns'[c] = done
        /\ \A e \in Conns \ {c} : conns'[e] = conns[e]
    BY <1>4 DEF ConnsOK
  <2>2. \A e \in Conns : Mcn(e) => (Counts(e)' <=> Counts(e))
    <3>1. Mcn(c) => (Counts(c)' <=> Counts(c))
      BY <1>1, <1>4, <2>1 DEF Counts
    <3> QED BY <2>1, <3>1 DEF Counts
  <2>3. count' = count /\ multi' = multi /\ mcnConns' = mcnConns
    BY <1>4 DEF slotVars
  <2>4. CountInv' /\ CountersOK'
    BY <2>2, <2>3, CountKept DEF CountersOK
  <2>5. count'["running"] <= count["running"]
    BY <2>3 DEF CountersOK
  <2> QED BY <2>1, <2>4, <2>5, AtMostOneMore
<1>5. CASE /\ k = "multi" /\ conns' = [conns EXCEPT ![c] = done]
           /\ IF d = 1 THEN AddMultiConn(Owner(c)) ELSE RemoveMultiConn(Owner(c))
  <2>1. /\ conns' \in [Conns -> Connection] /\ conns'[c] = done
        /\ \A e \in Conns \ {c} : conns'[e] = conns[e]
    BY <1>5 DEF ConnsOK
  <2>2. Mcn(c) /\ conns[c].slot \in UserSlots
    BY <1>1, <1>5
  <2>3. \A e \in Conns \ {c} : Counts(e)' <=> Counts(e)
    BY <2>1 DEF Counts
  <2>4. CASE d = 1
    <3>1. ~Counts(c) /\ Counts(c)'
      BY <2>1, <2>2, <2>4 DEF Counts
    <3>2. CountInv' /\ CountersOK' /\ count'["running"] <= count["running"] + 1
      BY <1>5, <2>2, <2>3, <2>4, <3>1, CountAdded
    <3> QED BY <2>1, <2>2, <2>4, <3>2
  <2>5. CASE d = 255
    <3>1. Counts(c) /\ ~Counts(c)'
      BY <2>1, <2>2, <2>5 DEF Counts
    <3>2. CountInv' /\ CountersOK' /\ (setup.mcn = Users => count'["running"] <= count["running"])
      BY <1>5, <2>2, <2>3, <2>5, <3>1, CountRemoved
    <3> QED BY <2>1, <2>5, <3>2, AtMostOneMore
  <2> QED BY <2>4, <2>5
<1>6. CASE /\ k \in DOMAIN count /\ conns' = [conns EXCEPT ![c].reg = count[k]]
           /\ UNCHANGED slotVars
  <2> DEFINE y == [conns[c] EXCEPT !.reg = count[k]]
  <2>1. count[k] \in 0 .. NotRead
    BY <1>2, <1>6 DEF CountersOK, NotRead
  <2>2. y \in Connection /\ y.at = conns[c].at /\ y.slot = conns[c].slot
        /\ y.next = conns[c].next
    BY <1>2, <2>1 DEF Connection
  <2>3. conns' = [conns EXCEPT ![c] = y]
    BY <1>6
  <2> HIDE DEF y, k
  <2>4. /\ conns' \in [Conns -> Connection] /\ conns'[c] = y
        /\ \A e \in Conns \ {c} : conns'[e] = conns[e]
    BY <2>2, <2>3 DEF ConnsOK
  <2>5. \A e \in Conns : Counts(e)' <=> Counts(e)
    BY <2>2, <2>4 DEF Counts
  <2>6. count' = count /\ multi' = multi /\ mcnConns' = mcnConns
    BY <1>6 DEF slotVars
  <2>7. CountInv' /\ CountersOK'
    BY <2>5, <2>6, CountKept DEF CountersOK
  <2>8. count'["running"] <= count["running"]
    BY <2>6 DEF CountersOK
  <2> QED BY <2>2, <2>4, <2>6, <2>7, <2>8, AtMostOneMore
<1>7. CASE /\ k \in DOMAIN count /\ count' = [count EXCEPT ![k] = (conns[c].reg + d) % 256]
           /\ conns' = [conns EXCEPT ![c] = [done EXCEPT !.reg = NotRead]]
           /\ UNCHANGED <<multi, mcnConns>>
  <2> DEFINE y == [done EXCEPT !.reg = NotRead]
  <2>1. y \in Connection /\ y.at = done.at /\ y.slot = done.slot /\ y.next = done.next
    BY DEF Connection, NotRead
  <2>2. conns' = [conns EXCEPT ![c] = y]
    BY <1>7
  <2> HIDE DEF y
  <2>3. /\ conns' \in [Conns -> Connection] /\ conns'[c] = y
        /\ \A e \in Conns \ {c} : conns'[e] = conns[e]
    BY <2>1, <2>2 DEF ConnsOK
  <2>4. \A e \in Conns : Mcn(e) => (Counts(e)' <=> Counts(e))
    <3>1. Mcn(c) => conns[c].slot \notin UserSlots
      BY <1>1, <1>2, <1>7
    <3>2. Mcn(c) => (Counts(c)' <=> Counts(c))
      BY <2>1, <2>3, <3>1 DEF Counts
    <3> QED BY <2>3, <3>2 DEF Counts
  <2>5. setup.mcn = Users => count'["running"] = count["running"]
    <3>1. setup.mcn = Users => k # "running"
      BY <1>1, <1>3
    <3> HIDE DEF k
    <3> QED BY <1>7, <3>1 DEF CountersOK
  <2>6. CountInv'
    BY <1>7, <2>4, <2>5, CountKept
  <2>7. CountersOK'
    <3>1. conns[c].reg \in Nat
      BY <1>2 DEF Connection, NotRead
    <3>2. (conns[c].reg + d) % 256 \in 0 .. 255
      <4> DEFINE n == conns[c].reg + d
      <4>1. n \in Nat
        BY <3>1
      <4> HIDE DEF n
      <4>2. n % 256 \in 0 .. 255
        BY <4>1
      <4> QED BY <4>2 DEF n
    <3> HIDE DEF k
    <3> QED BY <1>7, <3>2 DEF CountersOK
  <2>8. setup.mcn = Users => count'["running"] <= count["running"]
    BY <2>5 DEF CountersOK
  <2> QED BY <2>1, <2>3, <2>6, <2>7, <2>8, AtMostOneMore
<1> QED BY <1>4, <1>5, <1>6, <1>7 DEF Counted
-----------------------------------------------------------------------------
(* The queue.                                                               *)

\* Who comes last was not there before.
LEMMA QueueAppend ==
    ASSUME NEW q \in Seq(Users), IsInjective(q), NEW u \in Users, u \notin ToSet(q)
    PROVE  Append(q, u) \in Seq(Users) /\ IsInjective(Append(q, u))
<1> DEFINE r == Append(q, u)
           n == Len(q)
<1>1. /\ r \in Seq(Users) /\ Len(r) = n + 1 /\ n \in Nat
      /\ \A i \in 1 .. n : r[i] = q[i]
      /\ r[n + 1] = u
  BY AppendProperties
<1>2. DOMAIN q = 1 .. n /\ DOMAIN r = 1 .. n + 1
  BY <1>1, LenProperties
<1>3. \A i \in 1 .. n : q[i] # u
  BY <1>2 DEF ToSet
<1> HIDE DEF r, n
<1>4. ASSUME NEW a \in 1 .. n + 1, NEW b \in 1 .. n + 1, r[a] = r[b] PROVE a = b
  <2>1. (a \in 1 .. n \/ a = n + 1) /\ (b \in 1 .. n \/ b = n + 1)
    BY <1>1
  <2>2. CASE a \in 1 .. n /\ b \in 1 .. n
    BY <1>1, <1>2, <1>4, <2>2 DEF IsInjective
  <2>3. CASE a \in 1 .. n /\ b = n + 1
    BY <1>1, <1>3, <1>4, <2>3
  <2>4. CASE a = n + 1 /\ b \in 1 .. n
    BY <1>1, <1>3, <1>4, <2>4
  <2> QED BY <2>1, <2>2, <2>3, <2>4
<1> QED BY <1>1, <1>2, <1>4 DEF IsInjective, r

\* Part of the queue.
LEMMA QueueSubSeq ==
    ASSUME NEW q \in Seq(Users), IsInjective(q), NEW k \in 0 .. Len(q)
    PROVE  /\ SubSeq(q, k + 1, Len(q)) \in Seq(Users)
           /\ IsInjective(SubSeq(q, k + 1, Len(q)))
<1> DEFINE n == Len(q)
           r == SubSeq(q, k + 1, n)
<1>1. n \in Nat /\ DOMAIN q = 1 .. n /\ \A i \in 1 .. n : q[i] \in Users
  BY LenProperties, ElementOfSeq
<1>2. k \in 0 .. n
  OBVIOUS
<1> HIDE DEF n
<1>3. \A i \in k + 1 .. n : q[i] \in Users
  BY <1>1, <1>2
<1>4. /\ r \in Seq(Users) /\ Len(r) = (IF k + 1 <= n THEN n - (k + 1) + 1 ELSE 0)
      /\ \A i \in 1 .. n - (k + 1) + 1 : r[i] = q[(k + 1) + i - 1]
  BY <1>1, <1>2, <1>3, SubSeqProperties
<1>5. Len(r) = n - k /\ DOMAIN r = 1 .. n - k
  BY <1>1, <1>2, <1>4, LenProperties
<1>6. \A i \in 1 .. n - k : r[i] = q[k + i] /\ k + i \in 1 .. n
  BY <1>1, <1>2, <1>4
<1> HIDE DEF r
<1>7. ASSUME NEW a \in 1 .. n - k, NEW b \in 1 .. n - k, r[a] = r[b] PROVE a = b
  <2>1. k + a = k + b
    BY <1>1, <1>6, <1>7 DEF IsInjective
  <2> QED BY <1>2, <2>1
<1> QED BY <1>4, <1>5, <1>7 DEF IsInjective, r, n

\* A user loses his place.
LEMMA QueueRemove ==
    ASSUME NEW q \in Seq(Users), IsInjective(q), NEW i \in DOMAIN q
    PROVE  RemoveAt(q, i) \in Seq(Users) /\ IsInjective(RemoveAt(q, i))
<1> DEFINE n == Len(q)
           s == SubSeq(q, 1, i - 1)
           t == SubSeq(q, i + 1, n)
           r == s \o t
<1>1. n \in Nat /\ DOMAIN q = 1 .. n /\ \A j \in 1 .. n : q[j] \in Users
  BY LenProperties, ElementOfSeq
<1>2. i \in 1 .. n
  BY <1>1
<1>3. r = RemoveAt(q, i)
  BY DEF RemoveAt
<1> HIDE DEF n
<1>4. /\ s \in Seq(Users) /\ Len(s) = i - 1
      /\ \A j \in 1 .. i - 1 : s[j] = q[j]
  <2>1. \A j \in 1 .. i - 1 : q[j] \in Users
    BY <1>1, <1>2
  <2>2. /\ s \in Seq(Users) /\ Len(s) = (IF 1 <= i - 1 THEN (i - 1) - 1 + 1 ELSE 0)
        /\ \A j \in 1 .. (i - 1) - 1 + 1 : s[j] = q[1 + j - 1]
    BY <1>1, <1>2, <2>1, SubSeqProperties
  <2> HIDE DEF s
  <2> QED BY <1>1, <1>2, <2>2
<1>5. /\ t \in Seq(Users) /\ Len(t) = n - i
      /\ \A j \in 1 .. n - i : t[j] = q[i + j]
  <2>1. \A j \in i + 1 .. n : q[j] \in Users
    BY <1>1, <1>2
  <2>2. /\ t \in Seq(Users) /\ Len(t) = (IF i + 1 <= n THEN n - (i + 1) + 1 ELSE 0)
        /\ \A j \in 1 .. n - (i + 1) + 1 : t[j] = q[(i + 1) + j - 1]
    BY <1>1, <1>2, <2>1, SubSeqProperties
  <2> HIDE DEF t
  <2>3. n - (i + 1) + 1 = n - i /\ (i + 1 <= n \/ n - i = 0)
    BY <1>1, <1>2
  <2>4. Len(t) = n - i
    BY <1>1, <1>2, <2>2, <2>3
  <2>5. ASSUME NEW j \in 1 .. n - i PROVE t[j] = q[i + j]
    <3>1. (i + 1) + j - 1 = i + j
      BY <1>1, <1>2
    <3> QED BY <2>2, <2>3, <3>1
  <2> QED BY <2>2, <2>4, <2>5
<1> HIDE DEF s, t
<1>6. /\ r \in Seq(Users) /\ Len(r) = Len(s) + Len(t)
      /\ \A j \in 1 .. Len(s) + Len(t) : r[j] = IF j <= Len(s) THEN s[j] ELSE t[j - Len(s)]
  BY <1>4, <1>5, ConcatProperties
<1> HIDE DEF r
<1>7. Len(r) = n - 1 /\ DOMAIN r = 1 .. n - 1
  BY <1>1, <1>2, <1>4, <1>5, <1>6, LenProperties
<1>8. ASSUME NEW j \in 1 .. n - 1
      PROVE  \/ j < i /\ r[j] = q[j] /\ j \in 1 .. n
             \/ j >= i /\ r[j] = q[j + 1] /\ j + 1 \in 1 .. n
  <2>1. CASE j <= i - 1
    BY <1>1, <1>2, <1>4, <1>5, <1>6, <2>1
  <2>2. CASE j >= i
    <3>1. j - (i - 1) \in 1 .. n - i /\ i + (j - (i - 1)) = j + 1
      BY <1>1, <1>2, <2>2
    <3>2. r[j] = t[j - (i - 1)]
      BY <1>1, <1>2, <1>4, <1>5, <1>6, <2>2
    <3> QED BY <1>1, <1>2, <1>5, <2>2, <3>1, <3>2
  <2> QED BY <1>1, <1>2, <2>1, <2>2
<1>9. ASSUME NEW a \in 1 .. n - 1, NEW b \in 1 .. n - 1, r[a] = r[b] PROVE a = b
  <2>1. a \in Int /\ b \in Int /\ i \in Int
    BY <1>1, <1>2
  <2>2. \A x, y \in 1 .. n : q[x] = q[y] => x = y
    BY <1>1 DEF IsInjective
  <2>3. PICK x \in 1 .. n : r[a] = q[x] /\ ((a < i /\ x = a) \/ (a >= i /\ x = a + 1))
    BY <1>8
  <2>4. PICK y \in 1 .. n : r[b] = q[y] /\ ((b < i /\ y = b) \/ (b >= i /\ y = b + 1))
    BY <1>8
  <2>5. x = y
    BY <1>9, <2>2, <2>3, <2>4
  <2> QED BY <2>1, <2>3, <2>4, <2>5
<1> QED BY <1>3, <1>6, <1>7, <1>9 DEF IsInjective

\* The changes of the queue keep everybody in one place.
LEMMA QueueChanges ==
    ASSUME QueueOK, NEW u \in Users, notified' \subseteq Users, timer' \in 0 .. NotRead,
           \/ AddFailedUpload(u) \/ ClearUserFilesUnsafe(u) \/ queue' = queue
           \/ \E k \in 0 .. Len(queue) : queue' = SubSeq(queue, k + 1, Len(queue))
    PROVE  QueueOK'
<1>1. queue \in Seq(Users) /\ IsInjective(queue)
  BY DEF QueueOK
<1>2. CASE queue' = queue
  BY <1>1, <1>2 DEF QueueOK
<1>3. CASE AddFailedUpload(u)
  BY <1>1, <1>2, <1>3, QueueAppend DEF AddFailedUpload, QueueOK
<1>4. CASE ClearUserFilesUnsafe(u)
  BY <1>1, <1>2, <1>4, QueueRemove DEF ClearUserFilesUnsafe, QueueOK
<1>5. CASE \E k \in 0 .. Len(queue) : queue' = SubSeq(queue, k + 1, Len(queue))
  BY <1>1, <1>5, QueueSubSeq DEF QueueOK
<1> QED BY <1>2, <1>3, <1>4, <1>5
-----------------------------------------------------------------------------
(* The invariant. Only the connection that holds slotCS is on the way to a   *)
(* slot, so the room it has seen is still there when its slot is counted.    *)

HoldAt == {"deny", "create", "drop", "add", "room"}

\* All users support several connections and no hook grants a slot.
Limited == setup.mcn = Users /\ \A u \in Users : setup.perk[u] # "slot"
Limit == Slots + AutoOpened

\* Connection c is about to take a slot that is counted.
Taking(c) ==
    \/ /\ conns[c].at \in {"create", "drop"} /\ conns[c].next = "standard"
       /\ conns[c].slot \notin UserSlots
    \/ conns[c].at = "add" /\ conns[c].slot = "standard"

Held(c) ==
    /\ conns[c].at \in HoldAt => slotCS = c
    /\ conns[c].at = "create" /\ conns[c].slot \in UserSlots => conns[c].next = conns[c].slot
    /\ conns[c].at = "drop" => conns[c].slot \notin UserSlots
    /\ Limited => /\ conns[c].slot # "granted" /\ conns[c].next # "granted"
                  /\ Taking(c) => count["running"] < Limit

IInv ==
    /\ TypeInv /\ CountInv
    /\ \A c \in Conns : Held(c)
    /\ Limited => count["running"] <= Limit

\* The same connection, as far as slots are concerned.
SameSlot(d) ==
    /\ conns'[d].at = conns[d].at /\ conns'[d].slot = conns[d].slot
    /\ conns'[d].next = conns[d].next

\* Connections that stay as they are.
LEMMA HeldKept ==
    ASSUME IInv, CountersOK', setup' = setup, NEW d \in Conns, SameSlot(d),
           slotCS = d => slotCS' = d,
           Limited /\ Taking(d) => count'["running"] <= count["running"]
    PROVE  Held(d)'
<1> DEFINE m == count["running"]
           n == count'["running"]
<1>1. m \in Nat /\ n \in Nat /\ Limit \in Nat /\ Limit' = Limit /\ Limited' = Limited
  <2>1. m \in Nat /\ n \in Nat
    BY DEF IInv, TypeInv, CountersOK
  <2>2. Limit \in Nat
    <3>1. Slots \in Nat /\ AutoOpened \in Nat
      BY SetupFacts DEF IInv, TypeInv
    <3> QED BY <3>1 DEF Limit
  <2>3. Limit' = Limit /\ Limited' = Limited
    BY DEF Limit, Limited, Slots, AutoOpened
  <2> QED BY <2>1, <2>2, <2>3
<1>2. Held(d)
  BY DEF IInv
<1>3. Taking(d)' = Taking(d)
  BY DEF Taking, SameSlot
<1>4. Limited /\ Taking(d) => n < Limit
  <2>1. Limited /\ Taking(d) => m < Limit /\ n <= m
    BY <1>2 DEF Held
  <2> HIDE DEF m, n
  <2> QED BY <1>1, <2>1
<1> QED BY <1>1, <1>2, <1>3, <1>4 DEF Held, SameSlot

\* A step that counts nothing and changes connection c, if any, as it may.
LEMMA QuietStep ==
    ASSUME IInv, RemoteOK', ConnsOK', QueueOK', setup' = setup, UNCHANGED slotVars,
           NEW c \in Conns,
           \A d \in Conns \ {c} : SameSlot(d),
           conns'[c].slot = conns[c].slot, conns'[c].at = "add" <=> conns[c].at = "add",
           Held(c)', slotCS' = slotCS \/ slotCS \in {"free", c}
    PROVE  IInv'
<1>1. TypeInv /\ CountInv /\ CountersOK
  BY DEF IInv, TypeInv
<1>2. CountersOK' /\ count' = count
  BY <1>1 DEF slotVars, CountersOK
<1>3. \A d \in Conns : Counts(d)' <=> Counts(d)
  BY DEF Counts, SameSlot
<1>4. CountInv'
  BY <1>1, <1>3, CountKept DEF slotVars
<1>5. ASSUME NEW d \in Conns \ {c} PROVE Held(d)'
  <2>1. slotCS = d => slotCS' = d
    BY UploadSlotsAssumption
  <2>2. count'["running"] <= count["running"]
    BY <1>1, <1>2 DEF CountersOK
  <2> QED BY <1>2, <2>1, <2>2, HeldKept
<1>6. Limited' => count'["running"] <= Limit'
  BY <1>2 DEF IInv, Limited, Limit, Slots, AutoOpened
<1> QED BY <1>2, <1>4, <1>5, <1>6 DEF IInv, TypeInv

\* A step that changes no connection.
LEMMA ElsewhereStep ==
    ASSUME IInv, RemoteOK', QueueOK', setup' = setup, UNCHANGED <<conns, slotCS, slotVars>>
    PROVE  IInv'
<1>1. ConnsOK' /\ CountersOK' /\ count' = count
  BY DEF IInv, TypeInv, ConnsOK, CountersOK, slotVars
<1>2. CountInv'
  <2>1. \A d \in Conns : Counts(d)' <=> Counts(d)
    BY DEF Counts
  <2> QED BY <2>1, CountKept DEF slotVars, IInv
<1>3. ASSUME NEW d \in Conns PROVE Held(d)'
  <2>1. count'["running"] <= count["running"]
    BY <1>1 DEF IInv, TypeInv, CountersOK
  <2> QED BY <1>1, <2>1, HeldKept DEF SameSlot
<1>4. Limited' => count'["running"] <= Limit'
  BY <1>1 DEF IInv, Limited, Limit, Slots, AutoOpened
<1> QED BY <1>1, <1>2, <1>3, <1>4 DEF IInv, TypeInv

\* The slots that a request may get.
LEMMA SlotForFacts ==
    ASSUME IInv, NEW c \in Conns, NEW f, NEW s \in SlotFor(c, f)
    PROVE  /\ s \in SlotKinds
           /\ conns[c].slot \in UserSlots => s = conns[c].slot
           /\ Limited => s # "granted"
           /\ s = "standard" /\ conns[c].slot \notin UserSlots => count["running"] < Limit
<1>1. /\ Slots \in 0 .. 255 /\ AutoOpened \in 0 .. 255 /\ Owner(c) \in Users
      /\ count["running"] \in 0 .. 255
  BY SetupFacts DEF IInv, TypeInv, CountersOK
<1>2. conns[c].slot \in SlotKinds /\ (Limited => conns[c].slot # "granted")
  BY DEF IInv, TypeInv, ConnsOK, Connection, Held
<1>3. CASE conns[c].slot \in UserSlots
  BY <1>2, <1>3 DEF SlotFor
<1>4. CASE conns[c].slot \notin UserSlots
  <2>1. \/ s \in {"none", "small"}
        \/ s = "granted" /\ setup.perk[Owner(c)] = "slot"
        \/ \E low \in LowSpeedSlots :
             s = CASE (FreeSlots > 0 /\ AllowUser(Owner(c))) \/ low -> "standard"
                   [] OTHER ->
                      IF setup.perk[Owner(c)] = "fileslot" THEN "fileslot"
                      ELSE IF f \notin NormalFiles /\ MiniSlotAllowed(c) THEN "mini"
                      ELSE "none"
    BY <1>4 DEF SlotFor
  <2>2. CASE s \in {"none", "small"}
    BY <1>4, <2>2 DEF SlotKinds
  <2>3. CASE s = "granted" /\ setup.perk[Owner(c)] = "slot"
    BY <1>1, <1>4, <2>3 DEF SlotKinds, Limited
  <2>4. ASSUME NEW low \in LowSpeedSlots,
               s = CASE (FreeSlots > 0 /\ AllowUser(Owner(c))) \/ low -> "standard"
                     [] OTHER ->
                        IF setup.perk[Owner(c)] = "fileslot" THEN "fileslot"
                        ELSE IF f \notin NormalFiles /\ MiniSlotAllowed(c) THEN "mini"
                        ELSE "none"
        PROVE  /\ s \in SlotKinds /\ s # "granted"
               /\ s = "standard" => count["running"] < Limit
    <3>1. CASE (FreeSlots > 0 /\ AllowUser(Owner(c))) \/ low
      <4>1. s = "standard"
        BY <2>4, <3>1
      <4>2. FreeSlots > 0 => count["running"] < Slots
        BY <1>1 DEF FreeSlots, Minus
      <4>3. low => count["running"] < Slots + AutoOpened
        BY <2>4 DEF LowSpeedSlots
      <4>4. count["running"] < Slots => count["running"] < Slots + AutoOpened
        BY <1>1
      <4> QED BY <3>1, <4>1, <4>2, <4>3, <4>4 DEF SlotKinds, Limit
    <3>2. CASE ~((FreeSlots > 0 /\ AllowUser(Owner(c))) \/ low)
      BY <2>4, <3>2 DEF SlotKinds
    <3> QED BY <3>1, <3>2
  <2> QED BY <1>4, <2>1, <2>2, <2>3, <2>4
<1> QED BY <1>3, <1>4
-----------------------------------------------------------------------------
(* The steps.                                                               *)

\* Connection c gets the value y, and counts nothing.
LEMMA ConnStep ==
    ASSUME IInv, NEW c \in Conns, NEW y \in Connection, conns' = [conns EXCEPT ![c] = y],
           RemoteOK', QueueOK', setup' = setup, UNCHANGED slotVars,
           y.slot = conns[c].slot, conns[c].at # "add", y.at # "add",
           slotCS' = slotCS \/ slotCS \in {"free", c}, slotCS' \in Conns \cup {"free"},
           y.at \in HoldAt => slotCS' = c,
           \/ y.next = conns[c].next /\ (y.at \in {"create", "drop"} => conns[c].at = "create")
           \/ y.next = "none" /\ y.at \notin {"create", "drop"}
           \/ y.at \in {"deny", "create"} /\ \E f \in Files : y.next \in SlotFor(c, f),
           y.at = "drop" => y.slot \notin UserSlots
    PROVE  IInv'
<1>1. /\ conns' \in [Conns -> Connection] /\ conns'[c] = y
      /\ \A d \in Conns \ {c} : conns'[d] = conns[d]
  BY DEF IInv, TypeInv, ConnsOK
<1>2. Held(c) /\ count' = count /\ Limited' = Limited /\ Limit' = Limit
  BY DEF IInv, slotVars, Limited, Limit, Slots, AutoOpened
<1>3. \/ y.next = conns[c].next /\ (y.at \in {"create", "drop"} => conns[c].at = "create")
      \/ y.next = "none" /\ y.at \notin {"create", "drop"}
      \/ /\ y.at \in {"deny", "create"}
         /\ conns[c].slot \in UserSlots => y.next = conns[c].slot
         /\ Limited => y.next # "granted"
         /\ y.next = "standard" /\ conns[c].slot \notin UserSlots => count["running"] < Limit
  BY SlotForFacts
<1>4. Held(c)'
  <2>1. y.at = "create" /\ y.slot \in UserSlots => y.next = y.slot
    BY <1>2, <1>3 DEF Held
  <2>2. Limited => y.slot # "granted" /\ y.next # "granted"
    BY <1>2, <1>3 DEF Held
  <2>3. Limited /\ y.at \in {"create", "drop"} /\ y.next = "standard"
           /\ y.slot \notin UserSlots
        => count["running"] < Limit
    BY <1>2, <1>3 DEF Held, Taking
  <2> QED BY <1>1, <1>2, <2>1, <2>2, <2>3 DEF Held, Taking
<1> QED BY <1>1, <1>4, QuietStep DEF ConnsOK, SameSlot

\* A connection comes.
LEMMA ConnectsStep ==
    ASSUME IInv, NEW c \in Conns, Connect(c) \/ Retry(c)
    PROVE  IInv'
<1>1. /\ conns[c] = NoConn /\ conns' = [conns EXCEPT ![c].at = "get"]
      /\ UNCHANGED <<remoteVars, slotCS, slotVars, queueVars>>
  BY DEF Connect, Retry, Connects, Goes
<1>2. RemoteOK' /\ QueueOK' /\ setup' = setup /\ slotCS \in Conns \cup {"free"}
  BY <1>1 DEF IInv, TypeInv, RemoteOK, QueueOK, ConnsOK, remoteVars, queueVars
<1> DEFINE y == [conns[c] EXCEPT !.at = "get"]
<1>3. conns[c] \in Connection
  BY DEF IInv, TypeInv, ConnsOK
<1>4. /\ y \in Connection /\ y.at = "get" /\ y.slot = conns[c].slot /\ y.next = conns[c].next
      /\ conns[c].at # "add"
  <2>1. conns[c].at = "none"
    BY <1>1 DEF NoConn
  <2> QED BY <1>3, <2>1 DEF Connection, Places
<1>5. conns' = [conns EXCEPT ![c] = y]
  BY <1>1
<1> HIDE DEF y
<1> QED BY <1>1, <1>2, <1>4, <1>5, ConnStep DEF HoldAt

\* A slot is looked for.
LEMMA RequestStep ==
    ASSUME IInv, NEW c \in Conns, NEW f \in Files, Request(c, f)
    PROVE  IInv'
<1>1. /\ conns[c].at = "get" /\ slotCS = "free" /\ slotCS' = c
      /\ UNCHANGED <<remoteVars, slotVars, queueVars>>
  BY DEF Request
<1>2. RemoteOK' /\ QueueOK' /\ setup' = setup
  BY <1>1 DEF IInv, TypeInv, RemoteOK, QueueOK, remoteVars, queueVars
<1>3. PICK s \in SlotFor(c, f) :
         conns' = [conns EXCEPT ![c].next = s, ![c].file = f,
                                ![c].at = IF s = "none" THEN "deny" ELSE "create"]
  BY DEF Request
<1> DEFINE y == [conns[c] EXCEPT !.next = s, !.file = f,
                                 !.at = IF s = "none" THEN "deny" ELSE "create"]
<1>4. conns[c] \in Connection /\ s \in SlotKinds
  BY SlotForFacts DEF IInv, TypeInv, ConnsOK
<1>5. /\ y \in Connection /\ y.at \in {"deny", "create"} /\ y.slot = conns[c].slot
      /\ y.next = s
  BY <1>4 DEF Connection, Places
<1>6. conns' = [conns EXCEPT ![c] = y]
  BY <1>3
<1> HIDE DEF y
<1> QED BY <1>1, <1>2, <1>5, <1>6, ConnStep

\* The steps of a connection that only go on to another place.
LEMMA GoesStep ==
    ASSUME IInv, NEW c \in Conns, NEW at \in Places, Goes(c, at),
           RemoteOK', QueueOK', setup' = setup, UNCHANGED slotVars,
           conns[c].at # "add", at # "add", at # "create",
           \/ slotCS' = slotCS
           \/ conns[c].at \in HoldAt /\ slotCS' = "free" /\ at \notin HoldAt,
           at \in HoldAt => conns[c].at \in HoldAt,
           at = "drop" => conns[c].at = "create" /\ conns[c].slot \notin UserSlots
    PROVE  IInv'
<1> DEFINE y == [conns[c] EXCEPT !.at = at]
<1>1. conns[c] \in Connection /\ Held(c) /\ slotCS \in Conns \cup {"free"}
  BY DEF IInv, TypeInv, ConnsOK
<1>2. /\ y \in Connection /\ y.at = at /\ y.slot = conns[c].slot /\ y.next = conns[c].next
  BY <1>1 DEF Connection
<1>3. conns' = [conns EXCEPT ![c] = y]
  BY DEF Goes
<1> HIDE DEF y
<1>4. slotCS' = slotCS \/ slotCS \in {"free", c}
  BY <1>1 DEF Held
<1>5. slotCS' \in Conns \cup {"free"} /\ (at \in HoldAt => slotCS' = c)
  BY <1>1 DEF Held
<1> QED BY <1>2, <1>3, <1>4, <1>5, ConnStep

\* The user is put on the queue, or leaves it.
LEMMA DenyStep ==
    ASSUME IInv, NEW c \in Conns, Deny(c) \/ RemoveQueue(c)
    PROVE  IInv'
<1>1. /\ UNCHANGED <<remoteVars, slotVars, timer>> /\ notified' \subseteq notified
  BY DEF Deny, RemoveQueue
<1>2. RemoteOK' /\ setup' = setup /\ RemoteOK /\ QueueOK
  BY <1>1 DEF IInv, TypeInv, RemoteOK, remoteVars
<1>3. QueueOK'
  <2>1. PICK u \in Users : u = Owner(c)
    BY <1>2, SetupFacts
  <2>2. AddFailedUpload(u) \/ ClearUserFilesUnsafe(u) \/ queue' = queue
    BY <2>1 DEF Deny, RemoveQueue
  <2>3. notified' \subseteq Users /\ timer' \in 0 .. NotRead
    BY <1>1, <1>2 DEF QueueOK
  <2> QED BY <1>2, <2>2, <2>3, QueueChanges
<1>4. CASE Deny(c)
  BY <1>1, <1>2, <1>3, <1>4, GoesStep DEF Deny, HoldAt, Places
<1>5. CASE RemoveQueue(c)
  BY <1>1, <1>2, <1>3, <1>5, GoesStep DEF RemoveQueue, HoldAt, Places
<1> QED BY <1>4, <1>5

\* The upload is created; a slot of the same type stays.
LEMMA CreateStep ==
    ASSUME IInv, NEW c \in Conns, Create(c)
    PROVE  IInv'
<1>1. UNCHANGED <<remoteVars, slotVars, queueVars>> /\ conns[c].at = "create"
  BY DEF Create
<1>2. RemoteOK' /\ QueueOK' /\ setup' = setup
  BY <1>1 DEF IInv, TypeInv, RemoteOK, QueueOK, remoteVars, queueVars
<1>3. CASE Goes(c, "dequeue") /\ slotCS' = "free"
  BY <1>1, <1>2, <1>3, GoesStep DEF HoldAt, Places
<1>4. CASE /\ ~SameType(conns[c].slot, conns[c].next)
           /\ Goes(c, "drop") /\ slotCS' = slotCS
  <2>1. conns[c].slot \notin UserSlots
    BY <1>1, <1>4 DEF IInv, Held, SameType
  <2> QED BY <1>1, <1>2, <1>4, <2>1, GoesStep DEF HoldAt, Places
<1> QED BY <1>3, <1>4 DEF Create

\* A connection gives up, ends its transfer or its life.
LEMMA EndStep ==
    ASSUME IInv, NEW c \in Conns, CreateFails(c) \/ TransmitDone(c) \/ Close(c) \/ Break(c)
    PROVE  IInv'
<1>1. /\ UNCHANGED <<setup, online, slotVars, queueVars>>
      /\ conns[c].at \in {"create", "send", "get"}
      /\ slotCS' = slotCS \/ (conns[c].at = "create" /\ slotCS' = "free")
  BY DEF CreateFails, TransmitDone, Close, Break, Leaves, remoteVars
<1>2. RemoteOK' /\ QueueOK'
  <2>1. wants' \in [Users -> SUBSET Files]
    BY DEF CreateFails, TransmitDone, Close, Break, remoteVars, IInv, TypeInv, RemoteOK
  <2> QED BY <1>1, <2>1 DEF IInv, TypeInv, RemoteOK, QueueOK, queueVars
<1>3. conns[c] \in Connection /\ Held(c) /\ slotCS \in Conns \cup {"free"}
  BY DEF IInv, TypeInv, ConnsOK
<1>4. PICK y \in Connection :
         /\ conns' = [conns EXCEPT ![c] = y] /\ y.slot = conns[c].slot
         /\ y.at \in {"get", "leave"} /\ y.next \in {"none", conns[c].next}
  <2>1. CASE conns' = [conns EXCEPT ![c].at = "get", ![c].file = "none", ![c].next = "none"]
    <3> DEFINE y == [conns[c] EXCEPT !.at = "get", !.file = "none", !.next = "none"]
    <3>1. y \in Connection /\ y.slot = conns[c].slot /\ y.at = "get" /\ y.next = "none"
      BY <1>3 DEF Connection, Places, SlotKinds
    <3>2. conns' = [conns EXCEPT ![c] = y]
      BY <2>1
    <3> QED BY <3>1, <3>2
  <2>2. CASE \E at \in {"get", "leave"} :
               conns' = [conns EXCEPT ![c].at = at, ![c].file = "none"]
    <3>1. PICK at \in {"get", "leave"} :
               conns' = [conns EXCEPT ![c].at = at, ![c].file = "none"]
      BY <2>2
    <3> DEFINE y == [conns[c] EXCEPT !.at = at, !.file = "none"]
    <3>2. y \in Connection /\ y.slot = conns[c].slot /\ y.at = at /\ y.next = conns[c].next
      BY <1>3 DEF Connection, Places
    <3>3. conns' = [conns EXCEPT ![c] = y]
      BY <3>1
    <3> QED BY <3>2, <3>3
  <2> QED BY <2>1, <2>2 DEF CreateFails, TransmitDone, Close, Break, Leaves
<1>5. slotCS' = slotCS \/ slotCS \in {"free", c}
  BY <1>1, <1>3 DEF Held, HoldAt
<1> QED BY <1>1, <1>2, <1>3, <1>4, <1>5, ConnStep DEF HoldAt

\* A connection of a user with many of them may have to go.
LEMMA MakeRoomStep ==
    ASSUME IInv, NEW c \in Conns, MakeRoom(c)
    PROVE  IInv'
<1>1. /\ UNCHANGED <<remoteVars, slotVars, queueVars>> /\ conns[c].at = "room"
      /\ slotCS' = "free"
  BY DEF MakeRoom
<1>2. RemoteOK' /\ QueueOK' /\ setup' = setup
  BY <1>1 DEF IInv, TypeInv, RemoteOK, QueueOK, remoteVars, queueVars
<1>3. CASE Goes(c, "dequeue")
  BY <1>1, <1>2, <1>3, GoesStep DEF HoldAt, Places
<1>4. CASE \E e \in Extra : conns' = [conns EXCEPT ![c].at = "dequeue", ![e].closing = TRUE]
  <2>1. PICK e \in Conns : conns' = [conns EXCEPT ![c].at = "dequeue", ![e].closing = TRUE]
    BY <1>4 DEF Extra
  <2> DEFINE x == [conns[c] EXCEPT !.at = "dequeue"]
             mid == [conns EXCEPT ![c] = x]
             y == [mid[e] EXCEPT !.closing = TRUE]
  <2>2. conns \in [Conns -> Connection] /\ Held(c)
    BY DEF IInv, TypeInv, ConnsOK
  <2>3. /\ x \in Connection /\ x.at = "dequeue" /\ x.slot = conns[c].slot
        /\ x.next = conns[c].next
    BY <2>2 DEF Connection, Places
  <2>4. conns' = [mid EXCEPT ![e] = y]
    BY <2>1
  <2> HIDE DEF x
  <2>5. /\ mid \in [Conns -> Connection] /\ mid[c] = x
        /\ \A d \in Conns \ {c} : mid[d] = conns[d]
    BY <2>2, <2>3
  <2> HIDE DEF mid
  <2>6. /\ y \in Connection /\ y.at = mid[e].at /\ y.slot = mid[e].slot
        /\ y.next = mid[e].next
    BY <2>5 DEF Connection
  <2> HIDE DEF y
  <2>7. /\ conns' \in [Conns -> Connection] /\ conns'[e] = y
        /\ \A d \in Conns \ {e} : conns'[d] = mid[d]
    BY <2>4, <2>5, <2>6
  <2>8. /\ \A d \in Conns \ {c} : SameSlot(d)
        /\ conns'[c].at = "dequeue" /\ conns'[c].slot = conns[c].slot
        /\ conns'[c].next = conns[c].next
    BY <2>3, <2>5, <2>6, <2>7 DEF SameSlot
  <2>9. Held(c)'
    BY <1>2, <2>2, <2>8 DEF Held, HoldAt, Taking, Limited
  <2>10. slotCS = c
    BY <1>1, <2>2 DEF Held, HoldAt
  <2> QED BY <1>1, <1>2, <2>7, <2>8, <2>9, <2>10, QuietStep DEF ConnsOK
<1> QED BY <1>3, <1>4 DEF MakeRoom

\* A slot is counted, or not any more.
LEMMA CountedStep ==
    ASSUME IInv, Cardinality(Conns) <= 255, NEW c \in Conns, NEW d \in {1, 255},
           NEW done \in Connection, Counted(c, conns[c].slot, d, done),
           UNCHANGED <<remoteVars, slotCS, queueVars>>,
           d = 1 => conns[c].at = "add" /\ done.slot = conns[c].slot /\ done.at # "add",
           d = 255 => conns[c].at # "add" /\ ~(done.slot \in UserSlots /\ done.at # "add"),
           done.at \in HoldAt => conns[c].at \in HoldAt,
           done.at \notin {"create", "drop"},
           Limited => done.slot # "granted" /\ done.next # "granted",
           done.at = "add" /\ done.slot = "standard" => Taking(c)
    PROVE  IInv'
<1>1. RemoteOK' /\ QueueOK' /\ setup' = setup /\ slotCS' = slotCS
  BY DEF IInv, TypeInv, RemoteOK, QueueOK, remoteVars, queueVars
<1>2. TypeInv /\ CountInv /\ CountersOK /\ Held(c)
  BY DEF IInv, TypeInv
<1>3. /\ conns' \in [Conns -> Connection] /\ CountersOK' /\ CountInv'
      /\ \A e \in Conns \ {c} : conns'[e] = conns[e]
      /\ \/ /\ conns'[c].at = done.at /\ conns'[c].slot = done.slot
            /\ conns'[c].next = done.next
         \/ /\ conns'[c].at = conns[c].at /\ conns'[c].slot = conns[c].slot
            /\ conns'[c].next = conns[c].next /\ count' = count
      /\ setup.mcn = Users /\ (d = 255 \/ conns[c].slot \notin UserSlots)
            => count'["running"] <= count["running"]
      /\ setup.mcn = Users => count'["running"] <= count["running"] + 1
  BY <1>1, <1>2, CountedFacts DEF TypeInv
<1> DEFINE m == count["running"]
           n == count'["running"]
<1>4. m \in Nat /\ n \in Nat /\ Limit \in Nat /\ Limit' = Limit /\ Limited' = Limited
  <2>1. m \in Nat /\ n \in Nat
    BY <1>2, <1>3 DEF CountersOK
  <2>2. Limit \in Nat
    <3>1. Slots \in Nat /\ AutoOpened \in Nat
      BY <1>2, SetupFacts DEF TypeInv
    <3> QED BY <3>1 DEF Limit
  <2>3. Limit' = Limit /\ Limited' = Limited
    BY <1>1 DEF Limit, Limited, Slots, AutoOpened
  <2> QED BY <2>1, <2>2, <2>3
<1>5. Limited => setup.mcn = Users
  BY DEF Limited
<1>6. CASE d = 255 \/ conns[c].slot \notin UserSlots
  <2>1. Limited => n <= m
    BY <1>3, <1>5, <1>6
  <2>2. ASSUME NEW e \in Conns \ {c} PROVE Held(e)'
    BY <1>1, <1>3, <2>1, HeldKept DEF SameSlot
  <2>3. Limited /\ Taking(c) => n < Limit
    <3>1. Limited /\ Taking(c) => m < Limit
      BY <1>2 DEF Held
    <3> HIDE DEF m, n
    <3> QED BY <1>4, <2>1, <3>1
  <2>4. Limited => n <= Limit
    <3>1. Limited => m <= Limit
      BY DEF IInv
    <3> HIDE DEF m, n
    <3> QED BY <1>4, <2>1, <3>1
  <2>5. Taking(c)' => Taking(c)
    BY <1>3 DEF Taking
  <2>6. Held(c)'
    <3>1. CASE /\ conns'[c].at = done.at /\ conns'[c].slot = done.slot
               /\ conns'[c].next = done.next
      <4>1. Limited => conns'[c].slot # "granted" /\ conns'[c].next # "granted"
        BY <3>1
      <4>2. conns'[c].at \in HoldAt => slotCS = c
        BY <1>2, <3>1 DEF Held
      <4> QED BY <1>1, <1>4, <2>3, <2>5, <3>1, <4>1, <4>2 DEF Held
    <3>2. CASE /\ conns'[c].at = conns[c].at /\ conns'[c].slot = conns[c].slot
               /\ conns'[c].next = conns[c].next
      BY <1>1, <1>2, <1>4, <2>3, <2>5, <3>2 DEF Held
    <3> QED BY <1>3, <3>1, <3>2
  <2> QED BY <1>1, <1>2, <1>3, <1>4, <2>2, <2>4, <2>6 DEF IInv, TypeInv, ConnsOK
<1>7. CASE d = 1 /\ conns[c].slot \in UserSlots
  <2>1. conns[c].at = "add" /\ slotCS = c
    BY <1>2, <1>7 DEF Held, HoldAt
  <2>2. ASSUME NEW e \in Conns \ {c} PROVE Held(e)'
    <3>1. Held(e) /\ conns[e].at \notin HoldAt
      BY <2>1 DEF IInv, Held
    <3>2. ~Taking(e)
      BY <3>1 DEF Taking, HoldAt
    <3> QED BY <1>1, <1>3, <3>2, HeldKept DEF SameSlot
  <2>3. Limited => m < Limit
    <3>1. Limited => Taking(c)
      BY <1>2, <1>7, <2>1 DEF Held, Taking, UserSlots
    <3> QED BY <1>2, <3>1 DEF Held
  <2>4. Limited => n <= Limit
    <3>1. Limited => n <= m + 1
      BY <1>3, <1>5
    <3> HIDE DEF m, n
    <3> QED BY <1>4, <2>3, <3>1
  <2>5. Held(c)'
    <3>1. CASE /\ conns'[c].at = done.at /\ conns'[c].slot = done.slot
               /\ conns'[c].next = done.next
      <4>1. Limited => conns'[c].slot # "granted" /\ conns'[c].next # "granted"
        BY <3>1
      <4>2. ~Taking(c)'
        BY <1>7, <3>1 DEF Taking
      <4> QED BY <1>1, <1>4, <1>7, <2>1, <3>1, <4>1, <4>2 DEF Held
    <3>2. CASE /\ conns'[c].at = conns[c].at /\ conns'[c].slot = conns[c].slot
               /\ conns'[c].next = conns[c].next /\ count' = count
      <4>1. Taking(c)' = Taking(c)
        BY <3>2 DEF Taking
      <4> QED BY <1>1, <1>2, <1>4, <3>2, <4>1 DEF Held
    <3> QED BY <1>3, <3>1, <3>2
  <2> QED BY <1>1, <1>2, <1>3, <1>4, <2>2, <2>4, <2>5 DEF IInv, TypeInv, ConnsOK
<1> QED BY <1>6, <1>7

\* The old slot goes.
LEMMA DropSlotStep ==
    ASSUME IInv, Cardinality(Conns) <= 255, NEW c \in Conns, DropSlot(c)
    PROVE  IInv'
<1> DEFINE done == [conns[c] EXCEPT !.slot = conns[c].next, !.next = "none", !.at = "add"]
<1>1. /\ conns[c].at = "drop" /\ Counted(c, conns[c].slot, 255, done)
      /\ UNCHANGED <<remoteVars, slotCS, queueVars>>
  BY DEF DropSlot
<1>2. conns[c] \in Connection /\ Held(c)
  BY DEF IInv, TypeInv, ConnsOK
<1>3. /\ done \in Connection /\ done.at = "add" /\ done.slot = conns[c].next
      /\ done.next = "none"
  BY <1>2 DEF Connection, Places, SlotKinds
<1> HIDE DEF done
<1>4. Limited => done.slot # "granted" /\ done.next # "granted"
  BY <1>2, <1>3 DEF Held
<1>5. done.slot = "standard" => Taking(c)
  BY <1>1, <1>2, <1>3 DEF Held, Taking
<1> QED BY <1>1, <1>3, <1>4, <1>5, CountedStep DEF HoldAt

\* The new slot is counted.
LEMMA AddSlotStep ==
    ASSUME IInv, Cardinality(Conns) <= 255, NEW c \in Conns, AddSlot(c)
    PROVE  IInv'
<1> DEFINE done == [conns[c] EXCEPT !.at = "room"]
<1>1. /\ conns[c].at = "add" /\ Counted(c, conns[c].slot, 1, done)
      /\ UNCHANGED <<remoteVars, slotCS, queueVars>>
  BY DEF AddSlot
<1>2. conns[c] \in Connection /\ Held(c)
  BY DEF IInv, TypeInv, ConnsOK
<1>3. /\ done \in Connection /\ done.at = "room" /\ done.slot = conns[c].slot
      /\ done.next = conns[c].next
  BY <1>2 DEF Connection, Places
<1> HIDE DEF done
<1>4. Limited => done.slot # "granted" /\ done.next # "granted"
  BY <1>2, <1>3 DEF Held
<1> QED BY <1>1, <1>3, <1>4, CountedStep DEF HoldAt

\* A slot is lost with its connection.
LEMMA RemoveConnectionStep ==
    ASSUME IInv, Cardinality(Conns) <= 255, NEW c \in Conns, RemoveConnection(c)
    PROVE  IInv'
<1>1. /\ conns[c].at = "leave" /\ Counted(c, conns[c].slot, 255, NoConn)
      /\ UNCHANGED <<remoteVars, slotCS, queueVars>>
  BY DEF RemoveConnection
<1>2. /\ NoConn \in Connection /\ NoConn.at = "none" /\ NoConn.slot = "none"
      /\ NoConn.next = "none"
  BY DEF NoConn, Connection, Places, SlotKinds, NotRead
<1> QED BY <1>1, <1>2, CountedStep DEF HoldAt, UserSlots

\* The timer reads how many slots are free.
LEMMA ReadFreeSlotsStep ==
    ASSUME IInv, ReadFreeSlots
    PROVE  IInv'
<1>1. /\ timer' = FreeSlots
      /\ UNCHANGED <<remoteVars, conns, slotCS, slotVars, queue, notified>>
  BY DEF ReadFreeSlots
<1>2. RemoteOK' /\ setup' = setup
  BY <1>1 DEF IInv, TypeInv, RemoteOK, remoteVars
<1>3. FreeSlots \in 0 .. NotRead
  <2> DEFINE m == Slots
             n == count["running"]
  <2>1. m \in 0 .. 255 /\ n \in 0 .. 255
    BY SetupFacts DEF IInv, TypeInv, CountersOK
  <2> HIDE DEF m, n
  <2>2. (IF m > n THEN m - n ELSE 0) \in 0 .. 256
    BY <2>1
  <2> QED BY <2>2 DEF FreeSlots, Minus, NotRead, m, n
<1>4. QueueOK'
  BY <1>1, <1>3 DEF IInv, TypeInv, QueueOK
<1> QED BY <1>1, <1>2, <1>4, ElsewhereStep

\* The first users of the queue are told to come.
LEMMA NotifyStep ==
    ASSUME IInv, NotifyQueuedUsers
    PROVE  IInv'
<1> DEFINE Told(k) == OnlineIn(SubSeq(queue, 1, k))
<1>1. timer' = NotRead /\ UNCHANGED <<remoteVars, conns, slotCS, slotVars>>
  BY DEF NotifyQueuedUsers
<1>2. PICK k \in 0 .. Len(queue) :
         queue' = SubSeq(queue, k + 1, Len(queue)) /\ notified' = notified \cup Told(k)
  BY DEF NotifyQueuedUsers
<1>3. RemoteOK' /\ setup' = setup /\ Told(k) \subseteq Users
  BY <1>1 DEF IInv, TypeInv, RemoteOK, remoteVars, OnlineIn
<1> HIDE DEF Told
<1>4. queue' \in Seq(Users) /\ IsInjective(queue')
  BY <1>2, QueueSubSeq DEF IInv, TypeInv, QueueOK
<1>5. notified' \subseteq Users /\ timer' \in 0 .. NotRead
  BY <1>1, <1>2, <1>3 DEF IInv, TypeInv, QueueOK, NotRead
<1>6. QueueOK'
  BY <1>4, <1>5 DEF QueueOK
<1> QED BY <1>1, <1>3, <1>6, ElsewhereStep

\* Users that do not come, go or come back.
LEMMA UserStep ==
    ASSUME IInv, NEW u \in Users,
           Expire(u) \/ GoOffline(u) \/ ClearUserFiles(u) \/ ComeOnline(u)
    PROVE  IInv'
<1>1. /\ UNCHANGED <<setup, wants, conns, slotCS, slotVars, timer>>
      /\ online' \subseteq online \cup {u} /\ notified' \subseteq notified
      /\ ClearUserFilesUnsafe(u) \/ queue' = queue
  BY DEF Expire, GoOffline, ClearUserFiles, ComeOnline, queueVars, remoteVars
<1>2. RemoteOK'
  BY <1>1 DEF IInv, TypeInv, RemoteOK
<1>3. QueueOK /\ notified' \subseteq Users /\ timer' \in 0 .. NotRead
  BY <1>1 DEF IInv, TypeInv, QueueOK
<1>4. QueueOK'
  BY <1>1, <1>3, QueueChanges
<1> QED BY <1>1, <1>2, <1>4, ElsewhereStep
-----------------------------------------------------------------------------
(* The theorems.                                                            *)

\* Nobody has a connection, a slot or a place in the queue at first.
LEMMA InitInv == Init => IInv
<1> SUFFICES ASSUME Init PROVE IInv
  OBVIOUS
<1>1. setup \in Setups
  BY DEF Init
<1>2. RemoteOK
  BY <1>1, UploadSlotsAssumption DEF Init, RemoteOK
<1>3. ConnsOK
  BY DEF Init, ConnsOK, NoConn, Connection, Places, SlotKinds, NotRead
<1>4. CountersOK
  BY DEF Init, CountersOK
<1>5. QueueOK
  BY DEF Init, QueueOK, IsInjective, NotRead
<1>6. \A u \in Users : Counting(u) = {}
  BY DEF Init, Counting, ConnsOf, NoConn, UserSlots
<1>7. Multi = {} /\ Slotted = {}
  BY <1>6 DEF Init, Multi, Slotted, Counts, NoConn, UserSlots
<1>8. Cardinality({}) = 0
  BY FS_EmptySet
<1>9. CountInv
  <2>1. \A u \in Users : multi[u] = 0 /\ Cardinality(Counting(u)) = 0
    BY <1>6, <1>8 DEF Init
  <2>2. mcnConns = Cardinality(Multi) /\ count["running"] = Cardinality(Slotted)
    BY <1>7, <1>8 DEF Init
  <2> QED BY <2>1, <2>2 DEF CountInv
<1>10. ASSUME NEW c \in Conns PROVE Held(c)
  BY DEF Init, Held, Taking, HoldAt, NoConn
<1>11. count["running"] <= Limit
  <2>1. Slots \in Nat /\ AutoOpened \in Nat
    BY <1>2, SetupFacts
  <2>2. count["running"] = 0
    BY DEF Init
  <2> QED BY <2>1, <2>2 DEF Limit
<1> QED BY <1>2, <1>3, <1>4, <1>5, <1>9, <1>10, <1>11 DEF IInv, TypeInv

\* Every step keeps the invariant.
LEMMA StepInv == Cardinality(Conns) <= 255 /\ IInv /\ [Next]_vars => IInv'
<1> SUFFICES ASSUME Cardinality(Conns) <= 255, IInv, [Next]_vars PROVE IInv'
  OBVIOUS
<1>1. ASSUME NEW c \in Conns, Connect(c) \/ Retry(c) PROVE IInv'
  BY <1>1, ConnectsStep
<1>2. ASSUME NEW c \in Conns, NEW f \in Files, Request(c, f) PROVE IInv'
  BY <1>2, RequestStep
<1>3. ASSUME NEW c \in Conns, Deny(c) \/ RemoveQueue(c) PROVE IInv'
  BY <1>3, DenyStep
<1>4. ASSUME NEW c \in Conns, Create(c) PROVE IInv'
  BY <1>4, CreateStep
<1>5. ASSUME NEW c \in Conns, DropSlot(c) PROVE IInv'
  BY <1>5, DropSlotStep
<1>6. ASSUME NEW c \in Conns, AddSlot(c) PROVE IInv'
  BY <1>6, AddSlotStep
<1>7. ASSUME NEW c \in Conns, MakeRoom(c) PROVE IInv'
  BY <1>7, MakeRoomStep
<1>8. ASSUME NEW c \in Conns, CreateFails(c) \/ TransmitDone(c) \/ Close(c) \/ Break(c)
      PROVE  IInv'
  BY <1>8, EndStep
<1>9. ASSUME NEW c \in Conns, RemoveConnection(c) PROVE IInv'
  BY <1>9, RemoveConnectionStep
<1>10. ASSUME NEW u \in Users,
              Expire(u) \/ GoOffline(u) \/ ClearUserFiles(u) \/ ComeOnline(u)
       PROVE  IInv'
  BY <1>10, UserStep
<1>11. CASE UNCHANGED vars
  <2>1. UNCHANGED <<setup, wants, online, conns, slotCS, slotVars, queue, notified, timer>>
    BY <1>11 DEF vars, remoteVars, queueVars
  <2>2. RemoteOK' /\ QueueOK'
    BY <2>1 DEF IInv, TypeInv, RemoteOK, QueueOK
  <2> QED BY <2>1, <2>2, ElsewhereStep
<1> QED BY <1>1, <1>2, <1>3, <1>4, <1>5, <1>6, <1>7, <1>8, <1>9, <1>10, <1>11,
           ReadFreeSlotsStep, NotifyStep DEF Next, Handler

\* What is counted is what connections have, and only one connection at a time is on
\* the way to a slot, whatever the order of the threads' steps (UploadManager.cpp:130).
THEOREM UploadSlotsInvariant ==
    ASSUME Cardinality(Conns) <= 255
    PROVE  Spec => []IInv
<1>1. Init => IInv
  BY InitInv
<1>2. IInv /\ [Next]_vars => IInv'
  BY StepInv
<1> QED BY <1>1, <1>2, PTL DEF Spec

\* Nobody waits in two places (UploadQueueManager.cpp:87) and no counter leaves the
\* range of its byte (UploadManager.h:101).
THEOREM TypeCorrect ==
    ASSUME Cardinality(Conns) <= 255
    PROVE  Spec => []TypeOK
<1>1. IInv => TypeOK
  <2> SUFFICES ASSUME IInv PROVE TypeOK
    OBVIOUS
  <2>1. RemoteOK /\ ConnsOK /\ CountersOK /\ QueueOK /\ CountInv
    BY DEF IInv, TypeInv
  <2>2. Cardinality(Conns) \in Nat
    BY FiniteConns
  <2>3. ASSUME NEW u \in Users PROVE multi[u] \in 0 .. 255
    <3> DEFINE n == Cardinality(Counting(u))
    <3>1. n \in Nat /\ n <= Cardinality(Conns)
      BY FiniteConns DEF Counting, ConnsOf
    <3> HIDE DEF n
    <3>2. n \in 0 .. 255
      BY <2>2, <3>1
    <3>3. multi[u] \in {n, 0}
      BY <2>1 DEF CountInv, n
    <3> QED BY <3>2, <3>3
  <2>4. mcnConns \in 0 .. 255
    <3> DEFINE n == Cardinality(Multi)
    <3>1. n \in Nat /\ n <= Cardinality(Conns)
      BY FiniteConns DEF Multi
    <3>2. mcnConns = n
      BY <2>1 DEF CountInv
    <3> HIDE DEF n
    <3> QED BY <2>2, <3>1, <3>2
  <2>5. multi \in [Users -> 0 .. 255]
    BY <2>1, <2>3 DEF CountersOK
  <2>6. ToSet(queue) \subseteq Users
    <3>1. queue \in Seq(Users)
      BY <2>1 DEF QueueOK
    <3>2. DOMAIN queue = 1 .. Len(queue) /\ \A i \in 1 .. Len(queue) : queue[i] \in Users
      BY <3>1, LenProperties, ElementOfSeq
    <3> QED BY <3>2 DEF ToSet
  <2>7. /\ wants \in [Users -> SUBSET Files] /\ online \subseteq Users
        /\ slotCS \in Conns \cup {"free"}
        /\ count \in [{"running", "extra", "small"} -> 0 .. 255]
        /\ IsInjective(queue) /\ notified \subseteq Users /\ timer \in 0 .. NotRead
    BY <2>1 DEF RemoteOK, ConnsOK, CountersOK, QueueOK
  <2>8. conns \in [Conns -> Connection]
    BY <2>1 DEF ConnsOK
  <2> QED BY <2>4, <2>5, <2>6, <2>7, <2>8 DEF TypeOK, Connection, Places, SlotKinds
<1> QED BY <1>1, UploadSlotsInvariant, PTL

\* For users with several connections the counters say what the connections have, in
\* whatever order connections come and go (UploadManager.cpp:395).
THEOREM SlotsAreCounted ==
    ASSUME Cardinality(Conns) <= 255
    PROVE  Spec => []SlotCountsExact
<1>1. IInv => SlotCountsExact
  <2> SUFFICES ASSUME IInv, setup.mcn = Users
      PROVE  /\ \A u \in Users : multi[u] = Cardinality(Counting(u))
             /\ count["running"] = Cardinality({u \in Users : Counting(u) # {}})
             /\ mcnConns = Cardinality(UNION {Counting(u) : u \in Users})
    BY DEF SlotCountsExact
  <2>1. CountInv /\ RemoteOK
    BY DEF IInv, TypeInv
  <2>2. \A c \in Conns : Owner(c) \in Users
    BY <2>1, SetupFacts
  <2>3. UNION {Counting(u) : u \in Users} = Multi
    BY <2>2 DEF Counting, ConnsOf, Multi, Mcn, Counts
  <2> QED BY <2>1, <2>3 DEF CountInv, Slotted
<1> QED BY <1>1, UploadSlotsInvariant, PTL

\* No more users have a slot than there are slots and the speed may open, unless a hook
\* grants them (UploadManager.cpp:130).
THEOREM SlotsAreLimited ==
    ASSUME Cardinality(Conns) <= 255
    PROVE  Spec => []SlotsWithinLimit
<1>1. IInv => SlotsWithinLimit
  <2> SUFFICES ASSUME IInv, Limited PROVE Cardinality(Slotted) <= Limit
    BY DEF SlotsWithinLimit, Limited, Limit, Slotted
  <2>1. count["running"] = Cardinality(Slotted)
    BY DEF IInv, CountInv, Limited
  <2> QED BY <2>1 DEF IInv
<1> QED BY <1>1, UploadSlotsInvariant, PTL
=============================================================================
