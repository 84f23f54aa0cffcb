------------------------- MODULE ScriptOutputProofs -------------------------
(***************************************************************************)
(* Theorems about ScriptOutput, for any number of hooks, calls of          *)
(* run_simpleString inside each other and actions of Python code.          *)
(***************************************************************************)
EXTENDS ScriptOutput, FiniteSetTheorems, SequenceTheorems, WellFoundedInduction, TLAPS

HookRec ==
  [stream : Stream, frame : Nat, alive : BOOLEAN, refs : Int,
   pStdOut : {"owned", "null", "dangling"}, isInstall : BOOLEAN, wbuffer : Seq(Text), old : Int]

\* what the C++ operations work on: sys and the hooks
Sound(st) ==
  /\ st \in [sys : [Stream -> Int], hook : Seq(HookRec)]
  /\ \A s \in Stream : st.sys[s] \in {None, Orig} \cup (1..Len(st.hook))
  /\ \A h \in 1..Len(st.hook) : st.hook[h].old \in {None, Orig} \cup (1..Len(st.hook))

\* two hooks that differ at most in the count of references
Like(a, b) ==
  /\ a.stream = b.stream /\ a.frame = b.frame /\ a.alive = b.alive /\ a.pStdOut = b.pStdOut
  /\ a.isInstall = b.isInstall /\ a.wbuffer = b.wbuffer /\ a.old = b.old

\* the references to object o that sys, the hooks and the other objects hold
In(x, y) == IF x = y THEN 1 ELSE 0
OldIn(hs, o) == {h \in 1..Len(hs) : hs[h].old = o}
Weight(st, o) ==
  In(st.sys["err"], o) + In(st.sys["out"], o) + In(st.hook[o].pStdOut, "owned")
    + Cardinality(OldIn(st.hook, o))
Excess(st, o) == st.hook[o].refs - Weight(st, o)

-----------------------------------------------------------------------------
(* The operators of ScriptOutput *)

\* In counts one or none.
LEMMA InIs ==
  ASSUME NEW x, NEW y
  PROVE  In(x, y) \in Int /\ (x = y => In(x, y) = 1) /\ (x # y => In(x, y) = 0)
BY DEF In

\* Changing one hook leaves the others.
LEMMA HookSet ==
  ASSUME NEW hs \in Seq(HookRec), NEW h \in 1..Len(hs), NEW r \in HookRec
  PROVE  /\ [hs EXCEPT ![h] = r] \in Seq(HookRec)
         /\ Len([hs EXCEPT ![h] = r]) = Len(hs)
         /\ [hs EXCEPT ![h] = r][h] = r
         /\ \A g \in 1..Len(hs) : g # h => [hs EXCEPT ![h] = r][g] = hs[g]
<1> DEFINE t == [hs EXCEPT ![h] = r]
<1>1. hs[h] \in HookRec /\ \A g \in 1..Len(hs) : hs[g] \in HookRec
  OBVIOUS
<1>2. t = [g \in 1..Len(hs) |-> IF g = h THEN r ELSE hs[g]]
  OBVIOUS
<1> HIDE DEF HookRec
<1> QED BY <1>1, <1>2

\* Py_INCREF adds one reference ...
LEMMA IncRefIs ==
  ASSUME NEW hs \in Seq(HookRec), NEW o \in {None, Orig} \cup (1..Len(hs))
  PROVE  /\ IncRef(hs, o) \in Seq(HookRec) /\ Len(IncRef(hs, o)) = Len(hs)
         /\ \A h \in 1..Len(hs) : /\ Like(IncRef(hs, o)[h], hs[h])
                                  /\ IncRef(hs, o)[h].refs = hs[h].refs + In(h, o)
<1>1. CASE o \in {Orig, None}
  <2>1. \A h \in 1..Len(hs) : h # o /\ hs[h] \in HookRec
    BY <1>1 DEF Orig, None
  <2>2. \A h \in 1..Len(hs) : hs[h].refs \in Int
    BY <2>1 DEF HookRec
  <2> QED BY <1>1, <2>1, <2>2 DEF IncRef, Like, In
<1>2. CASE o \notin {Orig, None}
  <2>1. hs[o] \in HookRec /\ \A h \in 1..Len(hs) : hs[h] \in HookRec
    BY <1>2
  <2>2. PICK n \in Int : n = hs[o].refs + 1
    BY <2>1 DEF HookRec
  <2>3. PICK r : r = [hs[o] EXCEPT !.refs = n]
    OBVIOUS
  <2>4. r \in HookRec /\ Like(r, hs[o]) /\ r.refs = n
    BY <2>1, <2>3 DEF HookRec, Like
  <2>5. IncRef(hs, o) = [hs EXCEPT ![o] = r]
    BY <1>2, <2>2, <2>3 DEF IncRef
  <2>6. \A h \in 1..Len(hs) : hs[h].refs \in Int
    BY <2>1 DEF HookRec
  <2> QED BY <1>2, <2>2, <2>4, <2>5, <2>6, HookSet DEF Like, In
<1> QED BY <1>1, <1>2

\* ... and Py_DECREF takes one.
LEMMA DecRefIs ==
  ASSUME NEW hs \in Seq(HookRec), NEW o \in {None, Orig} \cup (1..Len(hs))
  PROVE  /\ DecRef(hs, o) \in Seq(HookRec) /\ Len(DecRef(hs, o)) = Len(hs)
         /\ \A h \in 1..Len(hs) : /\ Like(DecRef(hs, o)[h], hs[h])
                                  /\ DecRef(hs, o)[h].refs = hs[h].refs - In(h, o)
<1>1. CASE o \in {Orig, None}
  <2>1. \A h \in 1..Len(hs) : h # o /\ hs[h] \in HookRec
    BY <1>1 DEF Orig, None
  <2>2. \A h \in 1..Len(hs) : hs[h].refs \in Int
    BY <2>1 DEF HookRec
  <2> QED BY <1>1, <2>1, <2>2 DEF DecRef, Like, In
<1>2. CASE o \notin {Orig, None}
  <2>1. hs[o] \in HookRec /\ \A h \in 1..Len(hs) : hs[h] \in HookRec
    BY <1>2
  <2>2. PICK n \in Int : n = hs[o].refs - 1
    BY <2>1 DEF HookRec
  <2>3. PICK r : r = [hs[o] EXCEPT !.refs = n]
    OBVIOUS
  <2>4. r \in HookRec /\ Like(r, hs[o]) /\ r.refs = n
    BY <2>1, <2>3 DEF HookRec, Like
  <2>5. DecRef(hs, o) = [hs EXCEPT ![o] = r]
    BY <1>2, <2>2, <2>3 DEF DecRef
  <2>6. \A h \in 1..Len(hs) : hs[h].refs \in Int
    BY <2>1 DEF HookRec
  <2> QED BY <1>2, <2>2, <2>4, <2>5, <2>6, HookSet DEF Like, In
<1> QED BY <1>1, <1>2

\* What Like says of old, and how many objects keep o.
LEMMA OldCounted ==
  ASSUME NEW hs \in Seq(HookRec), NEW o PROVE IsFiniteSet(OldIn(hs, o)) /\ Cardinality(OldIn(hs, o)) \in Nat
<1>1. IsFiniteSet(1..Len(hs)) /\ OldIn(hs, o) \subseteq 1..Len(hs)
  BY FS_Interval DEF OldIn
<1> QED BY <1>1, FS_Subset, FS_CardinalityType

\* The weight of an object as a number.
LEMMA WeightTyped ==
  ASSUME NEW st, st.hook \in Seq(HookRec), NEW o \in 1..Len(st.hook)
  PROVE  Weight(st, o) \in Int /\ st.hook[o].refs \in Int
<1>1. st.hook[o] \in HookRec
  OBVIOUS
<1>2. st.hook[o].refs \in Int
  BY <1>1 DEF HookRec
<1> QED BY <1>2, OldCounted, InIs DEF Weight

\* An assignment to the old_stdout_ of an object takes it from one and gives it to another.
LEMMA SetOld ==
  ASSUME NEW hs \in Seq(HookRec), NEW h \in 1..Len(hs), NEW x \in Int
  PROVE  LET t == [hs EXCEPT ![h].old = x]
         IN  /\ t \in Seq(HookRec) /\ Len(t) = Len(hs)
             /\ \A g \in 1..Len(hs) : g # h => t[g] = hs[g]
             /\ t[h].stream = hs[h].stream /\ t[h].frame = hs[h].frame /\ t[h].alive = hs[h].alive
             /\ t[h].pStdOut = hs[h].pStdOut /\ t[h].isInstall = hs[h].isInstall
             /\ t[h].wbuffer = hs[h].wbuffer /\ t[h].refs = hs[h].refs /\ t[h].old = x
             /\ \A o : Cardinality(OldIn(t, o)) = Cardinality(OldIn(hs, o)) + In(o, x) - In(o, hs[h].old)
<1>1. hs[h] \in HookRec
  OBVIOUS
<1>2. PICK r : r = [hs[h] EXCEPT !.old = x]
  OBVIOUS
<1>3. /\ r \in HookRec /\ r.old = x /\ r.refs = hs[h].refs /\ r.stream = hs[h].stream
      /\ r.frame = hs[h].frame /\ r.alive = hs[h].alive /\ r.pStdOut = hs[h].pStdOut
      /\ r.isInstall = hs[h].isInstall /\ r.wbuffer = hs[h].wbuffer
  BY <1>1, <1>2 DEF HookRec
<1>4. PICK t : t = [hs EXCEPT ![h] = r]
  OBVIOUS
<1>5. /\ t \in Seq(HookRec) /\ Len(t) = Len(hs) /\ t[h] = r
      /\ \A g \in 1..Len(hs) : g # h => t[g] = hs[g]
  BY <1>3, <1>4, HookSet
<1>6. \A o : Cardinality(OldIn(t, o)) = Cardinality(OldIn(hs, o)) + In(o, x) - In(o, hs[h].old)
  <2> SUFFICES ASSUME NEW o
               PROVE  Cardinality(OldIn(t, o)) = Cardinality(OldIn(hs, o)) + In(o, x) - In(o, hs[h].old)
    OBVIOUS
  <2>1. /\ IsFiniteSet(OldIn(hs, o)) /\ IsFiniteSet(OldIn(t, o))
        /\ Cardinality(OldIn(hs, o)) \in Nat /\ Cardinality(OldIn(t, o)) \in Nat
    BY <1>5, OldCounted
  <2>2. (h \in OldIn(hs, o) <=> o = hs[h].old) /\ (h \in OldIn(t, o) <=> o = x)
    BY <1>5, <1>3 DEF OldIn
  <2>3. OldIn(t, o) \ {h} = OldIn(hs, o) \ {h}
    BY <1>5 DEF OldIn
  <2>4. PICK i : i = In(o, x)
    OBVIOUS
  <2>5. PICK j : j = In(o, hs[h].old)
    OBVIOUS
  <2>6. i \in Int /\ (o = x => i = 1) /\ (o # x => i = 0)
    BY <2>4, InIs
  <2>7. j \in Int /\ (o = hs[h].old => j = 1) /\ (o # hs[h].old => j = 0)
    BY <2>5, InIs
  <2>8. PICK a \in Nat : a = Cardinality(OldIn(t, o))
    BY <2>1
  <2>9. PICK b \in Nat : b = Cardinality(OldIn(hs, o))
    BY <2>1
  <2>10. PICK m : m = Cardinality(OldIn(t, o) \ {h})
    OBVIOUS
  <2>11. m = IF h \in OldIn(t, o) THEN a - 1 ELSE a
    BY <2>1, <2>8, <2>10, FS_RemoveElement
  <2>12. m = IF h \in OldIn(hs, o) THEN b - 1 ELSE b
    BY <2>1, <2>3, <2>9, <2>10, FS_RemoveElement
  <2>13. m = a - i
    BY <2>2, <2>6, <2>11
  <2>14. m = b - j
    BY <2>2, <2>7, <2>12
  <2>15. a = b + i - j
    BY <2>6, <2>7, <2>13, <2>14
  <2> QED BY <2>4, <2>5, <2>8, <2>9, <2>15
<1>7. [hs EXCEPT ![h].old = x] = t
  BY <1>2, <1>4
<1> QED BY <1>3, <1>5, <1>6, <1>7

\* Hooks that differ in the counts of references keep the same objects.
LEMMA LikeOld ==
  ASSUME NEW hs \in Seq(HookRec), NEW t \in Seq(HookRec), Len(t) = Len(hs),
         \A h \in 1..Len(hs) : Like(t[h], hs[h])
  PROVE  \A o : OldIn(t, o) = OldIn(hs, o)
BY DEF OldIn, Like

\* r is st with object o in sys
SysSet(r, st, s, o) ==
  /\ Sound(r) /\ Len(r.hook) = Len(st.hook) /\ r.sys = [st.sys EXCEPT ![s] = o]
  /\ \A h \in 1..Len(st.hook) : Like(r.hook[h], st.hook[h])
  /\ \A h \in 1..Len(st.hook) : Excess(r, h) = Excess(st, h)

\* An object is put into sys: it gains the reference that the other loses.
LEMMA SetSysIs ==
  ASSUME NEW st, Sound(st), NEW s \in Stream, NEW o \in {None, Orig} \cup (1..Len(st.hook))
  PROVE  SysSet(SetSys(st, s, o), st, s, o)
<1> DEFINE mid == IncRef(st.hook, o)
           last == DecRef(mid, st.sys[s])
           r == SetSys(st, s, o)
<1>1. st.hook \in Seq(HookRec) /\ st.sys \in [Stream -> Int] /\ st.sys[s] \in {None, Orig} \cup (1..Len(st.hook))
  BY DEF Sound
<1>2. /\ mid \in Seq(HookRec) /\ Len(mid) = Len(st.hook)
      /\ \A h \in 1..Len(st.hook) : Like(mid[h], st.hook[h]) /\ mid[h].refs = st.hook[h].refs + In(h, o)
  BY <1>1, IncRefIs
<1>3. st.sys[s] \in {None, Orig} \cup (1..Len(mid))
  BY <1>1, <1>2
<1> HIDE DEF mid
<1>4. /\ last \in Seq(HookRec) /\ Len(last) = Len(mid)
      /\ \A h \in 1..Len(mid) : Like(last[h], mid[h]) /\ last[h].refs = mid[h].refs - In(h, st.sys[s])
  BY <1>2, <1>3, DecRefIs
<1> HIDE DEF last
<1>5. r.hook = last /\ r.sys = [st.sys EXCEPT ![s] = o] /\ r \in [sys : [Stream -> Int], hook : Seq(HookRec)]
  BY <1>1, <1>4 DEF SetSys, mid, last, Orig, None
<1> HIDE DEF r
<1>6. \A h \in 1..Len(st.hook) : Like(last[h], st.hook[h])
  BY <1>2, <1>4 DEF Like
<1>7. \A h \in 1..Len(st.hook) : Excess(r, h) = Excess(st, h)
  <2> SUFFICES ASSUME NEW h \in 1..Len(st.hook) PROVE Excess(r, h) = Excess(st, h)
    OBVIOUS
  <2>1. last[h].refs = st.hook[h].refs + In(h, o) - In(h, st.sys[s]) /\ st.hook[h].refs \in Int
    <3>1. st.hook[h] \in HookRec
      BY <1>1
    <3>2. st.hook[h].refs \in Int
      BY <3>1 DEF HookRec
    <3> QED BY <1>2, <1>4, <3>2 DEF In
  <2>2. OldIn(last, h) = OldIn(st.hook, h) /\ last[h].pStdOut = st.hook[h].pStdOut
    BY <1>1, <1>2, <1>4, <1>6, LikeOld DEF Like
  <2>3. PICK c \in Nat : c = Cardinality(OldIn(st.hook, h))
    BY <1>1, OldCounted
  <2>4. PICK i : i = In(o, h)
    OBVIOUS
  <2>5. PICK p : p = In(st.hook[h].pStdOut, "owned")
    OBVIOUS
  <2>6. PICK u : u = In(st.sys[s], h)
    OBVIOUS
  <2>7. i \in Int /\ p \in Int /\ u \in Int
    BY <2>4, <2>5, <2>6, InIs
  <2>8. last[h].refs = st.hook[h].refs + i - u
    BY <2>1, <2>4, <2>6 DEF In
  <2>9. CASE s = "err"
    <3>1. r.sys["err"] = o /\ r.sys["out"] = st.sys["out"]
      BY <2>9, <1>1, <1>5 DEF Stream
    <3>2. PICK v : v = In(st.sys["out"], h)
      OBVIOUS
    <3>3. v \in Int
      BY <3>2, InIs
    <3>4. Weight(st, h) = u + v + p + c
      BY <2>3, <2>5, <2>6, <2>9, <3>2 DEF Weight
    <3>5. Weight(r, h) = i + v + p + c
      BY <1>5, <2>2, <2>3, <2>4, <2>5, <3>1, <3>2 DEF Weight
    <3>6. PICK x \in Int : x = st.hook[h].refs
      BY <2>1
    <3>7. x - (u + v + p + c) = (x + i - u) - (i + v + p + c)
      BY <2>3, <2>7, <3>3, <3>6
    <3> QED BY <1>5, <2>8, <3>4, <3>5, <3>6, <3>7 DEF Excess
  <2>10. CASE s = "out"
    <3>1. r.sys["out"] = o /\ r.sys["err"] = st.sys["err"]
      BY <2>10, <1>1, <1>5 DEF Stream
    <3>2. PICK v : v = In(st.sys["err"], h)
      OBVIOUS
    <3>3. v \in Int
      BY <3>2, InIs
    <3>4. Weight(st, h) = v + u + p + c
      BY <2>3, <2>5, <2>6, <2>10, <3>2 DEF Weight
    <3>5. Weight(r, h) = v + i + p + c
      BY <1>5, <2>2, <2>3, <2>4, <2>5, <3>1, <3>2 DEF Weight
    <3>6. PICK x \in Int : x = st.hook[h].refs
      BY <2>1
    <3>7. x - (v + u + p + c) = (x + i - u) - (v + i + p + c)
      BY <2>3, <2>7, <3>3, <3>6
    <3> QED BY <1>5, <2>8, <3>4, <3>5, <3>6, <3>7 DEF Excess
  <2> QED BY <2>9, <2>10 DEF Stream
<1>8. \A h \in 1..Len(last) : last[h].old = st.hook[h].old
  BY <1>2, <1>4, <1>6 DEF Like
<1>9. \A q \in Stream : r.sys[q] \in {None, Orig} \cup (1..Len(last))
  BY <1>1, <1>2, <1>4, <1>5 DEF Sound
<1>10. \A h \in 1..Len(last) : last[h].old \in {None, Orig} \cup (1..Len(last))
  BY <1>2, <1>4, <1>8 DEF Sound
<1>11. Sound(r)
  BY <1>5, <1>9, <1>10 DEF Sound
<1> QED BY <1>2, <1>4, <1>5, <1>6, <1>7, <1>11 DEF r, SysSet

\* What the excess of an object depends on.
LEMMA SameExcess ==
  ASSUME NEW st, st.hook \in Seq(HookRec), NEW r, r.hook \in Seq(HookRec),
         Len(r.hook) = Len(st.hook), r.sys = st.sys,
         \A g \in 1..Len(st.hook) : r.hook[g].old = st.hook[g].old,
         NEW o, r.hook[o].refs = st.hook[o].refs, r.hook[o].pStdOut = st.hook[o].pStdOut
  PROVE  Excess(r, o) = Excess(st, o)
<1>1. OldIn(r.hook, o) = OldIn(st.hook, o)
  BY DEF OldIn
<1> QED BY <1>1 DEF Excess, Weight

\* A state with another hook at h that refers to the same objects.
LEMMA HookReplaced ==
  ASSUME NEW st, Sound(st), NEW h \in 1..Len(st.hook),
         NEW r \in [sys : [Stream -> Int], hook : Seq(HookRec)], Len(r.hook) = Len(st.hook),
         r.sys = st.sys, \A g \in 1..Len(st.hook) : g # h => r.hook[g] = st.hook[g],
         r.hook[h].old = st.hook[h].old, r.hook[h].refs = st.hook[h].refs
  PROVE  /\ Sound(r)
         /\ \A g \in 1..Len(st.hook) : g # h => Excess(r, g) = Excess(st, g)
         /\ r.hook[h].pStdOut = st.hook[h].pStdOut => Excess(r, h) = Excess(st, h)
         /\ r.hook[h].pStdOut # "owned" /\ st.hook[h].pStdOut = "owned" =>
              Excess(r, h) = Excess(st, h) + 1
<1>1. st.hook \in Seq(HookRec) /\ r.hook \in Seq(HookRec)
  BY DEF Sound
<1>2. \A g \in 1..Len(st.hook) : r.hook[g].old = st.hook[g].old /\ r.hook[g].refs = st.hook[g].refs
  OBVIOUS
<1>3. Sound(r)
  BY <1>2 DEF Sound
<1>4. \A g \in 1..Len(st.hook) : r.hook[g].pStdOut = st.hook[g].pStdOut => Excess(r, g) = Excess(st, g)
  BY <1>1, <1>2, SameExcess
<1>5. ASSUME r.hook[h].pStdOut # "owned", st.hook[h].pStdOut = "owned"
      PROVE  Excess(r, h) = Excess(st, h) + 1
  <2>1. OldIn(r.hook, h) = OldIn(st.hook, h)
    BY <1>2 DEF OldIn
  <2>2. PICK c \in Nat : c = Cardinality(OldIn(st.hook, h))
    BY <1>1, OldCounted
  <2>3. PICK u : u = In(st.sys["err"], h)
    OBVIOUS
  <2>4. PICK v : v = In(st.sys["out"], h)
    OBVIOUS
  <2>5. PICK n : n = st.hook[h].refs
    OBVIOUS
  <2>6. u \in Int /\ v \in Int /\ n \in Int
    BY <1>1, <2>3, <2>4, <2>5, InIs, WeightTyped
  <2>7. Weight(st, h) = u + v + 1 + c
    BY <1>5, <2>2, <2>3, <2>4 DEF Weight, In
  <2>8. Weight(r, h) = u + v + 0 + c
    BY <1>5, <2>1, <2>2, <2>3, <2>4 DEF Weight, In
  <2>9. n - (u + v + 0 + c) = (n - (u + v + 1 + c)) + 1
    BY <2>2, <2>6
  <2> QED BY <1>2, <2>5, <2>7, <2>8, <2>9 DEF Excess
<1> QED BY <1>3, <1>4, <1>5

\* A state with x as its hook h.
LEMMA PutHook ==
  ASSUME NEW st \in [sys : [Stream -> Int], hook : Seq(HookRec)], NEW h \in 1..Len(st.hook), NEW x \in HookRec
  PROVE  LET r == [st EXCEPT !.hook[h] = x]
         IN  /\ r \in [sys : [Stream -> Int], hook : Seq(HookRec)] /\ r.sys = st.sys
             /\ Len(r.hook) = Len(st.hook) /\ r.hook[h] = x
             /\ \A g \in 1..Len(st.hook) : g # h => r.hook[g] = st.hook[g]
<1>1. PICK t : t = [st.hook EXCEPT ![h] = x]
  OBVIOUS
<1>2. /\ t \in Seq(HookRec) /\ Len(t) = Len(st.hook) /\ t[h] = x
      /\ \A g \in 1..Len(st.hook) : g # h => t[g] = st.hook[g]
  BY <1>1, HookSet
<1>3. PICK r : r = [st EXCEPT !.hook = t]
  OBVIOUS
<1>4. r.hook = t /\ r.sys = st.sys /\ r \in [sys : [Stream -> Int], hook : Seq(HookRec)]
  BY <1>2, <1>3
<1>5. [st EXCEPT !.hook[h] = x] = r
  BY <1>1, <1>3
<1> QED BY <1>2, <1>4, <1>5

\* The hook is destroyed, with the line it was putting together.
LEMMA DieIs ==
  ASSUME NEW st, Sound(st), NEW h \in 1..Len(st.hook)
  PROVE  LET r == [st EXCEPT !.hook[h] = [@ EXCEPT !.alive = FALSE, !.wbuffer = <<>>]]
         IN  /\ Sound(r) /\ Len(r.hook) = Len(st.hook) /\ r.sys = st.sys
             /\ \A g \in 1..Len(st.hook) : Excess(r, g) = Excess(st, g)
             /\ \A g \in 1..Len(st.hook) : g # h => r.hook[g] = st.hook[g]
             /\ ~r.hook[h].alive /\ r.hook[h].wbuffer = <<>>
             /\ r.hook[h].stream = st.hook[h].stream /\ r.hook[h].frame = st.hook[h].frame
             /\ r.hook[h].pStdOut = st.hook[h].pStdOut /\ r.hook[h].isInstall = st.hook[h].isInstall
             /\ r.hook[h].old = st.hook[h].old /\ r.hook[h].refs = st.hook[h].refs
<1>1. st.hook[h] \in HookRec /\ st.hook \in Seq(HookRec) /\ st \in [sys : [Stream -> Int], hook : Seq(HookRec)]
  BY DEF Sound
<1>2. PICK x : x = [st.hook[h] EXCEPT !.alive = FALSE, !.wbuffer = <<>>]
  OBVIOUS
<1>3. x.alive = FALSE /\ x.wbuffer = <<>>
  BY <1>1, <1>2 DEF HookRec
<1>4. x \in HookRec
  <2>1. <<>> \in Seq(Text)
    OBVIOUS
  <2> QED BY <1>1, <1>2, <2>1 DEF HookRec
<1>5. x.old = st.hook[h].old /\ x.refs = st.hook[h].refs /\ x.pStdOut = st.hook[h].pStdOut
  BY <1>1, <1>2 DEF HookRec
<1>6. x.stream = st.hook[h].stream /\ x.frame = st.hook[h].frame
  BY <1>1, <1>2 DEF HookRec
<1>7. x.isInstall = st.hook[h].isInstall
  BY <1>1, <1>2 DEF HookRec
<1>8. PICK r : r = [st EXCEPT !.hook[h] = x]
  OBVIOUS
<1>9. [st EXCEPT !.hook[h] = [@ EXCEPT !.alive = FALSE, !.wbuffer = <<>>]] = r
  BY <1>2, <1>8, Zenon
<1>10. /\ r \in [sys : [Stream -> Int], hook : Seq(HookRec)] /\ r.sys = st.sys
       /\ Len(r.hook) = Len(st.hook) /\ r.hook[h] = x
       /\ \A g \in 1..Len(st.hook) : g # h => r.hook[g] = st.hook[g]
  <2>1. st \in [sys : [Stream -> Int], hook : Seq(HookRec)]
    BY <1>1
  <2>2. r \in [sys : [Stream -> Int], hook : Seq(HookRec)]
    BY <2>1, <1>4, <1>8, PutHook
  <2>3. r.sys = st.sys
    BY <2>1, <1>4, <1>8, PutHook
  <2>4. Len(r.hook) = Len(st.hook)
    BY <2>1, <1>4, <1>8, PutHook
  <2>5. r.hook[h] = x
    BY <2>1, <1>4, <1>8, PutHook
  <2>6. \A g \in 1..Len(st.hook) : g # h => r.hook[g] = st.hook[g]
    BY <2>1, <1>4, <1>8, PutHook
  <2> QED BY <2>2, <2>3, <2>4, <2>5, <2>6
<1>11. /\ Sound(r) /\ \A g \in 1..Len(st.hook) : Excess(r, g) = Excess(st, g)
  BY <1>5, <1>10, HookReplaced
<1> QED BY <1>3, <1>5, <1>6, <1>7, <1>9, <1>10, <1>11

\* A reference taken or given up together with the old_stdout_ that stands for it
\* leaves every excess as it was.
LEMMA TradeOld ==
  ASSUME NEW st, Sound(st), NEW r \in [sys : [Stream -> Int], hook : Seq(HookRec)],
         Len(r.hook) = Len(st.hook), r.sys = st.sys, NEW g \in 1..Len(st.hook),
         r.hook[g].pStdOut = st.hook[g].pStdOut, NEW n \in Int,
         r.hook[g].refs = st.hook[g].refs + n,
         Cardinality(OldIn(r.hook, g)) = Cardinality(OldIn(st.hook, g)) + n
  PROVE  Excess(r, g) = Excess(st, g)
<1>1. st.hook \in Seq(HookRec)
  BY DEF Sound
<1>2. PICK c \in Nat : c = Cardinality(OldIn(st.hook, g))
  BY <1>1, OldCounted
<1>3. PICK u : u = In(st.sys["err"], g)
  OBVIOUS
<1>4. PICK v : v = In(st.sys["out"], g)
  OBVIOUS
<1>5. PICK p : p = In(st.hook[g].pStdOut, "owned")
  OBVIOUS
<1>6. PICK k : k = st.hook[g].refs
  OBVIOUS
<1>7. u \in Int /\ v \in Int /\ p \in Int /\ k \in Int
  BY <1>1, <1>3, <1>4, <1>5, <1>6, InIs, WeightTyped
<1>8. Weight(st, g) = u + v + p + c
  BY <1>2, <1>3, <1>4, <1>5 DEF Weight
<1>9. Weight(r, g) = u + v + p + (c + n)
  BY <1>2, <1>3, <1>4, <1>5 DEF Weight
<1>10. (k + n) - (u + v + p + (c + n)) = k - (u + v + p + c)
  BY <1>2, <1>7
<1> QED BY <1>6, <1>8, <1>9, <1>10 DEF Excess

\* what sys has for its stream once hook h is uninstalled: the old object, if there is one
Back(st, h) == IF st.hook[h].old = None THEN st.sys[st.hook[h].stream] ELSE st.hook[h].old

\* r is st with the object of hook h taken out of sys
Restored(r, st, h) ==
  /\ Sound(r) /\ Len(r.hook) = Len(st.hook)
  /\ r.sys = [st.sys EXCEPT ![st.hook[h].stream] = Back(st, h)]
  /\ \A g \in 1..Len(st.hook) : Excess(r, g) = Excess(st, g)
  /\ \A g \in 1..Len(st.hook) : g # h => Like(r.hook[g], st.hook[g])
  /\ r.hook[h].stream = st.hook[h].stream /\ r.hook[h].frame = st.hook[h].frame
  /\ r.hook[h].pStdOut = st.hook[h].pStdOut /\ r.hook[h].isInstall = st.hook[h].isInstall
  /\ r.hook[h].old = None

\* ScriptStdOut::uninstall puts the old object back and forgets it ...
LEMMA ObjectUninstallPuts ==
  ASSUME NEW st, Sound(st), NEW h \in 1..Len(st.hook), st.hook[h].old # None
  PROVE  Restored(ObjectUninstall(st, h), st, h)
<1>1. st.hook[h] \in HookRec /\ st.hook \in Seq(HookRec) /\ st \in [sys : [Stream -> Int], hook : Seq(HookRec)]
  BY DEF Sound
<1>2. PICK o : o = st.hook[h].old
  OBVIOUS
<1>3. o \in {Orig} \cup (1..Len(st.hook)) /\ st.hook[h].stream \in Stream
  <2>1. st.hook[h].stream \in Stream
    BY <1>1 DEF HookRec
  <2> QED BY <1>2, <2>1 DEF Sound
<1>4. PICK m : m = SetSys(st, st.hook[h].stream, o)
  OBVIOUS
<1>5. PICK s \in Stream : s = st.hook[h].stream
  BY <1>3
<1>6. /\ Sound(m) /\ Len(m.hook) = Len(st.hook) /\ m.sys = [st.sys EXCEPT ![st.hook[h].stream] = o]
      /\ \A g \in 1..Len(st.hook) : Like(m.hook[g], st.hook[g]) /\ Excess(m, g) = Excess(st, g)
  <2>1. SysSet(m, st, s, o)
    BY <1>3, <1>4, <1>5, SetSysIs
  <2> QED BY <1>5, <2>1 DEF SysSet
<1>7. m.hook \in Seq(HookRec) /\ m \in [sys : [Stream -> Int], hook : Seq(HookRec)] /\ h \in 1..Len(m.hook)
  BY <1>6 DEF Sound
<1>8. PICK d : d = DecRef(m.hook, o)
  OBVIOUS
<1>9. /\ d \in Seq(HookRec) /\ Len(d) = Len(m.hook)
      /\ \A g \in 1..Len(m.hook) : Like(d[g], m.hook[g]) /\ d[g].refs = m.hook[g].refs - In(g, o)
  <2>1. o \in {None, Orig} \cup (1..Len(m.hook))
    BY <1>3, <1>6
  <2> QED BY <1>7, <1>8, <2>1, DecRefIs
<1>10. PICK t : t = [d EXCEPT ![h].old = None]
  OBVIOUS
<1>11. None \in Int /\ h \in 1..Len(d)
  BY <1>6, <1>9 DEF None
<1>12. /\ t \in Seq(HookRec) /\ Len(t) = Len(d)
       /\ \A g \in 1..Len(d) : g # h => t[g] = d[g]
       /\ t[h].stream = d[h].stream /\ t[h].frame = d[h].frame /\ t[h].alive = d[h].alive
       /\ t[h].pStdOut = d[h].pStdOut /\ t[h].isInstall = d[h].isInstall
       /\ t[h].wbuffer = d[h].wbuffer /\ t[h].refs = d[h].refs /\ t[h].old = None
  BY <1>9, <1>10, <1>11, SetOld
<1>13. \A g : Cardinality(OldIn(t, g)) = Cardinality(OldIn(d, g)) + In(g, None) - In(g, d[h].old)
  <2> SUFFICES ASSUME NEW g
               PROVE  Cardinality(OldIn(t, g)) = Cardinality(OldIn(d, g)) + In(g, None) - In(g, d[h].old)
    OBVIOUS
  <2>1. Cardinality(OldIn([d EXCEPT ![h].old = None], g))
          = Cardinality(OldIn(d, g)) + In(g, None) - In(g, d[h].old)
    BY <1>9, <1>11, SetOld
  <2> QED BY <1>10, <2>1
<1>14. PICK r : r = [m EXCEPT !.hook = t]
  OBVIOUS
<1>15. r.hook = t /\ r.sys = m.sys /\ r \in [sys : [Stream -> Int], hook : Seq(HookRec)]
  BY <1>7, <1>12, <1>14
<1>16. ObjectUninstall(st, h) = r
  BY <1>2, <1>4, <1>8, <1>10, <1>14 DEF ObjectUninstall
<1>17. \A g \in 1..Len(st.hook) : Excess(r, g) = Excess(st, g)
  <2> SUFFICES ASSUME NEW g \in 1..Len(st.hook) PROVE Excess(r, g) = Excess(st, g)
    OBVIOUS
  <2>1. PICK n : n = In(g, o)
    OBVIOUS
  <2>2. n \in Int /\ In(g, None) = 0
    BY <2>1, InIs DEF None
  <2>3. d[h].old = o
    BY <1>2, <1>6, <1>9, <1>7 DEF Like
  <2>4. OldIn(d, g) = OldIn(m.hook, g)
    BY <1>7, <1>9, LikeOld
  <2>5. PICK c \in Nat : c = Cardinality(OldIn(m.hook, g))
    BY <1>7, OldCounted
  <2>6. Cardinality(OldIn(t, g)) = c + (0 - n)
    <3>1. Cardinality(OldIn(t, g)) = c + 0 - n
      BY <1>13, <2>1, <2>2, <2>3, <2>4, <2>5
    <3> QED BY <2>2, <2>5, <3>1
  <2>7. m.hook[g].refs \in Int
    BY <1>6, <1>7, WeightTyped
  <2>8. t[g].refs = m.hook[g].refs + (0 - n)
    <3>1. d[g].refs = m.hook[g].refs - n
      BY <1>6, <1>9, <2>1
    <3>2. t[g].refs = d[g].refs
      BY <1>6, <1>9, <1>12
    <3> QED BY <2>2, <2>7, <3>1, <3>2
  <2>9. t[g].pStdOut = m.hook[g].pStdOut
    BY <1>6, <1>9, <1>12 DEF Like
  <2>10. 0 - n \in Int /\ Len(r.hook) = Len(m.hook) /\ g \in 1..Len(m.hook)
    BY <1>6, <1>9, <1>12, <1>15, <2>2
  <2>11. Excess(r, g) = Excess(m, g)
    <3>1. PICK k \in Int : k = 0 - n
      BY <2>10
    <3>2. /\ r.hook[g].pStdOut = m.hook[g].pStdOut /\ r.hook[g].refs = m.hook[g].refs + k
          /\ Cardinality(OldIn(r.hook, g)) = Cardinality(OldIn(m.hook, g)) + k
      BY <1>15, <2>5, <2>6, <2>8, <2>9, <3>1
    <3>3. Sound(m) /\ Len(r.hook) = Len(m.hook) /\ r.sys = m.sys
          /\ r \in [sys : [Stream -> Int], hook : Seq(HookRec)]
      BY <1>6, <1>15, <2>10
    <3> QED BY <2>10, <3>2, <3>3, TradeOld
  <2> QED BY <1>6, <2>11
<1>18. Sound(r)
  <2>1. \A g \in 1..Len(t) : t[g].old = IF g = h THEN None ELSE m.hook[g].old
    BY <1>9, <1>12 DEF Like
  <2> QED BY <1>6, <1>9, <1>12, <1>15, <2>1 DEF Sound
<1>19. \A g \in 1..Len(st.hook) : g # h => Like(r.hook[g], st.hook[g])
  BY <1>6, <1>9, <1>12, <1>15 DEF Like
<1>20. /\ r.hook[h].stream = st.hook[h].stream /\ r.hook[h].frame = st.hook[h].frame
       /\ r.hook[h].pStdOut = st.hook[h].pStdOut /\ r.hook[h].isInstall = st.hook[h].isInstall
       /\ r.hook[h].old = None
  BY <1>6, <1>7, <1>9, <1>12, <1>15 DEF Like
<1>21. Len(r.hook) = Len(st.hook) /\ r.sys = [st.sys EXCEPT ![st.hook[h].stream] = Back(st, h)]
  BY <1>2, <1>6, <1>9, <1>12, <1>15 DEF Back
<1> QED BY <1>16, <1>17, <1>18, <1>19, <1>20, <1>21 DEF Restored

\* ... and without an old object it does nothing.
LEMMA ObjectUninstallIs ==
  ASSUME NEW st, Sound(st), NEW h \in 1..Len(st.hook)
  PROVE  Restored(ObjectUninstall(st, h), st, h)
<1>1. CASE st.hook[h].old # None
  BY <1>1, ObjectUninstallPuts
<1>2. CASE st.hook[h].old = None
  <2>1. ObjectUninstall(st, h) = st
    BY <1>2 DEF ObjectUninstall
  <2>2. st.sys \in [Stream -> Int]
    BY DEF Sound
  <2>3. st.sys = [st.sys EXCEPT ![st.hook[h].stream] = Back(st, h)]
    BY <1>2, <2>2 DEF Back
  <2>4. \A g \in 1..Len(st.hook) : Like(st.hook[g], st.hook[g])
    BY DEF Like
  <2> QED BY <1>2, <2>1, <2>3, <2>4 DEF Restored
<1> QED BY <1>1, <1>2

\* Py_XDECREF(pStdOut_): one reference less, for the pointer that is given up.
LEMMA ReleaseIs ==
  ASSUME NEW st, Sound(st), NEW h \in 1..Len(st.hook)
  PROVE  LET r == [st EXCEPT !.hook = DecRef(@, h)]
         IN  /\ Sound(r) /\ Len(r.hook) = Len(st.hook) /\ r.sys = st.sys
             /\ \A g \in 1..Len(st.hook) : Like(r.hook[g], st.hook[g])
             /\ \A g \in 1..Len(st.hook) : g # h => Excess(r, g) = Excess(st, g)
             /\ Excess(r, h) = Excess(st, h) - 1
             /\ Excess(st, h) \in Int
<1>1. st.hook \in Seq(HookRec) /\ st \in [sys : [Stream -> Int], hook : Seq(HookRec)]
  BY DEF Sound
<1>2. PICK d : d = DecRef(st.hook, h)
  OBVIOUS
<1>3. /\ d \in Seq(HookRec) /\ Len(d) = Len(st.hook)
      /\ \A g \in 1..Len(st.hook) : Like(d[g], st.hook[g]) /\ d[g].refs = st.hook[g].refs - In(g, h)
  <2>1. h \in {None, Orig} \cup (1..Len(st.hook))
    OBVIOUS
  <2> QED BY <1>1, <1>2, <2>1, DecRefIs
<1>4. PICK r : r = [st EXCEPT !.hook = d]
  OBVIOUS
<1>5. r.hook = d /\ r.sys = st.sys /\ r \in [sys : [Stream -> Int], hook : Seq(HookRec)]
  BY <1>1, <1>3, <1>4
<1>6. [st EXCEPT !.hook = DecRef(@, h)] = r
  BY <1>2, <1>4
<1>7. \A g \in 1..Len(d) : d[g].old = st.hook[g].old /\ d[g].pStdOut = st.hook[g].pStdOut
  BY <1>3 DEF Like
<1>8. Sound(r)
  BY <1>3, <1>5, <1>7 DEF Sound
<1>9. \A g \in 1..Len(st.hook) : st.hook[g].refs \in Int /\ Weight(st, g) \in Int
  BY <1>1, WeightTyped
<1>10. ASSUME NEW g \in 1..Len(st.hook) PROVE Weight(r, g) = Weight(st, g)
  <2>1. OldIn(r.hook, g) = OldIn(st.hook, g)
    BY <1>1, <1>3, <1>5, LikeOld
  <2>2. r.hook[g].pStdOut = st.hook[g].pStdOut
    BY <1>3, <1>5, <1>7
  <2> QED BY <1>5, <2>1, <2>2 DEF Weight
<1>11. \A g \in 1..Len(st.hook) : g # h => Excess(r, g) = Excess(st, g)
  <2> SUFFICES ASSUME NEW g \in 1..Len(st.hook), g # h PROVE Excess(r, g) = Excess(st, g)
    OBVIOUS
  <2>1. d[g].refs = st.hook[g].refs
    BY <1>3, <1>9 DEF In
  <2> QED BY <1>5, <1>10, <2>1 DEF Excess
<1>12. Excess(r, h) = Excess(st, h) - 1
  <2>1. d[h].refs = st.hook[h].refs - 1
    BY <1>3, <1>9 DEF In
  <2>2. PICK k \in Int : k = st.hook[h].refs
    BY <1>9
  <2>3. PICK w \in Int : w = Weight(st, h)
    BY <1>9
  <2>4. Excess(st, h) = k - w
    BY <2>2, <2>3 DEF Excess
  <2>5. Excess(r, h) = (k - 1) - w
    BY <1>5, <1>10, <2>1, <2>2, <2>3 DEF Excess
  <2> QED BY <2>4, <2>5
<1>13. Excess(st, h) \in Int
  BY <1>9 DEF Excess
<1>14. \A g \in 1..Len(st.hook) : Like(r.hook[g], st.hook[g])
  BY <1>3, <1>5
<1> QED BY <1>3, <1>5, <1>6, <1>8, <1>11, <1>12, <1>13, <1>14

\* the hook h after ScriptStdOutHook::uninstall, with d what the object left
Released(d, ok) ==
  IF ok THEN [d EXCEPT !.pStdOut = "null", !.isInstall = FALSE] ELSE [d EXCEPT !.pStdOut = "dangling"]

\* What a release leaves of the hook.
LEMMA ReleasedIs ==
  ASSUME NEW d \in HookRec, NEW ok \in BOOLEAN, d.isInstall
  PROVE  /\ Released(d, ok) \in HookRec
         /\ Released(d, ok).stream = d.stream /\ Released(d, ok).frame = d.frame
         /\ Released(d, ok).old = d.old /\ Released(d, ok).refs = d.refs
         /\ Released(d, ok).pStdOut = IF ok THEN "null" ELSE "dangling"
         /\ Released(d, ok).isInstall = ~ok
<1>1. CASE ok
  <2>1. PICK x : x = [d EXCEPT !.pStdOut = "null", !.isInstall = FALSE]
    OBVIOUS
  <2>2. x \in HookRec
    BY <2>1 DEF HookRec
  <2>3. x.stream = d.stream /\ x.frame = d.frame
    BY <2>1 DEF HookRec
  <2>4. x.old = d.old /\ x.refs = d.refs /\ x.pStdOut = "null"
    BY <2>1 DEF HookRec
  <2>5. x.isInstall = FALSE
    BY <2>1 DEF HookRec
  <2>6. Released(d, ok) = x
    BY <1>1, <2>1 DEF Released
  <2> QED BY <1>1, <2>2, <2>3, <2>4, <2>5, <2>6
<1>2. CASE ~ok
  <2>1. PICK x : x = [d EXCEPT !.pStdOut = "dangling"]
    OBVIOUS
  <2>2. x \in HookRec
    BY <2>1 DEF HookRec
  <2>3. x.stream = d.stream /\ x.frame = d.frame
    BY <2>1 DEF HookRec
  <2>4. x.old = d.old /\ x.refs = d.refs /\ x.pStdOut = "dangling"
    BY <2>1 DEF HookRec
  <2>5. x.isInstall = TRUE
    BY <2>1 DEF HookRec
  <2>6. Released(d, ok) = x
    BY <1>2, <2>1 DEF Released
  <2> QED BY <1>2, <2>2, <2>3, <2>4, <2>5, <2>6
<1> QED BY <1>1, <1>2

\* r is st with hook h uninstalled
Uninstalled(r, st, h, ok) ==
  /\ Sound(r) /\ Len(r.hook) = Len(st.hook)
  /\ r.sys = IF ok THEN [st.sys EXCEPT ![st.hook[h].stream] = Back(st, h)] ELSE st.sys
  /\ \A g \in 1..Len(st.hook) : Excess(r, g) = Excess(st, g)
  /\ \A g \in 1..Len(st.hook) : g # h => Like(r.hook[g], st.hook[g])
  /\ r.hook[h].stream = st.hook[h].stream /\ r.hook[h].frame = st.hook[h].frame
  /\ r.hook[h].pStdOut = IF ok THEN "null" ELSE "dangling"
  /\ r.hook[h].isInstall = ~ok
  /\ r.hook[h].old = IF ok THEN None ELSE st.hook[h].old

\* ScriptStdOutHook::uninstall of a hook that is installed.
LEMMA HookUninstallIs ==
  ASSUME NEW st, Sound(st), NEW h \in 1..Len(st.hook), NEW ok \in BOOLEAN,
         st.hook[h].isInstall, st.hook[h].pStdOut = "owned"
  PROVE  Uninstalled(HookUninstall(st, h, ok), st, h, ok)
<1>1. PICK m : m = IF ok THEN ObjectUninstall(st, h) ELSE st
  OBVIOUS
<1>2. /\ Sound(m) /\ Len(m.hook) = Len(st.hook)
      /\ m.sys = IF ok THEN [st.sys EXCEPT ![st.hook[h].stream] = Back(st, h)] ELSE st.sys
      /\ \A g \in 1..Len(st.hook) : g # h => Like(m.hook[g], st.hook[g])
      /\ m.hook[h].stream = st.hook[h].stream /\ m.hook[h].frame = st.hook[h].frame
      /\ m.hook[h].pStdOut = "owned" /\ m.hook[h].isInstall
      /\ m.hook[h].old = IF ok THEN None ELSE st.hook[h].old
  <2>1. CASE ok
    <3>1. m = ObjectUninstall(st, h)
      BY <1>1, <2>1
    <3>2. Restored(m, st, h)
      BY <3>1, ObjectUninstallIs
    <3> QED BY <2>1, <3>2 DEF Restored
  <2>2. CASE ~ok
    BY <1>1, <2>2 DEF Like
  <2> QED BY <2>1, <2>2
<1>3. \A g \in 1..Len(st.hook) : Excess(m, g) = Excess(st, g)
  <2>1. CASE ok
    <3>1. Restored(m, st, h)
      BY <1>1, <2>1, ObjectUninstallIs
    <3> QED BY <3>1 DEF Restored
  <2>2. CASE ~ok
    BY <1>1, <2>2
  <2> QED BY <2>1, <2>2
<1>4. PICK q : q = [m EXCEPT !.hook = DecRef(@, h)]
  OBVIOUS
<1>5. h \in 1..Len(m.hook)
  BY <1>2
<1>6. Sound(q) /\ Len(q.hook) = Len(m.hook) /\ q.sys = m.sys
  BY <1>2, <1>4, <1>5, ReleaseIs
<1>7. \A g \in 1..Len(m.hook) : Like(q.hook[g], m.hook[g])
  BY <1>2, <1>4, <1>5, ReleaseIs
<1>8. \A g \in 1..Len(m.hook) : g # h => Excess(q, g) = Excess(m, g)
  <2>1. \A g \in 1..Len(m.hook) : g # h => Excess([m EXCEPT !.hook = DecRef(@, h)], g) = Excess(m, g)
    BY <1>2, <1>5, ReleaseIs
  <2> QED BY <1>4, <2>1
<1>9. Excess(q, h) = Excess(m, h) - 1 /\ Excess(m, h) \in Int
  <2>1. Excess([m EXCEPT !.hook = DecRef(@, h)], h) = Excess(m, h) - 1 /\ Excess(m, h) \in Int
    BY <1>2, <1>5, ReleaseIs
  <2> QED BY <1>4, <2>1
<1>10. q \in [sys : [Stream -> Int], hook : Seq(HookRec)] /\ h \in 1..Len(q.hook) /\ q.hook[h] \in HookRec
  BY <1>5, <1>6 DEF Sound
<1>11. PICK x : x = Released(q.hook[h], ok)
  OBVIOUS
<1>12. /\ q.hook[h].stream = st.hook[h].stream /\ q.hook[h].frame = st.hook[h].frame
       /\ q.hook[h].pStdOut = "owned" /\ q.hook[h].isInstall
       /\ q.hook[h].old = IF ok THEN None ELSE st.hook[h].old
  BY <1>2, <1>5, <1>7 DEF Like
<1>13. x \in HookRec
  BY <1>10, <1>11, <1>12, ReleasedIs
<1>14. /\ x.stream = st.hook[h].stream /\ x.frame = st.hook[h].frame
       /\ x.old = q.hook[h].old /\ x.refs = q.hook[h].refs
       /\ x.pStdOut = IF ok THEN "null" ELSE "dangling"
  BY <1>10, <1>11, <1>12, ReleasedIs
<1>15. x.isInstall = ~ok
  BY <1>10, <1>11, <1>12, ReleasedIs
<1>16. PICK r : r = [q EXCEPT !.hook[h] = x]
  OBVIOUS
<1>17. HookUninstall(st, h, ok) = r
  BY <1>1, <1>4, <1>11, <1>16, Zenon DEF HookUninstall, Released
<1>18. r \in [sys : [Stream -> Int], hook : Seq(HookRec)] /\ r.sys = q.sys
  BY <1>10, <1>13, <1>16, PutHook
<1>19. Len(r.hook) = Len(q.hook) /\ r.hook[h] = x
  BY <1>10, <1>13, <1>16, PutHook
<1>20. \A g \in 1..Len(q.hook) : g # h => r.hook[g] = q.hook[g]
  BY <1>10, <1>13, <1>16, PutHook
<1>21. /\ Len(r.hook) = Len(q.hook) /\ r.sys = q.sys
       /\ \A g \in 1..Len(q.hook) : g # h => r.hook[g] = q.hook[g]
       /\ r.hook[h].old = q.hook[h].old /\ r.hook[h].refs = q.hook[h].refs
       /\ r.hook[h].pStdOut # "owned" /\ q.hook[h].pStdOut = "owned"
  BY <1>12, <1>14, <1>18, <1>19, <1>20
<1>22. Sound(r) /\ \A g \in 1..Len(q.hook) : g # h => Excess(r, g) = Excess(q, g)
  <2>1. Sound(r)
    BY <1>6, <1>10, <1>18, <1>21, HookReplaced
  <2>2. ASSUME NEW g \in 1..Len(q.hook), g # h PROVE Excess(r, g) = Excess(q, g)
    <3>1. q.hook \in Seq(HookRec) /\ r.hook \in Seq(HookRec)
      BY <1>10, <1>18
    <3>2. \A k \in 1..Len(q.hook) : r.hook[k].old = q.hook[k].old
      BY <1>21
    <3>3. r.hook[g].refs = q.hook[g].refs /\ r.hook[g].pStdOut = q.hook[g].pStdOut
      BY <1>21, <2>2
    <3> QED BY <1>21, <3>1, <3>2, <3>3, SameExcess
  <2> QED BY <2>1, <2>2
<1>23. Excess(r, h) = Excess(q, h) + 1
  BY <1>6, <1>10, <1>18, <1>21, HookReplaced
<1>24. \A g \in 1..Len(st.hook) : Excess(r, g) = Excess(st, g)
  <2> SUFFICES ASSUME NEW g \in 1..Len(st.hook) PROVE Excess(r, g) = Excess(st, g)
    OBVIOUS
  <2>1. CASE g = h
    BY <1>3, <1>9, <1>23, <2>1
  <2>2. CASE g # h
    BY <1>2, <1>3, <1>6, <1>8, <1>22, <2>2
  <2> QED BY <2>1, <2>2
<1>25. \A g \in 1..Len(st.hook) : g # h => Like(r.hook[g], st.hook[g])
  BY <1>2, <1>6, <1>7, <1>20 DEF Like
<1>26. Len(r.hook) = Len(st.hook) /\ r.sys = m.sys /\ r.hook[h] = x
  BY <1>2, <1>6, <1>18, <1>19
<1> QED BY <1>2, <1>12, <1>14, <1>15, <1>17, <1>22, <1>24, <1>25, <1>26 DEF Uninstalled

\* r is st with hook h destroyed
Deleted(r, st, h, ok) ==
  /\ Sound(r) /\ Len(r.hook) = Len(st.hook)
  /\ r.sys = IF ok /\ st.hook[h].isInstall THEN [st.sys EXCEPT ![st.hook[h].stream] = Back(st, h)]
             ELSE st.sys
  /\ \A g \in 1..Len(st.hook) : Excess(r, g) = Excess(st, g)
  /\ \A g \in 1..Len(st.hook) : g # h => Like(r.hook[g], st.hook[g])
  /\ r.hook[h].stream = st.hook[h].stream /\ r.hook[h].frame = st.hook[h].frame
  /\ ~r.hook[h].alive
  /\ r.hook[h].pStdOut = IF ~st.hook[h].isInstall THEN st.hook[h].pStdOut
                         ELSE IF ok THEN "null" ELSE "dangling"
  /\ r.hook[h].isInstall => st.hook[h].isInstall /\ ~ok
  /\ r.hook[h].old = IF ok /\ st.hook[h].isInstall THEN None ELSE st.hook[h].old

\* The destructor of a hook.
LEMMA DeleteHookIs ==
  ASSUME NEW st, Sound(st), NEW h \in 1..Len(st.hook), NEW ok \in BOOLEAN,
         st.hook[h].isInstall => st.hook[h].pStdOut = "owned"
  PROVE  Deleted(DeleteHook(st, h, ok), st, h, ok)
<1>1. PICK m : m = IF st.hook[h].isInstall THEN HookUninstall(st, h, ok) ELSE st
  OBVIOUS
<1>2. PICK r : r = [m EXCEPT !.hook[h] = [@ EXCEPT !.alive = FALSE, !.wbuffer = <<>>]]
  OBVIOUS
<1>3. DeleteHook(st, h, ok) = r
  BY <1>1, <1>2, Zenon DEF DeleteHook
<1>4. ASSUME Sound(m), h \in 1..Len(m.hook)
      PROVE  /\ Sound(r) /\ Len(r.hook) = Len(m.hook) /\ r.sys = m.sys
             /\ \A g \in 1..Len(m.hook) : Excess(r, g) = Excess(m, g)
             /\ \A g \in 1..Len(m.hook) : g # h => r.hook[g] = m.hook[g]
             /\ ~r.hook[h].alive
             /\ r.hook[h].stream = m.hook[h].stream /\ r.hook[h].frame = m.hook[h].frame
             /\ r.hook[h].pStdOut = m.hook[h].pStdOut /\ r.hook[h].isInstall = m.hook[h].isInstall
             /\ r.hook[h].old = m.hook[h].old
  <2>1. Sound(r)
    BY <1>2, <1>4, DieIs
  <2>2. Len(r.hook) = Len(m.hook)
    BY <1>2, <1>4, DieIs
  <2>3. r.sys = m.sys
    BY <1>2, <1>4, DieIs
  <2>4. ASSUME NEW g \in 1..Len(m.hook) PROVE Excess(r, g) = Excess(m, g)
    <3>1. \A k \in 1..Len(m.hook) :
            Excess([m EXCEPT !.hook[h] = [@ EXCEPT !.alive = FALSE, !.wbuffer = <<>>]], k) = Excess(m, k)
      BY <1>4, DieIs, Zenon
    <3> QED BY <1>2, <3>1, Zenon
  <2>5. \A g \in 1..Len(m.hook) : g # h => r.hook[g] = m.hook[g]
    BY <1>2, <1>4, DieIs
  <2>6. ~r.hook[h].alive
    BY <1>2, <1>4, DieIs
  <2>7. r.hook[h].stream = m.hook[h].stream
    BY <1>2, <1>4, DieIs
  <2>8. r.hook[h].frame = m.hook[h].frame
    BY <1>2, <1>4, DieIs
  <2>9. r.hook[h].pStdOut = m.hook[h].pStdOut
    BY <1>2, <1>4, DieIs
  <2>10. r.hook[h].isInstall = m.hook[h].isInstall
    BY <1>2, <1>4, DieIs
  <2>11. r.hook[h].old = m.hook[h].old
    BY <1>2, <1>4, DieIs
  <2> QED BY <2>1, <2>2, <2>3, <2>4, <2>5, <2>6, <2>7, <2>8, <2>9, <2>10, <2>11
<1>5. CASE st.hook[h].isInstall
  <2>1. Uninstalled(m, st, h, ok)
    BY <1>1, <1>5, HookUninstallIs
  <2>2. Sound(m) /\ h \in 1..Len(m.hook)
    BY <2>1 DEF Uninstalled
  <2>3. \A g \in 1..Len(st.hook) : g # h => Like(r.hook[g], st.hook[g])
    BY <1>4, <2>1, <2>2 DEF Uninstalled, Like
  <2>4. \A g \in 1..Len(st.hook) : Excess(r, g) = Excess(st, g)
    BY <1>4, <2>1, <2>2 DEF Uninstalled
  <2>5. ~r.hook[h].alive /\ (r.hook[h].isInstall => st.hook[h].isInstall /\ ~ok)
    BY <1>4, <1>5, <2>1, <2>2 DEF Uninstalled
  <2>6. /\ r.hook[h].stream = st.hook[h].stream /\ r.hook[h].frame = st.hook[h].frame
        /\ r.hook[h].pStdOut = IF ok THEN "null" ELSE "dangling"
        /\ r.hook[h].old = IF ok THEN None ELSE st.hook[h].old
    BY <1>4, <2>1, <2>2 DEF Uninstalled
  <2>7. /\ Sound(r) /\ Len(r.hook) = Len(st.hook)
        /\ r.sys = IF ok THEN [st.sys EXCEPT ![st.hook[h].stream] = Back(st, h)] ELSE st.sys
    BY <1>4, <2>1, <2>2 DEF Uninstalled
  <2> QED BY <1>3, <1>5, <2>3, <2>4, <2>5, <2>6, <2>7 DEF Deleted
<1>6. CASE ~st.hook[h].isInstall
  <2>1. m = st
    BY <1>1, <1>6
  <2>2. \A g \in 1..Len(st.hook) : g # h => Like(r.hook[g], st.hook[g])
    BY <1>4, <2>1 DEF Like
  <2> QED BY <1>3, <1>4, <1>6, <2>1, <2>2 DEF Deleted
<1> QED BY <1>5, <1>6

-----------------------------------------------------------------------------
\* r is st with a new hook for stream s and frame f
Made(r, st, s, f, ok) ==
  LET n == Len(st.hook) + 1
  IN  /\ Sound(r) /\ Len(r.hook) = n
      /\ r.sys = IF ok THEN [st.sys EXCEPT ![s] = n] ELSE st.sys
      /\ \A g \in 1..Len(st.hook) : Excess(r, g) = Excess(st, g) /\ Like(r.hook[g], st.hook[g])
      /\ Excess(r, n) = 0
      /\ r.hook[n].stream = s /\ r.hook[n].frame = f /\ r.hook[n].alive /\ r.hook[n].wbuffer = <<>>
      /\ r.hook[n].pStdOut = "owned" /\ r.hook[n].isInstall = ok
      /\ r.hook[n].old = IF ok THEN st.sys[s] ELSE None

\* the hook that HookInstall makes
Fresh(s, f, ok) ==
  [stream |-> s, frame |-> f, alive |-> TRUE, refs |-> 1, pStdOut |-> "owned", isInstall |-> ok,
   wbuffer |-> <<>>, old |-> None]

\* new ScriptStdOutHook: only the hook refers to its object, and the object to none.
LEMMA NewHookIs ==
  ASSUME NEW st, Sound(st), NEW s \in Stream, NEW f \in Nat, NEW ok \in BOOLEAN
  PROVE  LET r == [st EXCEPT !.hook = Append(@, Fresh(s, f, ok))]
             n == Len(st.hook) + 1
         IN  /\ Sound(r) /\ Len(r.hook) = n /\ r.sys = st.sys /\ r.hook[n] = Fresh(s, f, ok)
             /\ \A g \in 1..Len(st.hook) : Excess(r, g) = Excess(st, g) /\ r.hook[g] = st.hook[g]
             /\ Excess(r, n) = 0
<1> DEFINE n == Len(st.hook) + 1
<1>1. st.hook \in Seq(HookRec) /\ st \in [sys : [Stream -> Int], hook : Seq(HookRec)] /\ n \in Nat
  BY DEF Sound
<1>2. PICK x : x = Fresh(s, f, ok)
  OBVIOUS
<1>3. x \in HookRec /\ x.old = None /\ x.refs = 1 /\ x.pStdOut = "owned"
  <2>1. <<>> \in Seq(Text)
    OBVIOUS
  <2> QED BY <1>2, <2>1 DEF HookRec, Fresh, None
<1>4. PICK t : t = Append(st.hook, x)
  OBVIOUS
<1>5. t \in Seq(HookRec) /\ Len(t) = n /\ t[n] = x /\ \A g \in 1..Len(st.hook) : t[g] = st.hook[g]
  BY <1>1, <1>3, <1>4
<1>6. PICK r : r = [st EXCEPT !.hook = t]
  OBVIOUS
<1>7. r.hook = t /\ r.sys = st.sys /\ r \in [sys : [Stream -> Int], hook : Seq(HookRec)]
  BY <1>1, <1>5, <1>6
<1>8. [st EXCEPT !.hook = Append(@, Fresh(s, f, ok))] = r
  BY <1>2, <1>4, <1>6
<1>9. \A g \in 1..Len(t) : g \in 1..Len(st.hook) \/ g = n
  BY <1>1, <1>5
<1>10. Sound(r)
  BY SMTT(30), <1>1, <1>3, <1>5, <1>7, <1>9 DEF Sound
<1>11. ASSUME NEW g \in 1..Len(st.hook) PROVE Excess(r, g) = Excess(st, g)
  <2>1. None # g
    BY DEF None
  <2>2. OldIn(t, g) = OldIn(st.hook, g)
    BY <1>1, <1>3, <1>5, <1>9, <2>1 DEF OldIn
  <2> QED BY <1>5, <1>7, <2>2 DEF Excess, Weight
<1>12. Excess(r, n) = 0
  <2>1. OldIn(t, n) = {}
    <3>1. n # None /\ n # Orig /\ n \notin 1..Len(st.hook)
      BY <1>1 DEF None, Orig
    <3>2. \A g \in 1..Len(t) : t[g].old # n
      BY <1>3, <1>5, <1>9, <3>1 DEF Sound
    <3> QED BY <3>2 DEF OldIn
  <2>2. st.sys["err"] # n /\ st.sys["out"] # n
    BY <1>1 DEF Sound, Stream, Orig, None
  <2>3. Weight(r, n) = 0 + 0 + 1 + 0
    BY <1>3, <1>5, <1>7, <2>1, <2>2, FS_EmptySet DEF Weight, In
  <2> QED BY <1>3, <1>5, <1>7, <2>3 DEF Excess
<1> QED BY <1>2, <1>5, <1>7, <1>8, <1>10, <1>11, <1>12

\* r is st with object h put before the one in sys
PutBefore(r, st, s, h) ==
  /\ Sound(r) /\ Len(r.hook) = Len(st.hook)
  /\ r.sys = [st.sys EXCEPT ![s] = h]
  /\ \A g \in 1..Len(st.hook) : Excess(r, g) = Excess(st, g)
  /\ \A g \in 1..Len(st.hook) : g # h => Like(r.hook[g], st.hook[g])
  /\ r.hook[h].stream = st.hook[h].stream /\ r.hook[h].frame = st.hook[h].frame
  /\ r.hook[h].alive = st.hook[h].alive /\ r.hook[h].wbuffer = st.hook[h].wbuffer
  /\ r.hook[h].pStdOut = st.hook[h].pStdOut /\ r.hook[h].isInstall = st.hook[h].isInstall
  /\ r.hook[h].old = st.sys[s]

\* ScriptStdOut::install keeps the object in sys and takes its place.
LEMMA ObjectInstallIs ==
  ASSUME NEW st, Sound(st), NEW s \in Stream, NEW h \in 1..Len(st.hook), st.hook[h].old = None
  PROVE  PutBefore(ObjectInstall(st, s, h), st, s, h)
<1>1. st.hook[h] \in HookRec /\ st.hook \in Seq(HookRec) /\ st \in [sys : [Stream -> Int], hook : Seq(HookRec)]
  BY DEF Sound
<1>2. PICK o : o = st.sys[s]
  OBVIOUS
<1>3. o \in {None, Orig} \cup (1..Len(st.hook)) /\ o \in Int
  BY <1>2 DEF Sound, Orig, None
<1>4. PICK d : d = IncRef(st.hook, o)
  OBVIOUS
<1>5. /\ d \in Seq(HookRec) /\ Len(d) = Len(st.hook)
      /\ \A g \in 1..Len(st.hook) : Like(d[g], st.hook[g]) /\ d[g].refs = st.hook[g].refs + In(g, o)
  <2>1. o \in {None, Orig} \cup (1..Len(st.hook))
    BY <1>3
  <2> QED BY <1>1, <1>4, <2>1, IncRefIs
<1>6. PICK t : t = [d EXCEPT ![h].old = o]
  OBVIOUS
<1>7. h \in 1..Len(d)
  BY <1>5
<1>8. /\ t \in Seq(HookRec) /\ Len(t) = Len(d)
      /\ \A g \in 1..Len(d) : g # h => t[g] = d[g]
      /\ t[h].stream = d[h].stream /\ t[h].frame = d[h].frame /\ t[h].alive = d[h].alive
      /\ t[h].pStdOut = d[h].pStdOut /\ t[h].isInstall = d[h].isInstall
      /\ t[h].wbuffer = d[h].wbuffer /\ t[h].refs = d[h].refs /\ t[h].old = o
  BY <1>3, <1>5, <1>6, <1>7, SetOld
<1>9. ASSUME NEW g
      PROVE  Cardinality(OldIn(t, g)) = Cardinality(OldIn(d, g)) + In(g, o) - In(g, d[h].old)
  <2>1. Cardinality(OldIn([d EXCEPT ![h].old = o], g))
          = Cardinality(OldIn(d, g)) + In(g, o) - In(g, d[h].old)
    BY <1>3, <1>5, <1>7, SetOld
  <2> QED BY <1>6, <2>1
<1>10. PICK q : q = [st EXCEPT !.hook = t]
  OBVIOUS
<1>11. q.hook = t /\ q.sys = st.sys /\ q \in [sys : [Stream -> Int], hook : Seq(HookRec)]
  BY <1>1, <1>8, <1>10
<1>12. ObjectInstall(st, s, h) = SetSys(q, s, h)
  BY <1>2, <1>4, <1>6, <1>10 DEF ObjectInstall
<1>13. \A g \in 1..Len(st.hook) : Excess(q, g) = Excess(st, g)
  <2> SUFFICES ASSUME NEW g \in 1..Len(st.hook) PROVE Excess(q, g) = Excess(st, g)
    OBVIOUS
  <2>1. PICK n : n = In(g, o)
    OBVIOUS
  <2>2. n \in Int /\ In(g, None) = 0
    BY <2>1, InIs DEF None
  <2>3. d[h].old = None
    BY <1>5 DEF Like
  <2>4. OldIn(d, g) = OldIn(st.hook, g)
    BY <1>1, <1>5, LikeOld
  <2>5. PICK c \in Nat : c = Cardinality(OldIn(st.hook, g))
    BY <1>1, OldCounted
  <2>6. Cardinality(OldIn(t, g)) = c + n
    <3>1. Cardinality(OldIn(t, g)) = c + n - 0
      BY <1>9, <2>1, <2>2, <2>3, <2>4, <2>5
    <3> QED BY <2>2, <2>5, <3>1
  <2>7. t[g].refs = st.hook[g].refs + n /\ t[g].pStdOut = st.hook[g].pStdOut
    BY <1>5, <1>8, <2>1 DEF Like
  <2>8. /\ Len(q.hook) = Len(st.hook) /\ q.hook[g].refs = st.hook[g].refs + n
        /\ q.hook[g].pStdOut = st.hook[g].pStdOut
        /\ Cardinality(OldIn(q.hook, g)) = Cardinality(OldIn(st.hook, g)) + n
    BY <1>5, <1>8, <1>11, <2>5, <2>6, <2>7
  <2> QED BY <1>11, <2>2, <2>8, TradeOld
<1>14. Sound(q)
  <2>1. \A g \in 1..Len(t) : t[g].old = IF g = h THEN o ELSE st.hook[g].old
    BY <1>5, <1>8 DEF Like
  <2> QED BY <1>3, <1>5, <1>8, <1>11, <2>1 DEF Sound
<1>15. h \in {None, Orig} \cup (1..Len(q.hook)) /\ Len(q.hook) = Len(st.hook)
  BY <1>5, <1>8, <1>11
<1>16. PICK r : r = SetSys(q, s, h)
  OBVIOUS
<1>17. SysSet(r, q, s, h)
  BY <1>14, <1>15, <1>16, SetSysIs
<1>18. Sound(r) /\ Len(r.hook) = Len(q.hook) /\ r.sys = [q.sys EXCEPT ![s] = h]
  BY <1>17 DEF SysSet
<1>19. \A g \in 1..Len(q.hook) : Like(r.hook[g], q.hook[g])
  BY <1>17 DEF SysSet
<1>20. \A g \in 1..Len(q.hook) : Excess(r, g) = Excess(q, g)
  BY <1>17 DEF SysSet
<1>21. \A g \in 1..Len(st.hook) : Excess(r, g) = Excess(st, g)
  BY <1>13, <1>15, <1>20
<1>22. \A g \in 1..Len(st.hook) : g # h => Like(r.hook[g], st.hook[g])
  <2>1. \A g \in 1..Len(st.hook) : g # h => Like(t[g], st.hook[g])
    BY <1>5, <1>8
  <2>2. \A g \in 1..Len(st.hook) : Like(r.hook[g], t[g])
    BY <1>11, <1>15, <1>19
  <2> QED BY <2>1, <2>2 DEF Like
<1>23. /\ r.hook[h].stream = st.hook[h].stream /\ r.hook[h].frame = st.hook[h].frame
       /\ r.hook[h].alive = st.hook[h].alive /\ r.hook[h].wbuffer = st.hook[h].wbuffer
       /\ r.hook[h].pStdOut = st.hook[h].pStdOut /\ r.hook[h].isInstall = st.hook[h].isInstall
       /\ r.hook[h].old = st.sys[s]
  BY <1>2, <1>5, <1>8, <1>11, <1>15, <1>19 DEF Like
<1>24. r.sys = [st.sys EXCEPT ![s] = h] /\ Len(r.hook) = Len(st.hook)
  BY <1>11, <1>15, <1>18
<1> QED BY <1>12, <1>16, <1>18, <1>21, <1>22, <1>23, <1>24 DEF PutBefore

\* A new hook and its install().
LEMMA HookInstallIs ==
  ASSUME NEW st, Sound(st), NEW s \in Stream, NEW f \in Nat, NEW ok \in BOOLEAN
  PROVE  Made(HookInstall(st, s, f, ok), st, s, f, ok)
<1> DEFINE n == Len(st.hook) + 1
<1>1. PICK m : m = [st EXCEPT !.hook = Append(@, Fresh(s, f, ok))]
  OBVIOUS
<1>2. Sound(m) /\ Len(m.hook) = n
  BY <1>1, NewHookIs
<1>3. m.sys = st.sys /\ m.hook[n] = Fresh(s, f, ok)
  BY <1>1, NewHookIs
<1>4. \A g \in 1..Len(st.hook) : m.hook[g] = st.hook[g]
  BY <1>1, NewHookIs
<1>5. \A g \in 1..Len(st.hook) : Excess(m, g) = Excess(st, g)
  <2>1. ASSUME NEW g \in 1..Len(st.hook)
        PROVE  Excess([st EXCEPT !.hook = Append(@, Fresh(s, f, ok))], g) = Excess(st, g)
    BY NewHookIs
  <2> QED BY <1>1, <2>1
<1>6. Excess(m, n) = 0
  <2>1. Excess([st EXCEPT !.hook = Append(@, Fresh(s, f, ok))], n) = 0
    BY NewHookIs
  <2> QED BY <1>1, <2>1
<1>7. n \in 1..Len(m.hook) /\ n \notin 1..Len(st.hook) /\ \A g \in 1..Len(st.hook) : g \in 1..Len(m.hook) /\ g # n
  <2>1. st.hook \in Seq(HookRec)
    BY DEF Sound
  <2> QED BY <1>2, <2>1
<1>8. /\ m.hook[n].stream = s /\ m.hook[n].frame = f /\ m.hook[n].alive /\ m.hook[n].wbuffer = <<>>
      /\ m.hook[n].pStdOut = "owned" /\ m.hook[n].isInstall = ok /\ m.hook[n].old = None
  BY <1>3 DEF Fresh
<1>9. HookInstall(st, s, f, ok) = IF ok THEN ObjectInstall(m, s, n) ELSE m
  BY <1>1 DEF HookInstall, Fresh
<1> HIDE DEF n
<1>10. CASE ok
  <2>1. PICK r : r = ObjectInstall(m, s, n)
    OBVIOUS
  <2>2. PutBefore(r, m, s, n)
    BY <1>2, <1>7, <1>8, <2>1, ObjectInstallIs
  <2>3. Sound(r) /\ Len(r.hook) = n /\ r.sys = [st.sys EXCEPT ![s] = n]
    BY <1>2, <1>3, <2>2 DEF PutBefore
  <2>4. \A g \in 1..Len(st.hook) : Excess(r, g) = Excess(st, g)
    BY <1>5, <1>7, <2>2 DEF PutBefore
  <2>5. \A g \in 1..Len(st.hook) : Like(r.hook[g], st.hook[g])
    BY <1>4, <1>7, <2>2 DEF PutBefore
  <2>6. Excess(r, n) = 0
    BY <1>6, <1>7, <2>2 DEF PutBefore
  <2>7. /\ r.hook[n].stream = s /\ r.hook[n].frame = f /\ r.hook[n].alive /\ r.hook[n].wbuffer = <<>>
        /\ r.hook[n].pStdOut = "owned" /\ r.hook[n].isInstall = ok /\ r.hook[n].old = st.sys[s]
    BY <1>3, <1>8, <2>2 DEF PutBefore
  <2> QED BY <1>9, <1>10, <2>1, <2>3, <2>4, <2>5, <2>6, <2>7 DEF Made, n
<1>11. CASE ~ok
  <2>1. \A g \in 1..Len(st.hook) : Like(m.hook[g], st.hook[g])
    BY <1>4 DEF Like
  <2> QED BY <1>2, <1>3, <1>5, <1>6, <1>8, <1>9, <1>11, <2>1 DEF Made, n
<1> QED BY <1>10, <1>11

-----------------------------------------------------------------------------
(* Writes *)

FrameRec ==
  [buffered : BOOLEAN, hooks : Seq(Int), before : [Stream -> Int],
   buffer : [Stream -> Seq(Text)], wrote : [Stream -> Seq(Text)]]

\* what a write works on: the hooks, the calls and whether it reached a dead hook
Writing(v) == v \in [hook : Seq(HookRec), frames : Seq(FrameRec), fault : BOOLEAN]

\* two hooks that differ at most in the line that is put together, and two calls that
\* differ at most in what was written
SameHook(a, b) ==
  /\ a.stream = b.stream /\ a.frame = b.frame /\ a.alive = b.alive /\ a.pStdOut = b.pStdOut
  /\ a.isInstall = b.isInstall /\ a.old = b.old /\ a.refs = b.refs
SameCall(a, b) == a.buffered = b.buffered /\ a.hooks = b.hooks /\ a.before = b.before

\* The write is handed to a living hook.
Reaches(v, o) == o \notin {Orig, None} /\ ~v.fault /\ v.hook[o].alive

\* what the call of that hook gets for stream s
Flushed(v, o, text) == OnWrite(v.hook[o].wbuffer, text).flushed

\* w is v after text was written to object o, meant for stream s
Wrote(w, v, s, o, text) ==
  /\ Writing(w) /\ Len(w.hook) = Len(v.hook) /\ Len(w.frames) = Len(v.frames)
  /\ \A g \in 1..Len(v.hook) : SameHook(w.hook[g], v.hook[g])
  /\ \A g \in 1..Len(v.hook) :
       w.hook[g].wbuffer = IF g = o /\ Reaches(v, o) THEN OnWrite(v.hook[o].wbuffer, text).line
                           ELSE v.hook[g].wbuffer
  /\ \A i \in 1..Len(v.frames) : SameCall(w.frames[i], v.frames[i])
  /\ \A i \in 1..Len(v.frames) :
       w.frames[i].wrote = IF i = Asker(v.frames) THEN [v.frames[i].wrote EXCEPT ![s] = Append(@, text)]
                           ELSE v.frames[i].wrote
  /\ \A i \in 1..Len(v.frames) :
       w.frames[i].buffer = IF Reaches(v, o) /\ i = v.hook[o].frame
                            THEN [v.frames[i].buffer EXCEPT ![s] = @ \o Flushed(v, o, text)]
                            ELSE v.frames[i].buffer
  /\ w.fault => v.fault \/ (o \notin {Orig, None} /\ ~v.hook[o].alive)

\* Changing one call leaves the others.
LEMMA FrameSet ==
  ASSUME NEW fs \in Seq(FrameRec), NEW i \in 1..Len(fs), NEW x \in FrameRec
  PROVE  /\ [fs EXCEPT ![i] = x] \in Seq(FrameRec)
         /\ Len([fs EXCEPT ![i] = x]) = Len(fs)
         /\ [fs EXCEPT ![i] = x][i] = x
         /\ \A j \in 1..Len(fs) : j # i => [fs EXCEPT ![i] = x][j] = fs[j]
<1>1. \A j \in 1..Len(fs) : fs[j] \in FrameRec
  OBVIOUS
<1>2. [fs EXCEPT ![i] = x] = [j \in 1..Len(fs) |-> IF j = i THEN x ELSE fs[j]]
  OBVIOUS
<1> HIDE DEF FrameRec
<1> QED BY <1>1, <1>2

\* What a hook makes of a write is text.
LEMMA OnWriteTyped ==
  ASSUME NEW line \in Seq(Text), NEW text \in Text
  PROVE  OnWrite(line, text).line \in Seq(Text) /\ OnWrite(line, text).flushed \in Seq(Text)
<1>1. Append(line, text) \in Seq(Text) /\ <<>> \in Seq(Text)
  OBVIOUS
<1> QED BY <1>1 DEF OnWrite

\* t is the calls fs after text was counted as written in call i ...
Told(t, fs, i, s, text) ==
  /\ t \in Seq(FrameRec) /\ Len(t) = Len(fs)
  /\ \A j \in 1..Len(fs) : SameCall(t[j], fs[j]) /\ t[j].buffer = fs[j].buffer
  /\ \A j \in 1..Len(fs) : t[j].wrote = IF j = i THEN [fs[j].wrote EXCEPT ![s] = Append(@, text)]
                                        ELSE fs[j].wrote

\* What Python wrote is added to what the call's asker was told.
LEMMA AddWrote ==
  ASSUME NEW fs \in Seq(FrameRec), NEW i \in 1..Len(fs), NEW s \in Stream, NEW text \in Text
  PROVE  Told([fs EXCEPT ![i].wrote[s] = Append(@, text)], fs, i, s, text)
<1>1. fs[i] \in FrameRec
  OBVIOUS
<1>2. PICK u : u = [fs[i].wrote EXCEPT ![s] = Append(@, text)]
  OBVIOUS
<1>3. u \in [Stream -> Seq(Text)]
  <2>1. fs[i].wrote \in [Stream -> Seq(Text)]
    BY <1>1 DEF FrameRec
  <2>2. fs[i].wrote[s] \in Seq(Text)
    BY <2>1
  <2>3. Append(fs[i].wrote[s], text) \in Seq(Text)
    BY <2>2
  <2> QED BY <1>2, <2>1, <2>3
<1>4. PICK x : x = [fs[i] EXCEPT !.wrote = u]
  OBVIOUS
<1>5. x \in FrameRec
  BY <1>1, <1>3, <1>4 DEF FrameRec
<1>6. SameCall(x, fs[i]) /\ x.buffer = fs[i].buffer /\ x.wrote = u
  BY <1>1, <1>3, <1>4 DEF FrameRec, SameCall
<1>7. PICK t : t = [fs EXCEPT ![i] = x]
  OBVIOUS
<1>8. /\ t \in Seq(FrameRec) /\ Len(t) = Len(fs) /\ t[i] = x
      /\ \A j \in 1..Len(fs) : j # i => t[j] = fs[j]
  BY <1>5, <1>7, FrameSet
<1>9. [fs EXCEPT ![i].wrote[s] = Append(@, text)] = t
  BY <1>2, <1>4, <1>7
<1>10. Told(t, fs, i, s, text)
  <2>1. \A j \in 1..Len(fs) : SameCall(t[j], fs[j]) /\ t[j].buffer = fs[j].buffer
    BY <1>6, <1>8 DEF SameCall
  <2>2. \A j \in 1..Len(fs) : t[j].wrote = IF j = i THEN u ELSE fs[j].wrote
    BY <1>6, <1>8
  <2>3. \A j \in 1..Len(fs) : j = i => u = [fs[j].wrote EXCEPT ![s] = Append(@, text)]
    BY <1>2
  <2> QED BY <1>8, <2>1, <2>2, <2>3, Zenon DEF Told
<1> QED BY <1>9, <1>10

\* ... after more came into the buffer of call i ...
Kept(t, fs, i, s, more) ==
  /\ t \in Seq(FrameRec) /\ Len(t) = Len(fs)
  /\ \A j \in 1..Len(fs) : SameCall(t[j], fs[j]) /\ t[j].wrote = fs[j].wrote
  /\ \A j \in 1..Len(fs) : t[j].buffer = IF j = i THEN [fs[j].buffer EXCEPT ![s] = @ \o more]
                                         ELSE fs[j].buffer

\* What a hook flushes is added to the buffer of its call.
LEMMA AddBuffer ==
  ASSUME NEW fs \in Seq(FrameRec), NEW i \in 1..Len(fs), NEW s \in Stream, NEW more \in Seq(Text)
  PROVE  Kept([fs EXCEPT ![i].buffer[s] = @ \o more], fs, i, s, more)
<1>1. fs[i] \in FrameRec
  OBVIOUS
<1>2. PICK u : u = [fs[i].buffer EXCEPT ![s] = @ \o more]
  OBVIOUS
<1>3. u \in [Stream -> Seq(Text)]
  <2>1. fs[i].buffer \in [Stream -> Seq(Text)]
    BY <1>1 DEF FrameRec
  <2>2. fs[i].buffer[s] \in Seq(Text)
    BY <2>1
  <2>3. fs[i].buffer[s] \o more \in Seq(Text)
    BY <2>2
  <2> QED BY <1>2, <2>1, <2>3
<1>4. PICK x : x = [fs[i] EXCEPT !.buffer = u]
  OBVIOUS
<1>5. x \in FrameRec
  BY <1>1, <1>3, <1>4 DEF FrameRec
<1>6. SameCall(x, fs[i]) /\ x.wrote = fs[i].wrote /\ x.buffer = u
  BY <1>1, <1>3, <1>4 DEF FrameRec, SameCall
<1>7. PICK t : t = [fs EXCEPT ![i] = x]
  OBVIOUS
<1>8. /\ t \in Seq(FrameRec) /\ Len(t) = Len(fs) /\ t[i] = x
      /\ \A j \in 1..Len(fs) : j # i => t[j] = fs[j]
  BY <1>5, <1>7, FrameSet
<1>9. [fs EXCEPT ![i].buffer[s] = @ \o more] = t
  BY <1>2, <1>4, <1>7
<1>10. Kept(t, fs, i, s, more)
  <2>1. \A j \in 1..Len(fs) : SameCall(t[j], fs[j]) /\ t[j].wrote = fs[j].wrote
    BY <1>6, <1>8 DEF SameCall
  <2>2. \A j \in 1..Len(fs) : t[j].buffer = IF j = i THEN u ELSE fs[j].buffer
    BY <1>6, <1>8
  <2>3. \A j \in 1..Len(fs) : j = i => u = [fs[j].buffer EXCEPT ![s] = @ \o more]
    BY <1>2
  <2> QED BY <1>8, <2>1, <2>2, <2>3, Zenon DEF Kept
<1> QED BY <1>9, <1>10

\* ... and the hooks after line was put together in hook o.
Lined(t, hs, o, line) ==
  /\ t \in Seq(HookRec) /\ Len(t) = Len(hs)
  /\ \A g \in 1..Len(hs) : SameHook(t[g], hs[g])
  /\ \A g \in 1..Len(hs) : t[g].wbuffer = IF g = o THEN line ELSE hs[g].wbuffer

\* The line of one hook changes.
LEMMA SetLine ==
  ASSUME NEW hs \in Seq(HookRec), NEW o \in 1..Len(hs), NEW line \in Seq(Text)
  PROVE  Lined([hs EXCEPT ![o].wbuffer = line], hs, o, line)
<1>1. hs[o] \in HookRec
  OBVIOUS
<1>2. PICK x : x = [hs[o] EXCEPT !.wbuffer = line]
  OBVIOUS
<1>3. x \in HookRec
  BY <1>1, <1>2 DEF HookRec
<1>4. SameHook(x, hs[o]) /\ x.wbuffer = line
  BY <1>1, <1>2 DEF HookRec, SameHook
<1>5. PICK t : t = [hs EXCEPT ![o] = x]
  OBVIOUS
<1>6. /\ t \in Seq(HookRec) /\ Len(t) = Len(hs) /\ t[o] = x
      /\ \A g \in 1..Len(hs) : g # o => t[g] = hs[g]
  BY <1>3, <1>5, HookSet
<1>7. [hs EXCEPT ![o].wbuffer = line] = t
  BY <1>2, <1>5
<1>8. Lined(t, hs, o, line)
  <2>1. \A g \in 1..Len(hs) : SameHook(t[g], hs[g])
    BY <1>4, <1>6 DEF SameHook
  <2>2. \A g \in 1..Len(hs) : t[g].wbuffer = IF g = o THEN line ELSE hs[g].wbuffer
    BY <1>4, <1>6
  <2> QED BY <1>6, <2>1, <2>2 DEF Lined
<1> QED BY <1>7, <1>8

\* A nonempty set of positions has a last one.
LEMMA LastIn ==
  ASSUME NEW n \in Nat, NEW A \in SUBSET (1..n), A # {}
  PROVE  \E i \in A : \A j \in A : j =< i
<1> DEFINE R == OpToRel(<, Nat)
           D == {n - i : i \in A}
<1>1. IsWellFoundedOn(R, Nat)
  BY NatLessThanWellFounded
<1>2. \A x, y \in Nat : <<x, y>> \in R <=> x < y
  BY DEF OpToRel
<1> HIDE DEF R
<1>3. D \in SUBSET Nat /\ D # {}
  <2>1. \A i \in A : n - i \in Nat /\ n - i \in D
    OBVIOUS
  <2>2. \A d \in D : \E i \in A : d = n - i
    OBVIOUS
  <2> HIDE DEF D
  <2> QED BY <2>1, <2>2
<1>4. PICK d \in D : \A e \in D : <<e, d>> \notin R
  BY <1>1, <1>3, WFMin
<1>5. PICK i \in A : d = n - i
  BY <1>4
<1>6. ASSUME NEW j \in A PROVE j =< i
  <2>1. n - j \in D /\ n - j \in Nat /\ d \in Nat
    BY <1>3, <1>4
  <2>2. ~(n - j < d)
    BY <1>2, <1>4, <2>1, Zenon
  <2> QED BY <1>5, <2>1, <2>2
<1> QED BY <1>6

\* The asker is the innermost call with a buffer, if there is one.
AskerOf(fs) ==
  /\ Asker(fs) \in 0..Len(fs)
  /\ Asker(fs) = 0 => \A i \in 1..Len(fs) : ~fs[i].buffered
  /\ Asker(fs) # 0 => fs[Asker(fs)].buffered /\ \A j \in 1..Len(fs) : fs[j].buffered => j =< Asker(fs)

\* Asker is the innermost call whose output is buffered, or none.
LEMMA AskerIs ==
  ASSUME NEW fs \in Seq(FrameRec) PROVE AskerOf(fs)
<1> DEFINE A == {i \in DOMAIN fs : fs[i].buffered}
<1>1. DOMAIN fs = 1..Len(fs) /\ Len(fs) \in Nat
  OBVIOUS
<1>2. A \in SUBSET (1..Len(fs))
  BY <1>1
<1>3. \A i \in 1..Len(fs) : i \in A <=> fs[i].buffered
  BY <1>1
<1>4. Asker(fs) = IF A = {} THEN 0 ELSE CHOOSE i \in A : \A j \in A : j =< i
  BY DEF Asker
<1> HIDE DEF A
<1>5. CASE A = {}
  BY <1>1, <1>3, <1>4, <1>5 DEF AskerOf
<1>6. CASE A # {}
  <2>1. \E i \in A : \A j \in A : j =< i
    BY <1>1, <1>2, <1>6, LastIn
  <2>2. Asker(fs) \in A /\ \A j \in A : j =< Asker(fs)
    BY <1>4, <1>6, <2>1
  <2>3. Asker(fs) \in 1..Len(fs)
    BY <1>2, <2>2
  <2> QED BY <1>1, <1>3, <2>2, <2>3 DEF AskerOf
<1> QED BY <1>5, <1>6

\* A call beyond the last one is told nothing: the write changes no call.
LEMMA NoCall ==
  ASSUME NEW fs \in Seq(FrameRec), NEW i, i \notin 1..Len(fs), NEW x
  PROVE  [fs EXCEPT ![i] = x] = fs
OBVIOUS

\* A write changes what was written in the asker, the line of the hook it reaches and
\* the buffer of the call that this hook belongs to.
LEMMA WriteToIs ==
  ASSUME NEW v, Writing(v), NEW s \in Stream, NEW o \in {None, Orig} \cup (1..Len(v.hook)),
         NEW text \in Text
  PROVE  Wrote(WriteTo(v, s, o, text), v, s, o, text)
<1>1. /\ v \in [hook : Seq(HookRec), frames : Seq(FrameRec), fault : BOOLEAN]
      /\ v.hook \in Seq(HookRec) /\ v.frames \in Seq(FrameRec) /\ v.fault \in BOOLEAN
  BY DEF Writing
<1> PICK k : k = Asker(v.frames)
  OBVIOUS
<1>10. k \in 0..Len(v.frames)
  BY <1>1, AskerIs DEF AskerOf
<1> DEFINE Frames(i) == [v.frames EXCEPT ![i].wrote[s] = Append(@, text)]
<1>2. PICK hf : hf = IF k = 0 THEN v.frames ELSE Frames(k)
  OBVIOUS
<1>3. Told(hf, v.frames, k, s, text)
  <2>1. CASE k = 0
    BY <1>1, <1>2, <2>1 DEF Told, SameCall
  <2>2. CASE k # 0
    <3>1. k \in 1..Len(v.frames)
      BY <1>10, <2>2
    <3>2. Told(Frames(k), v.frames, k, s, text)
      BY <1>1, <3>1, AddWrote
    <3> QED BY <1>2, <2>2, <3>2
  <2> QED BY <2>1, <2>2
<1>4. PICK heard : heard = IF k = 0 THEN v ELSE [v EXCEPT !.frames[k].wrote[s] = Append(@, text)]
  OBVIOUS
<1>5. heard.frames = hf /\ heard.hook = v.hook /\ heard.fault = v.fault /\ Writing(heard)
  <2>1. hf \in Seq(FrameRec)
    BY <1>3 DEF Told
  <2>2. CASE k = 0
    BY <1>2, <1>4, <2>2
  <2>3. CASE k # 0
    <3>1. heard = [v EXCEPT !.frames = hf]
      BY <1>2, <1>4, <2>3, Zenon
    <3> QED BY <1>1, <2>1, <3>1 DEF Writing
  <2> QED BY <2>2, <2>3
<1> HIDE DEF Frames
<1>6. CASE o \in {Orig, None} \/ v.fault
  <2>1. WriteTo(v, s, o, text) = heard
    BY <1>4, <1>6, Zenon DEF WriteTo
  <2>2. ~Reaches(v, o)
    BY <1>6 DEF Reaches
  <2>3. Wrote(heard, v, s, o, text)
    BY <1>3, <1>5, <2>2 DEF Wrote, Told, SameHook
  <2> QED BY <2>1, <2>3
<1>7. CASE o \notin {Orig, None} /\ ~v.fault /\ ~v.hook[o].alive
  <2>1. PICK w : w = [heard EXCEPT !.fault = TRUE]
    OBVIOUS
  <2>2. WriteTo(v, s, o, text) = w
    BY <1>4, <1>7, <2>1, Zenon DEF WriteTo
  <2>3. ~Reaches(v, o)
    BY <1>7 DEF Reaches
  <2>4. Writing(w) /\ w.hook = v.hook /\ w.frames = hf
    BY <1>5, <2>1 DEF Writing
  <2>5. Wrote(w, v, s, o, text)
    BY <1>3, <1>7, <2>3, <2>4 DEF Wrote, Told, SameHook
  <2> QED BY <2>2, <2>5
<1>8. CASE o \notin {Orig, None} /\ ~v.fault /\ v.hook[o].alive
  <2>1. o \in 1..Len(v.hook) /\ Reaches(v, o) /\ v.hook[o] \in HookRec
    BY <1>1, <1>8 DEF Reaches
  <2>2. PICK r : r = OnWrite(v.hook[o].wbuffer, text)
    OBVIOUS
  <2>3. r.line \in Seq(Text) /\ r.flushed \in Seq(Text)
    <3>1. v.hook[o].wbuffer \in Seq(Text)
      BY <2>1 DEF HookRec
    <3> QED BY <2>2, <3>1, OnWriteTyped
  <2>4. PICK f : f = v.hook[o].frame
    OBVIOUS
  <2>5. f \in Nat
    BY <2>1, <2>4 DEF HookRec
  <2>6. PICK kh : kh = [v.hook EXCEPT ![o].wbuffer = r.line]
    OBVIOUS
  <2>7. Lined(kh, v.hook, o, r.line)
    BY <1>1, <2>1, <2>3, <2>6, SetLine
  <2>8. PICK kf : kf = IF f = 0 THEN hf ELSE [hf EXCEPT ![f].buffer[s] = @ \o r.flushed]
    OBVIOUS
  <2>9. Kept(kf, hf, f, s, r.flushed)
    <3>1. hf \in Seq(FrameRec)
      BY <1>3 DEF Told
    <3>2. CASE f \in 1..Len(hf)
      <4>1. Kept([hf EXCEPT ![f].buffer[s] = @ \o r.flushed], hf, f, s, r.flushed)
        BY <2>3, <3>1, <3>2, AddBuffer
      <4> QED BY <2>8, <3>2, <4>1
    <3>3. CASE f \notin 1..Len(hf)
      <4>1. PICK x : x = [hf[f] EXCEPT !.buffer[s] = @ \o r.flushed]
        OBVIOUS
      <4>2. [hf EXCEPT ![f] = x] = hf
        BY <3>1, <3>3, NoCall
      <4>3. kf = hf
        BY <2>8, <4>1, <4>2
      <4> QED BY <3>1, <3>3, <4>3 DEF Kept, SameCall
    <3> QED BY <3>2, <3>3
  <2>10. PICK kept : kept = [heard EXCEPT !.hook[o].wbuffer = r.line]
    OBVIOUS
  <2>11. kept = [heard EXCEPT !.hook = kh]
    BY <1>5, <2>6, <2>10, Zenon
  <2>12. kept.hook = kh /\ kept.frames = hf /\ kept.fault = v.fault /\ Writing(kept)
    BY <1>5, <2>7, <2>11 DEF Writing, Lined
  <2>13. PICK w : w = IF f = 0 THEN kept ELSE [kept EXCEPT !.frames[f].buffer[s] = @ \o r.flushed]
    OBVIOUS
  <2>14. WriteTo(v, s, o, text) = w
    <3>1. ~(o \in {Orig, None} \/ v.fault) /\ v.hook[o].alive
      BY <1>8
    <3>2. CASE f = 0
      BY <1>4, <2>2, <2>4, <2>10, <2>13, <3>1, <3>2, Zenon DEF WriteTo
    <3>3. CASE f # 0
      <4>1. WriteTo(v, s, o, text) = [kept EXCEPT !.frames[f].buffer[s] = @ \o r.flushed]
        BY <1>4, <2>2, <2>4, <2>10, <3>1, <3>3 DEF WriteTo
      <4> QED BY <2>13, <3>3, <4>1, Zenon
    <3> QED BY <3>2, <3>3
  <2>15. w.hook = kh /\ w.frames = kf /\ w.fault = v.fault /\ Writing(w)
    <3>1. CASE f = 0
      BY <2>8, <2>12, <2>13, <3>1
    <3>2. CASE f # 0
      <4>1. w = [kept EXCEPT !.frames = kf]
        BY <2>8, <2>12, <2>13, <3>2, Zenon
      <4>2. kf \in Seq(FrameRec)
        BY <2>9 DEF Kept
      <4> QED BY <2>12, <4>1, <4>2 DEF Writing
    <3> QED BY <3>1, <3>2
  <2>16. Wrote(w, v, s, o, text)
    <3>1. Len(w.hook) = Len(v.hook) /\ \A g \in 1..Len(v.hook) : SameHook(w.hook[g], v.hook[g])
      BY <2>7, <2>15 DEF Lined
    <3>2. \A g \in 1..Len(v.hook) :
            w.hook[g].wbuffer = IF g = o /\ Reaches(v, o) THEN OnWrite(v.hook[o].wbuffer, text).line
                                ELSE v.hook[g].wbuffer
      BY <2>1, <2>2, <2>7, <2>15 DEF Lined
    <3>3. Len(w.frames) = Len(v.frames) /\ \A i \in 1..Len(v.frames) : SameCall(w.frames[i], v.frames[i])
      BY <1>3, <2>9, <2>15 DEF Told, Kept, SameCall
    <3>4. \A i \in 1..Len(v.frames) :
            w.frames[i].wrote = IF i = k THEN [v.frames[i].wrote EXCEPT ![s] = Append(@, text)]
                                ELSE v.frames[i].wrote
      BY <1>3, <2>9, <2>15 DEF Told, Kept
    <3>5. \A i \in 1..Len(v.frames) :
            w.frames[i].buffer = IF Reaches(v, o) /\ i = v.hook[o].frame
                                 THEN [v.frames[i].buffer EXCEPT ![s] = @ \o Flushed(v, o, text)]
                                 ELSE v.frames[i].buffer
      BY <1>3, <2>1, <2>2, <2>4, <2>9, <2>15 DEF Told, Kept, Flushed
    <3> QED BY <2>15, <3>1, <3>2, <3>3, <3>4, <3>5 DEF Wrote
  <2> QED BY <2>14, <2>16
<1>9. v.fault \in BOOLEAN
  BY <1>1
<1> QED BY <1>6, <1>7, <1>8

-----------------------------------------------------------------------------
(* The operations of Script, in terms of what they make and delete *)

\* The values that the variables take: sys holds objects that exist, so do the hooks, and
\* a hook counts as the keeper of an object only while it has one.
Typing ==
  /\ Sound(State) /\ frames \in Seq(FrameRec)
  /\ saved \in {None} \cup Hooks
  /\ error \in BOOLEAN /\ failed \in BOOLEAN /\ touched \in BOOLEAN /\ fault \in BOOLEAN

\* The state is what an operation returned.
LEMMA StateIs ==
  ASSUME NEW st, Sound(st), NEW x, NEW y, x = st.sys, y = st.hook
  PROVE  [sys |-> x, hook |-> y] = st
BY DEF Sound

\* Deleting a hook that is not installed is setting alive, as long as it has no line.
LEMMA NotAlive ==
  ASSUME NEW x \in HookRec, NEW b \in BOOLEAN
  PROVE  /\ b \/ ~x.alive => [x EXCEPT !.alive = @ /\ b] = x
         /\ ~b => [x EXCEPT !.alive = @ /\ b] = [x EXCEPT !.alive = FALSE]
<1>1. x.alive \in BOOLEAN
  BY DEF HookRec
<1>2. CASE b \/ ~x.alive
  <2>1. (x.alive /\ b) = x.alive
    BY <1>1, <1>2
  <2>2. [x EXCEPT !.alive = @ /\ b] = [x EXCEPT !.alive = @]
    BY <2>1, Zenon
  <2>3. [x EXCEPT !.alive = @] = x
    BY DEF HookRec
  <2> QED BY <2>2, <2>3
<1>3. ~b => [x EXCEPT !.alive = @ /\ b] = [x EXCEPT !.alive = FALSE]
  <2>1. ~b => (x.alive /\ b) = FALSE
    BY <1>1
  <2> QED BY <2>1, Zenon
<1> QED BY <1>2, <1>3

\* Writes leave the hooks their objects and the calls their hooks.
After(w, v) ==
  /\ Writing(w) /\ Len(w.hook) = Len(v.hook) /\ Len(w.frames) = Len(v.frames)
  /\ \A g \in 1..Len(v.hook) : SameHook(w.hook[g], v.hook[g])
  /\ \A i \in 1..Len(v.frames) : SameCall(w.frames[i], v.frames[i])

\* v and later w are what PyErr_Print finds and leaves, with o in sys.stderr
Printed(w, v, o) ==
  \E p : Wrote(p, v, "err", o, "text") /\ Wrote(w, p, "err", o, "newline")

\* Printing an exception is writing.
LEMMA PrintIs ==
  ASSUME NEW v, Writing(v), NEW o \in {None, Orig} \cup (1..Len(v.hook))
  PROVE  Printed(PrintError(v, o), v, o) /\ After(PrintError(v, o), v)
<1>1. PICK p : p = WriteTo(v, "err", o, "text")
  OBVIOUS
<1>2. Wrote(p, v, "err", o, "text")
  BY <1>1, WriteToIs DEF Text, Stream
<1>3. Writing(p) /\ Len(p.hook) = Len(v.hook) /\ Len(p.frames) = Len(v.frames)
  BY <1>2 DEF Wrote
<1>4. PICK w : w = WriteTo(p, "err", o, "newline")
  OBVIOUS
<1>5. Wrote(w, p, "err", o, "newline")
  BY <1>3, <1>4, WriteToIs DEF Text, Stream
<1>6. Writing(w) /\ Len(w.hook) = Len(v.hook) /\ Len(w.frames) = Len(v.frames)
  BY <1>3, <1>5 DEF Wrote
<1>7. \A g \in 1..Len(v.hook) : SameHook(w.hook[g], v.hook[g])
  BY <1>2, <1>3, <1>5 DEF Wrote, SameHook
<1>8. \A i \in 1..Len(v.frames) : SameCall(w.frames[i], v.frames[i])
  BY <1>2, <1>3, <1>5 DEF Wrote, SameCall
<1>9. PrintError(v, o) = w
  BY <1>1, <1>4 DEF PrintError
<1> QED BY <1>2, <1>5, <1>6, <1>7, <1>8, <1>9 DEF Printed, After

\* Hooks that differ in the lines they put together refer to the same objects.
LEMMA SameSound ==
  ASSUME NEW st, Sound(st), NEW hs \in Seq(HookRec), Len(hs) = Len(st.hook),
         \A g \in 1..Len(hs) : SameHook(hs[g], st.hook[g])
  PROVE  /\ Sound([sys |-> st.sys, hook |-> hs])
         /\ \A o \in 1..Len(hs) : Excess([sys |-> st.sys, hook |-> hs], o) = Excess(st, o)
<1>1. st.hook \in Seq(HookRec) /\ st.sys \in [Stream -> Int]
  BY DEF Sound
<1>2. PICK r : r = [sys |-> st.sys, hook |-> hs]
  OBVIOUS
<1>3. r.sys = st.sys /\ r.hook = hs /\ r \in [sys : [Stream -> Int], hook : Seq(HookRec)]
  BY <1>1, <1>2
<1>4. \A g \in 1..Len(hs) : /\ r.hook[g].old = st.hook[g].old /\ r.hook[g].refs = st.hook[g].refs
                            /\ r.hook[g].pStdOut = st.hook[g].pStdOut
  BY <1>3 DEF SameHook
<1>5. Sound(r)
  BY <1>1, <1>3, <1>4 DEF Sound
<1>6. \A o \in 1..Len(hs) : Excess(r, o) = Excess(st, o)
  BY <1>1, <1>3, <1>4, SameExcess
<1> QED BY <1>2, <1>5, <1>6

\* A write leaves the streams and the references alone.
LEMMA AfterSound ==
  ASSUME Typing, NEW w, After(w, Written)
  PROVE  /\ Sound([sys |-> sys, hook |-> w.hook])
         /\ \A o \in Hooks : Excess([sys |-> sys, hook |-> w.hook], o) = Excess(State, o)
<1>1. Sound(State) /\ State.hook = hook /\ State.sys = sys
  BY DEF Typing, State
<1>2. w.hook \in Seq(HookRec) /\ Len(w.hook) = Len(hook) /\ \A g \in 1..Len(w.hook) : SameHook(w.hook[g], hook[g])
  BY DEF After, Writing, Written
<1> QED BY <1>1, <1>2, SameSound DEF Hooks

\* Script::install: what it made, and what it deleted again
InstallDone(okErr, okOut, okUndo) ==
  \E a, b :
    /\ Made(a, State, "err", 0, okErr)
    /\ IF okErr THEN Made(b, a, "out", 0, okOut) ELSE b = a
    /\ IF okErr /\ okOut THEN State' = b /\ fault' = fault
       ELSE \E u, d, w :
              /\ Deleted(u, b, Len(hook) + 1, okUndo)
              /\ IF okErr THEN Deleted(d, u, Len(hook) + 2, TRUE) ELSE d = u
              /\ After(w, [hook |-> d.hook, frames |-> frames, fault |-> fault])
              /\ State' = [sys |-> d.sys, hook |-> w.hook] /\ fault' = w.fault

\* Script::install makes one hook or two; when one of them cannot be installed it deletes
\* them and prints the exception.
LEMMA InstallIs ==
  ASSUME Typing, NEW okErr \in BOOLEAN, NEW okOut \in BOOLEAN, NEW okUndo \in BOOLEAN,
         Install(okErr, okOut, okUndo)
  PROVE  InstallDone(okErr, okOut, okUndo)
<1> DEFINE e == Len(hook) + 1
<1>1. Sound(State) /\ State.hook = hook /\ State.sys = sys /\ Len(hook) \in Nat
  <2>1. hook \in Seq(HookRec)
    BY DEF Typing, Sound, State
  <2> QED BY <2>1 DEF Typing, State
<1>2. PICK a : a = HookInstall(State, "err", 0, okErr)
  OBVIOUS
<1>3. Made(a, State, "err", 0, okErr)
  BY <1>1, <1>2, HookInstallIs DEF Stream
<1>4. Sound(a) /\ Len(a.hook) = e /\ a.hook \in Seq(HookRec)
  BY <1>1, <1>3 DEF Made, Sound
<1>5. PICK b : b = IF okErr THEN HookInstall(a, "out", 0, okOut) ELSE a
  OBVIOUS
<1>6. okErr => Made(b, a, "out", 0, okOut)
  BY <1>4, <1>5, HookInstallIs DEF Stream
<1>7. Sound(b) /\ Len(b.hook) = IF okErr THEN e + 1 ELSE e
  BY <1>4, <1>5, <1>6 DEF Made
<1>8. b.hook[e].isInstall => b.hook[e].pStdOut = "owned"
  <2>1. a.hook[e].isInstall => a.hook[e].pStdOut = "owned"
    BY <1>1, <1>3 DEF Made, Sound
  <2>2. CASE okErr
    BY <1>1, <1>4, <1>6, <2>1, <2>2 DEF Made, Like
  <2>3. CASE ~okErr
    BY <1>5, <2>1, <2>3
  <2> QED BY <2>2, <2>3
<1>9. PICK u : u = DeleteHook(b, e, okUndo)
  OBVIOUS
<1>10. Deleted(u, b, e, okUndo)
  <2>1. e \in 1..Len(b.hook)
    BY <1>1, <1>7
  <2> HIDE DEF e
  <2> QED BY <1>7, <1>8, <1>9, <2>1, DeleteHookIs
<1>11. CASE okErr /\ okOut
  <2>1. sys' = b.sys /\ hook' = b.hook /\ fault' = fault
    BY <1>2, <1>5, <1>11 DEF Install
  <2>2. State' = b
    BY <1>7, <2>1, StateIs DEF State
  <2> QED BY <1>3, <1>5, <1>6, <1>11, <2>1, <2>2 DEF InstallDone
<1>12. CASE ~(okErr /\ okOut)
  <2> DEFINE t == [h \in DOMAIN u.hook |-> [u.hook[h] EXCEPT !.alive = @ /\ h \notin {e, e + 1}]]
  <2> DEFINE left == [sys |-> u.sys, hook |-> t]
             told == [hook |-> t, frames |-> frames, fault |-> fault]
  <2>1. /\ sys' = u.sys /\ hook' = PrintError(told, u.sys["err"]).hook
        /\ fault' = PrintError(told, u.sys["err"]).fault
    <3>1. [Written EXCEPT !.hook = t] = told
      BY DEF Written
    <3> QED BY <1>2, <1>5, <1>9, <1>12, <3>1 DEF Install
  <2>2. Sound(u) /\ u.hook \in Seq(HookRec) /\ Len(u.hook) = Len(b.hook) /\ ~u.hook[e].alive
    BY <1>10 DEF Deleted, Sound
  <2>3. \A h \in DOMAIN u.hook : h # e + 1 => [u.hook[h] EXCEPT !.alive = @ /\ h \notin {e, e + 1}] = u.hook[h]
    <3>1. SUFFICES ASSUME NEW h \in DOMAIN u.hook, h # e + 1
                   PROVE  [u.hook[h] EXCEPT !.alive = @ /\ h \notin {e, e + 1}] = u.hook[h]
      OBVIOUS
    <3>2. PICK x : x = u.hook[h]
      OBVIOUS
    <3>3. PICK c \in BOOLEAN : c = (h \notin {e, e + 1})
      OBVIOUS
    <3>4. x \in HookRec /\ (c \/ ~x.alive)
      <4>1. h = e \/ c
        BY <3>1, <3>3
      <4>2. x \in HookRec /\ (h = e => ~x.alive)
        <5> HIDE DEF e
        <5> QED BY <2>2, <3>1, <3>2
      <4> QED BY <4>1, <4>2
    <3> QED BY <3>2, <3>3, <3>4, NotAlive
  <2>4. ASSUME ~okErr PROVE left = u /\ Sound(left)
    <3>1. t = u.hook
      <4>1. e + 1 \notin DOMAIN u.hook
        BY <1>1, <1>7, <2>2, <2>4
      <4>2. \A h \in DOMAIN u.hook : t[h] = u.hook[h]
        BY <2>3, <4>1
      <4>3. DOMAIN t = DOMAIN u.hook /\ t = [h \in DOMAIN t |-> t[h]]
        OBVIOUS
      <4>4. u.hook = [h \in DOMAIN u.hook |-> u.hook[h]]
        BY <2>2
      <4> HIDE DEF t
      <4> QED BY <4>2, <4>3, <4>4
    <3>2. left = u
      BY <2>2, <3>1, StateIs
    <3> HIDE DEF left
    <3> QED BY <2>2, <3>2
  <2>5. ASSUME okErr, ~okOut PROVE Deleted(left, u, Len(hook) + 2, TRUE) /\ Sound(left)
    <3> DEFINE o == e + 1
    <3>1. o \in 1..Len(u.hook) /\ Len(u.hook) = o /\ o # e /\ e \in 1..Len(b.hook)
      BY <1>1, <1>7, <2>2, <2>5
    <3>2. /\ u.hook[o].wbuffer = <<>> /\ ~u.hook[o].isInstall /\ u.hook[o] \in HookRec
      <4>1. /\ b.hook[o].wbuffer = <<>> /\ ~b.hook[o].isInstall
        BY <1>4, <1>6, <2>5 DEF Made
      <4>2. Like(u.hook[o], b.hook[o])
        BY <1>7, <1>10, <2>2, <3>1 DEF Deleted
      <4> QED BY <2>2, <3>1, <4>1, <4>2 DEF Like
    <3>3. DeleteHook(u, o, TRUE) = [u EXCEPT !.hook[o] = [@ EXCEPT !.alive = FALSE, !.wbuffer = <<>>]]
      BY <3>2, Zenon DEF DeleteHook
    <3>4. PICK x : x = [u.hook[o] EXCEPT !.alive = FALSE, !.wbuffer = <<>>]
      OBVIOUS
    <3>5. [u.hook[o] EXCEPT !.alive = FALSE] = x
      BY <3>2, <3>4 DEF HookRec
    <3>6. [u.hook[o] EXCEPT !.alive = @ /\ o \notin {e, e + 1}] = x
      <4>1. (o \notin {e, e + 1}) = FALSE
        OBVIOUS
      <4>2. [u.hook[o] EXCEPT !.alive = @ /\ FALSE] = [u.hook[o] EXCEPT !.alive = FALSE]
        BY <3>2, NotAlive
      <4> HIDE DEF o, e
      <4> QED BY <3>5, <4>1, <4>2
    <3>7. t = [u.hook EXCEPT ![o] = x]
      <4>1. \A h \in DOMAIN u.hook : h # o => t[h] = u.hook[h]
        BY <2>3
      <4>2. t[o] = x
        BY <3>1, <3>6
      <4>3. DOMAIN t = DOMAIN u.hook /\ t = [h \in DOMAIN t |-> t[h]]
        OBVIOUS
      <4> HIDE DEF t, o
      <4> QED BY <4>1, <4>2, <4>3, <3>1
    <3>8. PICK d : d = [u EXCEPT !.hook[o] = x]
      OBVIOUS
    <3>9. d.sys = u.sys /\ d.hook = t
      <4> HIDE DEF t, o
      <4> QED BY <2>2, <3>7, <3>8 DEF Sound
    <3>10. DeleteHook(u, o, TRUE) = d
      BY <3>3, <3>4, <3>8, Zenon
    <3>11. Deleted(d, u, o, TRUE)
      BY <2>2, <3>1, <3>2, <3>10, DeleteHookIs
    <3>12. Sound(d)
      BY <3>11 DEF Deleted
    <3>13. left = d
      BY <3>9, <3>12, StateIs
    <3>14. Deleted(left, u, Len(hook) + 2, TRUE)
      <4>1. o = Len(hook) + 2
        BY <1>1
      <4> HIDE DEF o, left
      <4> QED BY <3>11, <3>13, <4>1
    <3>15. Sound(left)
      BY <3>12, <3>13
    <3> QED BY <3>14, <3>15
  <2>7. (IF okErr THEN Deleted(left, u, Len(hook) + 2, TRUE) ELSE left = u) /\ Sound(left)
    <3> HIDE DEF left
    <3> QED BY <1>12, <2>4, <2>5
  <2>8. left.sys = u.sys /\ left.hook = t
    OBVIOUS
  <2>9. told.hook = t /\ Writing(told)
    <3>1. t \in Seq(HookRec) /\ frames \in Seq(FrameRec) /\ fault \in BOOLEAN
      BY <2>7 DEF Sound, Typing
    <3> HIDE DEF t
    <3> QED BY <3>1 DEF Writing
  <2> HIDE DEF left, t, e
  <2>10. PICK w : w = PrintError(told, u.sys["err"])
    OBVIOUS
  <2>11. After(w, told)
    <3>1. u.sys["err"] \in {None, Orig} \cup (1..Len(told.hook))
      BY <2>7, <2>8, <2>9 DEF Sound, Stream
    <3> QED BY <2>9, <2>10, <3>1, PrintIs
  <2>12. After(w, [hook |-> left.hook, frames |-> frames, fault |-> fault])
    BY <2>8, <2>11
  <2>13. State' = [sys |-> left.sys, hook |-> w.hook] /\ fault' = w.fault
    BY <2>1, <2>8, <2>10 DEF State
  <2>14. Deleted(u, b, Len(hook) + 1, okUndo)
    BY <1>10 DEF e
  <2>15. IF okErr THEN Made(b, a, "out", 0, okOut) ELSE b = a
    BY <1>5, <1>6
  <2> HIDE DEF told
  <2> QED BY <1>3, <1>12, <2>7, <2>12, <2>13, <2>14, <2>15 DEF InstallDone
<1> QED BY <1>11, <1>12

\* run_simpleString up to its first line of Python: likewise, and the call that begins
BufferedDone(okErr, okOut) ==
  \E a :
    /\ Made(a, State, "err", Len(frames) + 1, okErr)
    /\ okErr => State' = a /\ frames' = Append(frames, Frame(TRUE, <<Len(hook) + 1>>)) /\ fault' = fault
    /\ ~okErr => \E b :
         /\ Made(b, a, "out", Len(frames) + 1, okOut)
         /\ okOut => /\ State' = b /\ fault' = fault
                     /\ frames' = Append(frames, Frame(TRUE, <<Len(hook) + 1, Len(hook) + 2>>))
         /\ ~okOut => \E u, w :
              /\ After(w, [hook |-> b.hook, frames |-> frames, fault |-> fault])
              /\ Deleted(u, [sys |-> b.sys, hook |-> w.hook], Len(hook) + 2, TRUE)
              /\ Deleted(State', u, Len(hook) + 1, TRUE)
              /\ frames' = w.frames /\ fault' = w.fault

\* The second hook is made only when the first could not be installed; when none could,
\* the exception is printed, both are deleted and the call does not begin.
LEMMA BufferedIs ==
  ASSUME Typing, NEW okErr \in BOOLEAN, NEW okOut \in BOOLEAN, RunBuffered(okErr, okOut)
  PROVE  BufferedDone(okErr, okOut)
<1> DEFINE e == Len(hook) + 1
           o == e + 1
<1>1. /\ Sound(State) /\ State.hook = hook /\ State.sys = sys /\ Len(hook) \in Nat
      /\ Len(frames) + 1 \in Nat
  <2>1. hook \in Seq(HookRec) /\ frames \in Seq(FrameRec)
    BY DEF Typing, Sound, State
  <2> QED BY <2>1 DEF Typing, State
<1>2. PICK f : f = Len(frames) + 1
  OBVIOUS
<1>3. PICK a : a = HookInstall(State, "err", f, okErr)
  OBVIOUS
<1>4. Made(a, State, "err", f, okErr)
  BY <1>1, <1>2, <1>3, HookInstallIs DEF Stream
<1>5. Sound(a) /\ Len(a.hook) = e /\ a.hook \in Seq(HookRec)
  BY <1>1, <1>4 DEF Made, Sound
<1>6. CASE okErr
  <2>1. sys' = a.sys /\ hook' = a.hook /\ frames' = Append(frames, Frame(TRUE, <<e>>)) /\ fault' = fault
    BY <1>2, <1>3, <1>6 DEF RunBuffered
  <2>2. State' = a
    BY <1>5, <2>1, StateIs DEF State
  <2> QED BY <1>2, <1>4, <1>6, <2>1, <2>2 DEF BufferedDone
<1>7. CASE ~okErr
  <2>1. PICK b : b = HookInstall(a, "out", f, okOut)
    OBVIOUS
  <2>2. Made(b, a, "out", f, okOut)
    BY <1>1, <1>2, <1>5, <2>1, HookInstallIs DEF Stream
  <2>3. Sound(b) /\ b.hook \in Seq(HookRec) /\ Len(b.hook) = e + 1
    BY <1>5, <2>2 DEF Made, Sound
  <2>4. CASE okOut
    <3>1. /\ sys' = b.sys /\ hook' = b.hook /\ frames' = Append(frames, Frame(TRUE, <<e, e + 1>>))
          /\ fault' = fault
      BY <1>2, <1>3, <1>7, <2>1, <2>4 DEF RunBuffered
    <3>2. State' = b
      BY <2>3, <3>1, StateIs DEF State
    <3>3. e + 1 = Len(hook) + 2
      BY <1>1
    <3> QED BY <1>2, <1>4, <1>7, <2>2, <2>4, <3>1, <3>2, <3>3 DEF BufferedDone
  <2>5. CASE ~okOut
    <3>1. e \in 1..Len(b.hook) /\ o \in 1..Len(b.hook) /\ e # o /\ e \in 1..Len(a.hook)
      BY <1>1, <1>5, <2>3
    <3>2. ~a.hook[e].isInstall
      BY <1>1, <1>4, <1>7 DEF Made
    <3>3. ~b.hook[o].isInstall /\ ~b.hook[e].isInstall
      BY <1>5, <2>2, <2>5, <3>1, <3>2 DEF Made, Like
    <3> HIDE DEF e, o
    <3> DEFINE told == [hook |-> b.hook, frames |-> frames, fault |-> fault]
    <3>14. [Written EXCEPT !.hook = b.hook] = told
      BY DEF Written
    <3>15. PICK w : w = PrintError(told, b.sys["err"])
      OBVIOUS
    <3>16. After(w, told)
      <4>1. Writing(told) /\ told.hook = b.hook
        BY <2>3 DEF Writing, Typing
      <4>2. b.sys["err"] \in {None, Orig} \cup (1..Len(told.hook))
        BY <2>3, <4>1 DEF Sound, Stream
      <4> HIDE DEF told
      <4> QED BY <3>15, <4>1, <4>2, PrintIs
    <3>17. /\ w.hook \in Seq(HookRec) /\ Len(w.hook) = Len(b.hook)
           /\ \A g \in 1..Len(w.hook) : SameHook(w.hook[g], b.hook[g])
      BY <3>16 DEF After, Writing
    <3>18. PICK c : c = [sys |-> b.sys, hook |-> w.hook]
      OBVIOUS
    <3>19. Sound(c) /\ c.sys = b.sys /\ c.hook = w.hook
      BY <2>3, <3>17, <3>18, SameSound
    <3>20. [b EXCEPT !.hook = w.hook] = c
      BY <2>3, <3>18 DEF Sound
    <3>21. ~c.hook[o].isInstall /\ ~c.hook[e].isInstall
      BY <3>1, <3>3, <3>17, <3>19 DEF SameHook
    <3>4. PICK u : u = DeleteHook(c, o, TRUE)
      OBVIOUS
    <3>5. Deleted(u, c, o, TRUE)
      BY <3>1, <3>4, <3>17, <3>19, <3>21, DeleteHookIs
    <3>6. Sound(u) /\ e \in 1..Len(u.hook) /\ ~u.hook[e].isInstall /\ u.sys = b.sys
      BY <3>1, <3>5, <3>17, <3>19, <3>21 DEF Deleted, Like
    <3>7. PICK d : d = DeleteHook(u, e, TRUE)
      OBVIOUS
    <3>8. Deleted(d, u, e, TRUE)
      BY <3>6, <3>7, DeleteHookIs
    <3>9. Sound(d) /\ d.sys = b.sys
      BY <3>6, <3>8 DEF Deleted
    <3>10. sys' = b.sys /\ hook' = d.hook /\ frames' = w.frames /\ fault' = w.fault
      BY <1>2, <1>3, <1>7, <2>1, <2>5, <3>4, <3>7, <3>14, <3>15, <3>20 DEF RunBuffered, e, o
    <3>11. State' = d
      BY <3>9, <3>10, StateIs DEF State
    <3>12. o = Len(hook) + 2 /\ e = Len(hook) + 1
      BY <1>1 DEF o, e
    <3>13. Deleted(State', u, Len(hook) + 1, TRUE) /\ Deleted(u, c, Len(hook) + 2, TRUE)
      BY <3>5, <3>8, <3>11, <3>12
    <3> QED BY <1>2, <1>4, <1>7, <2>2, <2>5, <3>10, <3>13, <3>16, <3>18 DEF BufferedDone
  <2> QED BY <2>4, <2>5
<1> QED BY <1>6, <1>7

\* two hooks that differ at most in the count of references and the line
Twin(a, b) ==
  /\ a.stream = b.stream /\ a.frame = b.frame /\ a.alive = b.alive /\ a.pStdOut = b.pStdOut
  /\ a.isInstall = b.isInstall /\ a.old = b.old

\* A running call fr, the i-th: it has a buffer iff it has hooks, one or two; they are alive
\* and its own, the first is for stderr, and one that was installed keeps what was in sys when
\* the call began.
Owns(fr, i, hs, k) ==
  /\ fr.hooks[k] \in 1..Len(hs)
  /\ hs[fr.hooks[k]].frame = i /\ hs[fr.hooks[k]].alive /\ hs[fr.hooks[k]].pStdOut = "owned"
  /\ hs[fr.hooks[k]].stream = (IF k = 1 THEN "err" ELSE "out")
  /\ hs[fr.hooks[k]].isInstall => hs[fr.hooks[k]].old = fr.before[hs[fr.hooks[k]].stream]

CallOf(fr, i, hs) ==
  /\ fr.buffered <=> fr.hooks # <<>>
  /\ Len(fr.hooks) =< 2
  /\ \A k \in 1..Len(fr.hooks) : Owns(fr, i, hs, k)

FrameHooks == \A i \in 1..Len(frames) : CallOf(frames[i], i, hook)

\* A call goes on as long as its hooks do.
LEMMA CallGoesOn ==
  ASSUME NEW fr, NEW r, SameCall(r, fr), NEW hs, NEW t, NEW i, CallOf(fr, i, hs),
         1..Len(hs) \subseteq 1..Len(t),
         \A g \in 1..Len(hs) : hs[g].frame = i => Twin(t[g], hs[g])
  PROVE  CallOf(r, i, t)
<1>1. \A k \in 1..Len(fr.hooks) : Owns(r, i, t, k)
  <2>1. SUFFICES ASSUME NEW k \in 1..Len(fr.hooks) PROVE Owns(r, i, t, k)
    OBVIOUS
  <2>2. Owns(fr, i, hs, k) /\ r.hooks[k] = fr.hooks[k]
    BY DEF CallOf, SameCall
  <2>3. PICK h : h = fr.hooks[k]
    OBVIOUS
  <2>4. h \in 1..Len(hs) /\ h \in 1..Len(t) /\ Twin(t[h], hs[h])
    BY <2>2, <2>3 DEF Owns
  <2> QED BY <2>2, <2>3, <2>4 DEF Owns, Twin, SameCall
<1> QED BY <1>1 DEF CallOf, SameCall

\* The shared_ptrs go out of scope.
AllDeleted(r, st, hooks, ok) ==
  /\ hooks = <<>> => r = st
  /\ Len(hooks) = 1 => Deleted(r, st, hooks[1], ok)
  /\ Len(hooks) = 2 => \E u : Deleted(u, st, hooks[2], ok) /\ Deleted(r, u, hooks[1], ok)

\* Deleting a call's hooks deletes each of them.
LEMMA DeleteHooksIs ==
  ASSUME NEW st, Sound(st), NEW fr \in FrameRec, NEW i, CallOf(fr, i, st.hook), NEW ok \in BOOLEAN
  PROVE  AllDeleted(DeleteHooks(st, fr.hooks, ok), st, fr.hooks, ok)
<1>1. fr.hooks \in Seq(Int) /\ Len(fr.hooks) \in Nat /\ Len(fr.hooks) =< 2
  <2>1. fr.hooks \in Seq(Int)
    BY DEF FrameRec
  <2> QED BY <2>1 DEF CallOf
<1>2. st.hook \in Seq(HookRec)
  BY DEF Sound
<1>3. ASSUME NEW k \in 1..Len(fr.hooks)
      PROVE  /\ fr.hooks[k] \in 1..Len(st.hook)
             /\ st.hook[fr.hooks[k]].isInstall => st.hook[fr.hooks[k]].pStdOut = "owned"
  BY DEF CallOf, Owns
<1>4. CASE Len(fr.hooks) = 0
  <2>1. fr.hooks = <<>>
    BY <1>1, <1>4
  <2> QED BY <2>1, <1>4 DEF DeleteHooks, AllDeleted
<1>5. CASE Len(fr.hooks) = 1
  <2>1. fr.hooks # <<>> /\ 1 \in 1..Len(fr.hooks)
    BY <1>5
  <2>2. Deleted(DeleteHook(st, fr.hooks[1], ok), st, fr.hooks[1], ok)
    BY <1>3, <2>1, DeleteHookIs
  <2> QED BY <1>5, <2>1, <2>2 DEF DeleteHooks, AllDeleted
<1>6. CASE Len(fr.hooks) = 2
  <2>1. fr.hooks # <<>> /\ 1 \in 1..Len(fr.hooks) /\ 2 \in 1..Len(fr.hooks)
    BY <1>6
  <2>2. PICK h1, h2 : h1 = fr.hooks[1] /\ h2 = fr.hooks[2]
    OBVIOUS
  <2>3. h1 \in 1..Len(st.hook) /\ h2 \in 1..Len(st.hook) /\ h1 # h2
    <3>1. st.hook[h1].stream = "err" /\ st.hook[h2].stream = "out"
      BY <2>1, <2>2 DEF CallOf, Owns
    <3> QED BY <1>3, <2>1, <2>2, <3>1
  <2>4. PICK u : u = DeleteHook(st, h2, ok)
    OBVIOUS
  <2>5. Deleted(u, st, h2, ok)
    BY <1>3, <2>1, <2>2, <2>4, DeleteHookIs
  <2>6. Sound(u) /\ h1 \in 1..Len(u.hook) /\ Like(u.hook[h1], st.hook[h1])
    BY <2>3, <2>5 DEF Deleted
  <2>7. u.hook[h1].isInstall => u.hook[h1].pStdOut = "owned"
    BY <1>3, <2>1, <2>2, <2>6 DEF Like
  <2>8. Deleted(DeleteHook(u, h1, ok), u, h1, ok)
    BY <2>6, <2>7, DeleteHookIs
  <2>9. DeleteHooks(st, fr.hooks, ok) = DeleteHook(u, h1, ok)
    BY <1>6, <2>1, <2>2, <2>4 DEF DeleteHooks
  <2> QED BY <1>6, <2>1, <2>2, <2>5, <2>8, <2>9 DEF AllDeleted
<1>7. Len(fr.hooks) = 0 \/ Len(fr.hooks) = 1 \/ Len(fr.hooks) = 2
  <2>1. PICK n \in Nat : n = Len(fr.hooks)
    BY <1>1
  <2>2. n =< 2 => n = 0 \/ n = 1 \/ n = 2
    OBVIOUS
  <2> QED BY <1>1, <2>1, <2>2
<1> QED BY <1>4, <1>5, <1>6, <1>7

\* The hooks of a call fr, the i-th, are deleted: others keep what they have, and a stream
\* that was given back is as it was before the call, or as it is if it was not there.
Given(st, fr, s) == IF fr.before[s] = None THEN st.sys[s] ELSE fr.before[s]
CallDeleted(r, st, fr, i) ==
  /\ Sound(r) /\ Len(r.hook) = Len(st.hook)
  /\ \A g \in 1..Len(st.hook) : Excess(r, g) = Excess(st, g)
  /\ \A g \in 1..Len(st.hook) : st.hook[g].frame # i => Like(r.hook[g], st.hook[g])
  /\ \A k \in 1..Len(fr.hooks) :
       r.hook[fr.hooks[k]].pStdOut = "null" =>
         r.sys[st.hook[fr.hooks[k]].stream] = Given(st, fr, st.hook[fr.hooks[k]].stream)

\* What the streams and the hooks are after a call's hooks are deleted.
LEMMA CallDeletedIs ==
  ASSUME NEW st, Sound(st), NEW fr \in FrameRec, NEW i, CallOf(fr, i, st.hook), NEW ok \in BOOLEAN,
         NEW r, AllDeleted(r, st, fr.hooks, ok)
  PROVE  CallDeleted(r, st, fr, i)
<1>1. fr.hooks \in Seq(Int) /\ Len(fr.hooks) \in Nat /\ Len(fr.hooks) =< 2
  <2>1. fr.hooks \in Seq(Int)
    BY DEF FrameRec
  <2> QED BY <2>1 DEF CallOf
<1>2. st.hook \in Seq(HookRec) /\ st.sys \in [Stream -> Int]
  BY DEF Sound
<1>3. ASSUME NEW k \in 1..Len(fr.hooks) PROVE Owns(fr, i, st.hook, k)
  BY DEF CallOf
<1>4. CASE Len(fr.hooks) = 0
  <2>1. fr.hooks = <<>> /\ r = st /\ 1..Len(fr.hooks) = {}
    BY <1>1, <1>4 DEF AllDeleted
  <2> QED BY <2>1 DEF CallDeleted, Like
<1>5. CASE Len(fr.hooks) = 1
  <2>1. PICK h : h = fr.hooks[1]
    OBVIOUS
  <2>2. Owns(fr, i, st.hook, 1) /\ 1..Len(fr.hooks) = {1}
    BY <1>3, <1>5
  <2>3. Deleted(r, st, h, ok)
    BY <1>5, <2>1 DEF AllDeleted
  <2>4. Sound(r) /\ Len(r.hook) = Len(st.hook) /\ \A g \in 1..Len(st.hook) : Excess(r, g) = Excess(st, g)
    BY <2>3 DEF Deleted
  <2>5. \A g \in 1..Len(st.hook) : st.hook[g].frame # i => Like(r.hook[g], st.hook[g])
    BY <2>1, <2>2, <2>3 DEF Deleted, Owns
  <2>6. r.hook[h].pStdOut = "null" => r.sys[st.hook[h].stream] = Given(st, fr, st.hook[h].stream)
    <3>1. SUFFICES ASSUME r.hook[h].pStdOut = "null" PROVE r.sys[st.hook[h].stream] = Given(st, fr, st.hook[h].stream)
      OBVIOUS
    <3>2. st.hook[h].isInstall /\ ok /\ st.hook[h].stream = "err"
      BY <2>1, <2>2, <2>3, <3>1 DEF Deleted, Owns
    <3> QED BY <1>2, <2>1, <2>2, <2>3, <3>2 DEF Deleted, Owns, Stream, Back, Given
  <2> QED BY <2>1, <2>2, <2>4, <2>5, <2>6 DEF CallDeleted
<1>6. CASE Len(fr.hooks) = 2
  <2>1. PICK h1, h2 : h1 = fr.hooks[1] /\ h2 = fr.hooks[2]
    OBVIOUS
  <2>2. Owns(fr, i, st.hook, 1) /\ Owns(fr, i, st.hook, 2) /\ 1..Len(fr.hooks) = {1, 2}
    BY <1>3, <1>6
  <2>3. PICK u : Deleted(u, st, h2, ok) /\ Deleted(r, u, h1, ok)
    BY <1>6, <2>1 DEF AllDeleted
  <2>4. /\ Sound(u) /\ Len(u.hook) = Len(st.hook)
        /\ \A g \in 1..Len(st.hook) : Excess(u, g) = Excess(st, g)
    BY <2>3 DEF Deleted
  <2>5. /\ Sound(r) /\ Len(r.hook) = Len(st.hook)
        /\ \A g \in 1..Len(st.hook) : Excess(r, g) = Excess(st, g)
    BY <2>3, <2>4 DEF Deleted
  <2>6. /\ h1 \in 1..Len(st.hook) /\ h2 \in 1..Len(st.hook)
        /\ st.hook[h1].stream = "err" /\ st.hook[h2].stream = "out" /\ h1 # h2
        /\ st.hook[h1].frame = i /\ st.hook[h2].frame = i
        /\ st.hook[h1].pStdOut = "owned" /\ st.hook[h2].pStdOut = "owned"
    BY <2>1, <2>2 DEF Owns
  <2>7. \A g \in 1..Len(st.hook) : st.hook[g].frame # i => Like(r.hook[g], st.hook[g])
    BY <2>3, <2>4, <2>6 DEF Deleted, Like
  <2>8. Like(u.hook[h1], st.hook[h1]) /\ Like(r.hook[h2], u.hook[h2])
    BY <2>3, <2>4, <2>6 DEF Deleted
  <2>9. r.hook[h2].pStdOut = "null" => r.sys["out"] = Given(st, fr, "out")
    <3>1. SUFFICES ASSUME r.hook[h2].pStdOut = "null" PROVE r.sys["out"] = Given(st, fr, "out")
      OBVIOUS
    <3>2. u.hook[h2].pStdOut = "null"
      BY <2>8, <3>1 DEF Like
    <3>3. st.hook[h2].isInstall /\ ok
      BY <2>3, <2>6, <3>2 DEF Deleted
    <3>4. u.sys = [st.sys EXCEPT !["out"] = Given(st, fr, "out")]
      BY <2>1, <2>2, <2>3, <2>6, <3>3 DEF Deleted, Owns, Back, Given
    <3>5. u.sys["out"] = Given(st, fr, "out") /\ u.sys \in [Stream -> Int] /\ "out" \in Stream
      BY <1>2, <2>4, <3>4 DEF Sound, Stream
    <3>6. r.sys = u.sys \/ r.sys = [u.sys EXCEPT !["err"] = Back(u, h1)]
      BY <2>3, <2>6, <2>8 DEF Deleted, Like
    <3> QED BY <3>5, <3>6
  <2>10. r.hook[h1].pStdOut = "null" => r.sys["err"] = Given(st, fr, "err")
    <3>1. SUFFICES ASSUME r.hook[h1].pStdOut = "null" PROVE r.sys["err"] = Given(st, fr, "err")
      OBVIOUS
    <3>2. u.hook[h1].isInstall /\ ok
      <4>1. u.hook[h1].pStdOut = "owned"
        BY <2>6, <2>8 DEF Like
      <4> QED BY <2>3, <3>1, <4>1 DEF Deleted
    <3>3. r.sys = [u.sys EXCEPT !["err"] = Given(st, fr, "err")]
      <4>1. /\ u.hook[h1].stream = "err" /\ u.hook[h1].old = st.hook[h1].old
            /\ st.hook[h1].isInstall
        BY <2>6, <2>8, <3>2 DEF Like
      <4>2. st.hook[h1].old = fr.before["err"]
        BY <2>1, <2>2, <2>6, <4>1 DEF Owns
      <4>3. r.sys = [u.sys EXCEPT !["err"] = Back(u, h1)]
        BY <2>3, <3>2, <4>1 DEF Deleted
      <4>4. u.sys["err"] = st.sys["err"]
        BY <1>2, <2>3, <2>6 DEF Deleted, Stream
      <4> QED BY <4>1, <4>2, <4>3, <4>4 DEF Back, Given
    <3>4. u.sys \in [Stream -> Int] /\ "err" \in Stream
      BY <2>4 DEF Sound, Stream
    <3> QED BY <3>3, <3>4
  <2> QED BY <2>1, <2>2, <2>5, <2>6, <2>7, <2>9, <2>10 DEF CallDeleted
<1>7. Len(fr.hooks) = 0 \/ Len(fr.hooks) = 1 \/ Len(fr.hooks) = 2
  <2>1. PICK n \in Nat : n = Len(fr.hooks)
    BY <1>1
  <2>2. n =< 2 => n = 0 \/ n = 1 \/ n = 2
    OBVIOUS
  <2> QED BY <1>1, <2>1, <2>2
<1> QED BY <1>4, <1>5, <1>6, <1>7

\* run_simpleString returns: the exception is printed, then its hooks are deleted, then what
\* else there is to print is printed.
ReturnsDone(raised, ok, late) ==
  \E q, r, x :
    /\ IF raised THEN Printed(q, Written, sys["err"]) ELSE q = Written
    /\ After(q, Written)
    /\ AllDeleted(r, [sys |-> sys, hook |-> q.hook], Last.hooks, ok) /\ Sound(r)
    /\ LET left == [hook |-> r.hook, frames |-> Front(q.frames), fault |-> q.fault]
       IN  After(x, left) /\ (~late => x = left)
    /\ State' = [sys |-> r.sys, hook |-> x.hook] /\ frames' = x.frames /\ fault' = x.fault

\* The calls without the last one.
LEMMA FrontIs ==
  ASSUME NEW fs \in Seq(FrameRec), fs # <<>>
  PROVE  /\ Front(fs) \in Seq(FrameRec) /\ Len(Front(fs)) = Len(fs) - 1 /\ Len(fs) \in Nat
         /\ \A i \in 1..Len(fs) - 1 : Front(fs)[i] = fs[i]
<1>1. Len(fs) \in Nat /\ Len(fs) >= 1
  OBVIOUS
<1>2. Front(fs) = [i \in 1..Len(fs) - 1 |-> fs[i]]
  BY <1>1 DEF Front
<1>3. \A i \in 1..Len(fs) - 1 : fs[i] \in FrameRec
  BY <1>1
<1> HIDE DEF FrameRec
<1> QED BY <1>1, <1>2, <1>3

\* What a return changes.
LEMMA ReturnsIs ==
  ASSUME Typing, FrameHooks, NEW raised \in BOOLEAN, NEW ok \in BOOLEAN, NEW late \in BOOLEAN,
         RunReturns(raised, ok, late)
  PROVE  ReturnsDone(raised, ok, late)
<1>1. Sound(State) /\ State.hook = hook /\ State.sys = sys /\ frames \in Seq(FrameRec) /\ fault \in BOOLEAN
  BY DEF Typing, State
<1>2. hook \in Seq(HookRec) /\ sys["err"] \in {None, Orig} \cup (1..Len(hook))
  BY <1>1 DEF Sound, Stream
<1>3. PICK v : v = Written
  OBVIOUS
<1>4. v.hook = hook /\ v.frames = frames /\ v.fault = fault /\ Writing(v)
  BY <1>1, <1>2, <1>3 DEF Written, Writing
<1>5. PICK o : o = sys["err"]
  OBVIOUS
<1>6. PICK q : q = IF raised THEN PrintError(v, o) ELSE v
  OBVIOUS
<1>7. IF raised THEN Printed(q, v, o) ELSE q = v
  BY <1>2, <1>4, <1>5, <1>6, PrintIs
<1>8. After(q, v)
  <2>1. CASE raised
    BY <1>2, <1>4, <1>5, <1>6, <2>1, PrintIs
  <2>2. CASE ~raised
    BY <1>4, <1>6, <2>2 DEF After, SameHook, SameCall
  <2> QED BY <2>1, <2>2
<1>9. frames # <<>>
  BY DEF RunReturns, Running
<1>10. PICK n : n = Len(frames)
  OBVIOUS
<1>11. n \in 1..Len(frames) /\ Last = frames[n] /\ Last \in FrameRec /\ CallOf(Last, n, hook)
  BY <1>1, <1>9, <1>10 DEF Last, FrameHooks
<1>12. PICK st : st = [sys |-> sys, hook |-> q.hook]
  OBVIOUS
<1>13. st.hook = q.hook /\ st.sys = sys /\ Sound(st)
  BY <1>3, <1>8, <1>12, AfterSound
<1>14. CallOf(Last, n, st.hook)
  <2>1. Len(st.hook) = Len(hook) /\ \A g \in 1..Len(hook) : Twin(st.hook[g], hook[g])
    BY <1>4, <1>8, <1>13 DEF After, SameHook, Twin
  <2>2. SameCall(Last, Last)
    BY DEF SameCall
  <2> QED BY <1>11, <2>1, <2>2, CallGoesOn
<1>15. PICK r : r = DeleteHooks(st, Last.hooks, ok)
  OBVIOUS
<1>16. AllDeleted(r, st, Last.hooks, ok)
  BY <1>11, <1>13, <1>14, <1>15, DeleteHooksIs
<1>17. Sound(r)
  <2>1. CallDeleted(r, st, Last, n)
    BY <1>11, <1>13, <1>14, <1>16, CallDeletedIs
  <2> QED BY <2>1 DEF CallDeleted
<1>18. PICK left : left = [hook |-> r.hook, frames |-> Front(q.frames), fault |-> q.fault]
  OBVIOUS
<1>19. /\ q \in [hook : Seq(HookRec), frames : Seq(FrameRec), fault : BOOLEAN] /\ q.frames \in Seq(FrameRec)
       /\ q.fault \in BOOLEAN /\ q.frames # <<>>
  <2>1. q \in [hook : Seq(HookRec), frames : Seq(FrameRec), fault : BOOLEAN] /\ Len(q.frames) = Len(frames)
    BY <1>4, <1>8 DEF After, Writing
  <2>2. Len(frames) \in Nat /\ Len(frames) # 0
    BY <1>1, <1>9
  <2>3. q.frames \in Seq(FrameRec)
    BY <2>1
  <2> QED BY <2>1, <2>2, <2>3
<1>20. left = [[q EXCEPT !.hook = r.hook] EXCEPT !.frames = Front(@)]
  <2>1. PICK y : y = [q EXCEPT !.hook = r.hook]
    OBVIOUS
  <2>2. y = [hook |-> r.hook, frames |-> q.frames, fault |-> q.fault]
    BY <1>19, <2>1
  <2>3. [y EXCEPT !.frames = Front(@)] = [hook |-> r.hook, frames |-> Front(q.frames), fault |-> q.fault]
    BY <2>2
  <2> QED BY <1>18, <2>1, <2>3, Zenon
<1>21. Writing(left) /\ left.hook = r.hook
  <2>1. Front(q.frames) \in Seq(FrameRec) /\ r.hook \in Seq(HookRec)
    BY <1>17, <1>19, FrontIs DEF Sound
  <2> QED BY <1>18, <1>19, <2>1 DEF Writing
<1>22. PICK x : x = IF late THEN PrintError(left, r.sys["err"]) ELSE left
  OBVIOUS
<1>23. After(x, left)
  <2>1. CASE late
    <3>1. r.sys["err"] \in {None, Orig} \cup (1..Len(left.hook))
      BY <1>17, <1>21 DEF Sound, Stream
    <3> QED BY <1>21, <1>22, <2>1, <3>1, PrintIs
  <2>2. CASE ~late
    BY <1>21, <1>22, <2>2 DEF After, SameHook, SameCall
  <2> QED BY <2>1, <2>2
<1>24. sys' = r.sys /\ hook' = x.hook /\ frames' = x.frames /\ fault' = x.fault
  <2>1. left = [q EXCEPT !.hook = r.hook, !.frames = Front(@)]
    BY <1>20
  <2> QED BY <1>3, <1>5, <1>6, <1>12, <1>15, <1>22, <2>1 DEF RunReturns
<1>25. State' = [sys |-> r.sys, hook |-> x.hook]
  BY <1>24 DEF State
<1>26. ~late => x = left
  BY <1>22
<1> QED BY <1>3, <1>5, <1>7, <1>8, <1>12, <1>16, <1>17, <1>18, <1>23, <1>24, <1>25, <1>26 DEF ReturnsDone

\* print and the like
WriteDone(s, text) ==
  \E w : /\ Wrote(w, Written, s, sys[s], text) /\ After(w, Written)
         /\ State' = [sys |-> sys, hook |-> w.hook] /\ frames' = w.frames /\ fault' = w.fault

\* What a write changes.
LEMMA WriteIs ==
  ASSUME Typing, NEW s \in Stream, NEW text \in Text, PyWrite(s, text)
  PROVE  WriteDone(s, text)
<1>1. Sound(State) /\ State.hook = hook /\ State.sys = sys /\ frames \in Seq(FrameRec) /\ fault \in BOOLEAN
  BY DEF Typing, State
<1>2. hook \in Seq(HookRec) /\ sys[s] \in {None, Orig} \cup (1..Len(hook))
  BY <1>1 DEF Sound
<1>3. PICK v : v = Written
  OBVIOUS
<1>4. v.hook = hook /\ v.frames = frames /\ Writing(v)
  BY <1>1, <1>2, <1>3 DEF Written, Writing
<1>5. PICK o : o = sys[s]
  OBVIOUS
<1>6. o \in {None, Orig} \cup (1..Len(v.hook))
  BY <1>2, <1>4, <1>5
<1>7. PICK w : w = WriteTo(v, s, o, text)
  OBVIOUS
<1>8. Wrote(w, v, s, o, text)
  BY <1>4, <1>6, <1>7, WriteToIs
<1>9. After(w, v)
  BY <1>8 DEF Wrote, After
<1>10. hook' = w.hook /\ frames' = w.frames /\ fault' = w.fault /\ sys' = sys
  BY <1>3, <1>5, <1>7 DEF PyWrite
<1>11. State' = [sys |-> sys, hook |-> w.hook]
  BY <1>10 DEF State
<1> QED BY <1>3, <1>5, <1>8, <1>9, <1>10, <1>11 DEF WriteDone

\* r is st where object o has n references more
Counted(r, st, o, n) ==
  /\ Sound(r) /\ Len(r.hook) = Len(st.hook)
  /\ \A g \in 1..Len(st.hook) : Like(r.hook[g], st.hook[g])
  /\ \A g \in 1..Len(st.hook) : Excess(r, g) = Excess(st, g) + (IF g = o THEN n ELSE 0)

\* A Python variable that refers to an object counts as a reference that nothing in C++ holds ...
LEMMA SaveIs ==
  ASSUME Typing, NEW s \in Stream, PySave(s)
  PROVE  Counted(State', State, sys[s], 1) /\ sys' = sys
<1>1. Sound(State) /\ State.hook = hook /\ State.sys = sys
  BY DEF Typing, State
<1>2. hook \in Seq(HookRec) /\ sys[s] \in {None, Orig} \cup (1..Len(hook)) /\ sys \in [Stream -> Int]
  BY <1>1 DEF Sound
<1>3. PICK o : o = sys[s]
  OBVIOUS
<1>4. o \in 1..Len(hook) /\ o \in {None, Orig} \cup (1..Len(hook))
  BY <1>2, <1>3 DEF PySave
<1>5. hook' = IncRef(hook, o) /\ sys' = sys
  BY <1>3 DEF PySave
<1>6. /\ hook' \in Seq(HookRec) /\ Len(hook') = Len(hook)
      /\ \A h \in 1..Len(hook) : Like(hook'[h], hook[h]) /\ hook'[h].refs = hook[h].refs + In(h, o)
  BY <1>2, <1>4, <1>5, IncRefIs
<1>7. PICK r : r = [sys |-> sys, hook |-> hook']
  OBVIOUS
<1>8. r.sys = sys /\ r.hook = hook' /\ State' = r /\ r \in [sys : [Stream -> Int], hook : Seq(HookRec)]
  BY <1>2, <1>5, <1>6, <1>7 DEF State
<1>9. Sound(r)
  BY <1>1, <1>6, <1>8 DEF Sound, Like
<1>10. \A g \in 1..Len(hook) : Excess(r, g) = Excess(State, g) + (IF g = o THEN 1 ELSE 0)
  <2>1. SUFFICES ASSUME NEW g \in 1..Len(hook)
                 PROVE  Excess(r, g) = Excess(State, g) + (IF g = o THEN 1 ELSE 0)
    OBVIOUS
  <2>2. OldIn(hook', g) = OldIn(hook, g)
    BY <1>2, <1>6, LikeOld
  <2>3. Weight(r, g) = Weight(State, g)
    BY <1>1, <1>6, <1>8, <2>2 DEF Weight, Like
  <2>4. Weight(State, g) \in Int /\ hook[g].refs \in Int
    BY <1>1, <1>2, WeightTyped
  <2>5. hook'[g].refs = hook[g].refs + (IF g = o THEN 1 ELSE 0)
    BY <1>6 DEF In
  <2> QED BY <1>1, <1>8, <2>3, <2>4, <2>5 DEF Excess
<1> QED BY <1>1, <1>3, <1>5, <1>6, <1>8, <1>9, <1>10 DEF Counted

\* ... until it is put back into sys and the variable is deleted.
LEMMA AssignIs ==
  ASSUME Typing, PyAssign
  PROVE  Counted(State', State, saved, -1)
<1>1. Sound(State) /\ State.hook = hook /\ State.sys = sys /\ State = [sys |-> sys, hook |-> hook]
  BY DEF Typing, State
<1>2. hook \in Seq(HookRec)
  BY <1>1 DEF Sound
<1>3. PICK o : o = saved
  OBVIOUS
<1>4. o \in 1..Len(hook)
  BY <1>3 DEF Typing, PyAssign, Hooks
<1>5. PICK s : s = hook[o].stream
  OBVIOUS
<1>6. s \in Stream
  <2>1. hook[o] \in HookRec
    BY <1>2, <1>4
  <2> QED BY <1>5, <2>1 DEF HookRec
<1>7. PICK r : r = SetSys(State, s, o)
  OBVIOUS
<1>8. SysSet(r, State, s, o)
  BY <1>1, <1>4, <1>6, <1>7, SetSysIs
<1>9. Sound(r) /\ Len(r.hook) = Len(hook)
  BY <1>1, <1>8 DEF SysSet
<1>10. PICK d : d = [r EXCEPT !.hook = DecRef(@, o)]
  OBVIOUS
<1>11. d.sys = r.sys /\ d.hook = DecRef(r.hook, o)
  BY <1>9, <1>10 DEF Sound
<1>12. sys' = r.sys /\ hook' = DecRef(r.hook, o)
  BY <1>1, <1>3, <1>5, <1>7 DEF PyAssign
<1>13. /\ Sound(d) /\ Len(d.hook) = Len(r.hook)
       /\ \A g \in 1..Len(r.hook) : Like(d.hook[g], r.hook[g])
       /\ \A g \in 1..Len(r.hook) : g # o => Excess(d, g) = Excess(r, g)
       /\ Excess(d, o) = Excess(r, o) - 1
       /\ Excess(r, o) \in Int
  <2>1. o \in 1..Len(r.hook)
    BY <1>4, <1>9
  <2> QED BY <1>9, <1>10, <2>1, ReleaseIs
<1>14. State' = d
  BY <1>11, <1>12, <1>13, StateIs DEF State
<1>15. \A g \in 1..Len(hook) : Like(d.hook[g], hook[g])
  BY <1>1, <1>8, <1>9, <1>13 DEF SysSet, Like
<1>16. \A g \in 1..Len(hook) : Excess(d, g) = Excess(State, g) + (IF g = o THEN -1 ELSE 0)
  <2>1. SUFFICES ASSUME NEW g \in 1..Len(hook)
                 PROVE  Excess(d, g) = Excess(State, g) + (IF g = o THEN -1 ELSE 0)
    OBVIOUS
  <2>2. Excess(r, g) = Excess(State, g)
    BY <1>1, <1>8 DEF SysSet
  <2>3. Excess(State, g) \in Int
    <3>1. Weight(State, g) \in Int /\ hook[g].refs \in Int
      BY <1>1, <1>2, WeightTyped
    <3> QED BY <1>1, <3>1 DEF Excess
  <2> QED BY <1>9, <1>13, <2>2, <2>3
<1> QED BY <1>1, <1>3, <1>9, <1>13, <1>14, <1>15, <1>16 DEF Counted

\* A deletion from sys gives up the reference that sys had.
LEMMA DeleteIs ==
  ASSUME Typing, NEW s \in Stream, PyDelete(s)
  PROVE  SysSet(State', State, s, None)
<1>1. Sound(State) /\ State = [sys |-> sys, hook |-> hook]
  BY DEF Typing, State
<1>2. PICK r : r = SetSys(State, s, None)
  OBVIOUS
<1>3. SysSet(r, State, s, None)
  BY <1>1, <1>2, SetSysIs
<1>4. sys' = r.sys /\ hook' = r.hook
  BY <1>1, <1>2 DEF PyDelete
<1>5. State' = r
  <2>1. Sound(r)
    BY <1>3 DEF SysSet
  <2> QED BY <1>4, <2>1, StateIs DEF State
<1> QED BY <1>3, <1>5

-----------------------------------------------------------------------------
(* The values and the hooks of the calls *)

\* What Install leaves behind: the hooks there were, as they were.
LEMMA InstallKeeps ==
  ASSUME Typing, NEW okErr \in BOOLEAN, NEW okOut \in BOOLEAN, NEW okUndo \in BOOLEAN,
         Install(okErr, okOut, okUndo)
  PROVE  /\ Sound(State') /\ Len(hook') >= Len(hook) /\ Len(hook) \in Nat /\ Len(hook') \in Nat
         /\ fault' \in BOOLEAN
         /\ \A g \in Hooks : Excess(State', g) = Excess(State, g) /\ Twin(hook'[g], hook[g])
         /\ \A g \in Hooks' : g \notin Hooks => Excess(State', g) = 0
<1>1. PICK n : n = Len(hook)
  OBVIOUS
<1>2. Sound(State) /\ State.hook = hook /\ State'.hook = hook' /\ n \in Nat /\ Hooks = 1..n /\ Hooks' = 1..Len(hook')
  <2>1. hook \in Seq(HookRec)
    BY DEF Typing, Sound, State
  <2> QED BY <1>1, <2>1 DEF Typing, State, Hooks
<1>3. PICK a, b :
        /\ Made(a, State, "err", 0, okErr)
        /\ IF okErr THEN Made(b, a, "out", 0, okOut) ELSE b = a
        /\ IF okErr /\ okOut THEN State' = b /\ fault' = fault
           ELSE \E u, d, w :
                  /\ Deleted(u, b, Len(hook) + 1, okUndo)
                  /\ IF okErr THEN Deleted(d, u, Len(hook) + 2, TRUE) ELSE d = u
                  /\ After(w, [hook |-> d.hook, frames |-> frames, fault |-> fault])
                  /\ State' = [sys |-> d.sys, hook |-> w.hook] /\ fault' = w.fault
  BY InstallIs DEF InstallDone
<1>4. /\ Sound(a) /\ Len(a.hook) = n + 1 /\ Excess(a, n + 1) = 0
      /\ \A g \in 1..n : Excess(a, g) = Excess(State, g) /\ Like(a.hook[g], hook[g])
  BY <1>1, <1>2, <1>3 DEF Made
<1>5. PICK m \in Nat :
        /\ Sound(b) /\ Len(b.hook) = m /\ n + 1 =< m /\ (okErr => n + 2 =< m)
        /\ \A g \in 1..n : Excess(b, g) = Excess(State, g) /\ Like(b.hook[g], hook[g])
        /\ \A g \in 1..m : g \notin 1..n => Excess(b, g) = 0
  <2>1. CASE okErr
    <3>1. Made(b, a, "out", 0, okOut)
      BY <1>3, <2>1
    <3>2. /\ Sound(b) /\ Len(b.hook) = n + 2 /\ Excess(b, n + 2) = 0
          /\ \A g \in 1..(n + 1) : Excess(b, g) = Excess(a, g) /\ Like(b.hook[g], a.hook[g])
      BY <1>2, <1>4, <3>1 DEF Made
    <3>3. \A g \in 1..n : Excess(b, g) = Excess(State, g) /\ Like(b.hook[g], hook[g])
      BY <1>2, <1>4, <3>2 DEF Like
    <3>4. Excess(b, n + 1) = 0
      <4>1. n + 1 \in 1..(n + 1)
        BY <1>2
      <4>2. Excess(b, n + 1) = Excess(a, n + 1)
        BY <3>2, <4>1, Zenon
      <4> QED BY <1>4, <4>2, Zenon
    <3>5. \A g \in 1..(n + 2) : g \in 1..n \/ g = n + 1 \/ g = n + 2
      BY <1>2
    <3> QED BY <1>2, <3>2, <3>3, <3>4, <3>5
  <2>2. CASE ~okErr
    <3>1. b = a
      BY <1>3, <2>2
    <3>2. \A g \in 1..(n + 1) : g \in 1..n \/ g = n + 1
      BY <1>2
    <3> QED BY <1>2, <1>4, <2>2, <3>1, <3>2
  <2> QED BY <2>1, <2>2
<1>6. ASSUME NEW t, NEW v, NEW h, NEW c, Deleted(t, v, h, c), Len(v.hook) = m, h \notin 1..n,
             \A g \in 1..n : Excess(v, g) = Excess(State, g) /\ Like(v.hook[g], hook[g]),
             \A g \in 1..m : g \notin 1..n => Excess(v, g) = 0
      PROVE  /\ Sound(t) /\ Len(t.hook) = m
             /\ \A g \in 1..n : Excess(t, g) = Excess(State, g) /\ Like(t.hook[g], hook[g])
             /\ \A g \in 1..m : g \notin 1..n => Excess(t, g) = 0
  <2>1. \A g \in 1..n : g \in 1..m
    BY <1>2, <1>5
  <2>2. \A g \in 1..m : Excess(t, g) = Excess(v, g)
    BY <1>6 DEF Deleted
  <2>3. \A g \in 1..n : Like(t.hook[g], v.hook[g])
    BY <1>6, <2>1 DEF Deleted
  <2>4. Sound(t) /\ Len(t.hook) = m
    BY <1>6 DEF Deleted
  <2>5. \A g \in 1..n : Like(t.hook[g], hook[g])
    BY <1>6, <2>3 DEF Like
  <2> QED BY <1>6, <2>1, <2>2, <2>4, <2>5
<1>7. /\ Sound(State') /\ Len(hook') = m /\ fault' \in BOOLEAN
      /\ \A g \in 1..n : Excess(State', g) = Excess(State, g) /\ Twin(hook'[g], hook[g])
      /\ \A g \in 1..m : g \notin 1..n => Excess(State', g) = 0
  <2>1. CASE okErr /\ okOut
    <3>1. State' = b /\ fault' = fault /\ fault \in BOOLEAN
      BY <1>3, <2>1 DEF Typing
    <3>2. \A g \in 1..n : Twin(b.hook[g], hook[g])
      BY <1>5 DEF Like, Twin
    <3> QED BY <1>2, <1>5, <3>1, <3>2
  <2>2. CASE ~(okErr /\ okOut)
    <3>1. PICK u, d, w :
            /\ Deleted(u, b, Len(hook) + 1, okUndo)
            /\ IF okErr THEN Deleted(d, u, Len(hook) + 2, TRUE) ELSE d = u
            /\ After(w, [hook |-> d.hook, frames |-> frames, fault |-> fault])
            /\ State' = [sys |-> d.sys, hook |-> w.hook] /\ fault' = w.fault
      BY <1>3, <2>2
    <3>2. n + 1 \notin 1..n /\ n + 2 \notin 1..n
      BY <1>2
    <3>3. /\ Sound(u) /\ Len(u.hook) = m
          /\ \A g \in 1..n : Excess(u, g) = Excess(State, g) /\ Like(u.hook[g], hook[g])
          /\ \A g \in 1..m : g \notin 1..n => Excess(u, g) = 0
      BY <1>1, <1>5, <1>6, <3>1, <3>2
    <3>4. /\ Sound(d) /\ Len(d.hook) = m
          /\ \A g \in 1..n : Excess(d, g) = Excess(State, g) /\ Like(d.hook[g], hook[g])
          /\ \A g \in 1..m : g \notin 1..n => Excess(d, g) = 0
      <4>1. CASE okErr
        <5>1. Deleted(d, u, n + 2, TRUE)
          BY <1>1, <3>1, <4>1
        <5> QED BY <1>6, <3>2, <3>3, <5>1
      <4>2. CASE ~okErr
        BY <3>1, <3>3, <4>2
      <4> QED BY <4>1, <4>2
    <3>5. /\ w.hook \in Seq(HookRec) /\ Len(w.hook) = m /\ fault' \in BOOLEAN
          /\ \A g \in 1..m : SameHook(w.hook[g], d.hook[g])
      BY <3>1, <3>4 DEF After, Writing
    <3>6. /\ Sound([sys |-> d.sys, hook |-> w.hook])
          /\ \A g \in 1..m : Excess([sys |-> d.sys, hook |-> w.hook], g) = Excess(d, g)
      BY <3>4, <3>5, SameSound
    <3>7. Sound(State') /\ hook' = w.hook /\ \A g \in 1..m : Excess(State', g) = Excess(d, g)
      BY <1>2, <3>1, <3>6
    <3>8. \A g \in 1..n : g \in 1..m /\ Twin(hook'[g], hook[g])
      BY <1>2, <1>5, <3>4, <3>5, <3>7 DEF Like, SameHook, Twin
    <3> QED BY <3>4, <3>5, <3>7, <3>8
  <2> QED BY <2>1, <2>2
<1>8. m >= n
  BY <1>2, <1>5
<1> QED BY <1>1, <1>2, <1>5, <1>7, <1>8

\* The record of a call that begins with sound hooks.
LEMMA FrameIs ==
  ASSUME Typing, NEW b \in BOOLEAN, NEW hooks \in Seq(Int)
  PROVE  /\ Frame(b, hooks) \in FrameRec /\ Frame(b, hooks).buffered = b /\ Frame(b, hooks).hooks = hooks
         /\ Frame(b, hooks).before = sys
         /\ Frame(b, hooks).buffer = Silence /\ Frame(b, hooks).wrote = Silence
<1>1. sys \in [Stream -> Int]
  BY DEF Typing, Sound, State
<1>2. Silence \in [Stream -> Seq(Text)]
  <2>1. <<>> \in Seq(Text)
    OBVIOUS
  <2> QED BY <2>1 DEF Silence
<1> QED BY <1>1, <1>2 DEF Frame, FrameRec

\* The calls go on: what they wrote may grow.
Resumed ==
  /\ frames' \in Seq(FrameRec) /\ Len(frames') = Len(frames)
  /\ \A i \in 1..Len(frames) : SameCall(frames'[i], frames[i])

\* What the beginning of run_simpleString with a buffer leaves behind: likewise, and a call
\* that owns its hooks, if it begins.
LEMMA BufferedKeeps ==
  ASSUME Typing, NEW okErr \in BOOLEAN, NEW okOut \in BOOLEAN, RunBuffered(okErr, okOut)
  PROVE  /\ Sound(State') /\ Len(hook') >= Len(hook) /\ Len(hook) \in Nat /\ Len(hook') \in Nat
         /\ fault' \in BOOLEAN
         /\ \A g \in Hooks : Excess(State', g) = Excess(State, g) /\ Twin(hook'[g], hook[g])
         /\ \A g \in Hooks' : g \notin Hooks => Excess(State', g) = 0
         /\ Resumed \/ \E fr \in FrameRec :
              frames' = Append(frames, fr) /\ CallOf(fr, Len(frames) + 1, hook')
<1> DEFINE n == Len(hook)  f == Len(frames) + 1
<1>1. n = Len(hook) /\ f = Len(frames) + 1
  OBVIOUS
<1>2. /\ Sound(State) /\ State.hook = hook /\ State'.hook = hook' /\ n \in Nat /\ State.sys = sys
      /\ Hooks = 1..n /\ Hooks' = 1..Len(hook') /\ sys \in [Stream -> Int]
  <2>1. hook \in Seq(HookRec) /\ sys \in [Stream -> Int]
    BY DEF Typing, Sound, State
  <2> QED BY <1>1, <2>1 DEF Typing, State, Hooks
<1>3. PICK a :
    /\ Made(a, State, "err", f, okErr)
    /\ okErr => State' = a /\ frames' = Append(frames, Frame(TRUE, <<n + 1>>)) /\ fault' = fault
    /\ ~okErr => \E b :
         /\ Made(b, a, "out", f, okOut)
         /\ okOut => State' = b /\ fault' = fault /\ frames' = Append(frames, Frame(TRUE, <<n + 1, n + 2>>))
         /\ ~okOut => \E u, w :
              /\ After(w, [hook |-> b.hook, frames |-> frames, fault |-> fault])
              /\ Deleted(u, [sys |-> b.sys, hook |-> w.hook], n + 2, TRUE)
              /\ Deleted(State', u, n + 1, TRUE)
              /\ frames' = w.frames /\ fault' = w.fault
  BY BufferedIs DEF BufferedDone
<1> HIDE DEF n, f
<1>4. /\ Sound(a) /\ Len(a.hook) = n + 1 /\ Excess(a, n + 1) = 0
      /\ \A g \in 1..n : Excess(a, g) = Excess(State, g) /\ Like(a.hook[g], hook[g])
  BY <1>1, <1>2, <1>3 DEF Made
<1>5. /\ a.hook[n + 1].frame = f /\ a.hook[n + 1].alive /\ a.hook[n + 1].pStdOut = "owned"
      /\ a.hook[n + 1].stream = "err" /\ a.hook[n + 1].isInstall = okErr
      /\ a.hook[n + 1].old = IF okErr THEN sys["err"] ELSE None
      /\ a.sys = IF okErr THEN [sys EXCEPT !["err"] = n + 1] ELSE sys
  BY <1>1, <1>2, <1>3 DEF Made
<1>6. \A g \in 1..(n + 2) : g \in 1..n \/ g = n + 1 \/ g = n + 2
  BY <1>2
<1>7. CASE okErr
  <2>1. PICK hs \in Seq(Int) : hs = <<n + 1>>
    <3>1. <<n + 1>> \in Seq(Int)
      BY <1>2
    <3> QED BY <3>1
  <2>2. Len(hs) = 1 /\ hs[1] = n + 1 /\ hs # <<>>
    BY <2>1
  <2>3. PICK fr : fr = Frame(TRUE, hs)
    OBVIOUS
  <2>4. fr \in FrameRec /\ fr.buffered = TRUE /\ fr.hooks = hs /\ fr.before = sys
    BY <2>3, FrameIs
  <2>5. State' = a /\ frames' = Append(frames, fr) /\ hook' = a.hook /\ Len(hook') = n + 1
    BY <1>2, <1>3, <1>4, <1>7, <2>1, <2>3
  <2>6. Owns(fr, f, hook', 1)
    BY <1>2, <1>5, <1>7, <2>2, <2>4, <2>5 DEF Owns
  <2>7. CallOf(fr, f, hook')
    <3>1. \A k \in 1..Len(fr.hooks) : k = 1
      <4>1. Len(fr.hooks) = 1
        BY <2>2, <2>4
      <4> QED BY <4>1
    <3>2. Len(fr.hooks) =< 2
      <4>1. Len(fr.hooks) = 1
        BY <2>2, <2>4
      <4> QED BY <4>1
    <3> QED BY <2>2, <2>4, <2>6, <3>1, <3>2 DEF CallOf
  <2>8. \A g \in 1..(n + 1) : g \notin 1..n => Excess(State', g) = 0
    BY <1>2, <1>4, <2>5
  <2>9. \A g \in Hooks : Excess(State', g) = Excess(State, g) /\ Twin(hook'[g], hook[g])
    BY <1>2, <1>4, <2>5 DEF Like, Twin
  <2>11. fault' \in BOOLEAN
    BY <1>3, <1>7 DEF Typing
  <2>10. Sound(State') /\ Len(hook') >= n /\ Len(hook') \in Nat
    BY <1>2, <1>4, <2>5
  <2> QED BY <1>1, <1>2, <2>4, <2>5, <2>7, <2>8, <2>9, <2>10, <2>11
<1>8. CASE ~okErr
  <2>1. PICK b :
         /\ Made(b, a, "out", f, okOut)
         /\ okOut => State' = b /\ fault' = fault /\ frames' = Append(frames, Frame(TRUE, <<n + 1, n + 2>>))
         /\ ~okOut => \E u, w :
              /\ After(w, [hook |-> b.hook, frames |-> frames, fault |-> fault])
              /\ Deleted(u, [sys |-> b.sys, hook |-> w.hook], n + 2, TRUE)
              /\ Deleted(State', u, n + 1, TRUE)
              /\ frames' = w.frames /\ fault' = w.fault
    BY <1>3, <1>8
  <2>2. /\ Sound(b) /\ Len(b.hook) = n + 2 /\ Excess(b, n + 2) = 0
        /\ \A g \in 1..(n + 1) : Excess(b, g) = Excess(a, g) /\ Like(b.hook[g], a.hook[g])
    BY <1>2, <1>4, <2>1 DEF Made
  <2>3. \A g \in 1..n : Excess(b, g) = Excess(State, g) /\ Like(b.hook[g], hook[g])
    BY <1>2, <1>4, <2>2 DEF Like
  <2>4. \A g \in 1..(n + 2) : g \notin 1..n => Excess(b, g) = 0
    BY <1>2, <1>4, <1>6, <2>2
  <2>5. CASE okOut
    <3>1. PICK hs \in Seq(Int) : hs = <<n + 1, n + 2>>
      <4>1. <<n + 1, n + 2>> \in Seq(Int)
        BY <1>2
      <4> QED BY <4>1
    <3>2. Len(hs) = 2 /\ hs[1] = n + 1 /\ hs[2] = n + 2 /\ hs # <<>>
      BY <3>1
    <3>3. PICK fr : fr = Frame(TRUE, hs)
      OBVIOUS
    <3>4. fr \in FrameRec /\ fr.buffered = TRUE /\ fr.hooks = hs /\ fr.before = sys
      BY <3>3, FrameIs
    <3>5. State' = b /\ frames' = Append(frames, fr) /\ hook' = b.hook /\ Len(hook') = n + 2
      BY <1>2, <2>1, <2>2, <2>5, <3>1, <3>3
    <3>6. Owns(fr, f, hook', 1)
      <4>1. Like(hook'[n + 1], a.hook[n + 1]) /\ n + 1 \in 1..Len(hook')
        BY <1>2, <2>2, <3>5
      <4> QED BY <1>5, <1>8, <3>2, <3>4, <4>1 DEF Owns, Like
    <3>7. Owns(fr, f, hook', 2)
      <4>1. /\ hook'[n + 2].frame = f /\ hook'[n + 2].alive /\ hook'[n + 2].pStdOut = "owned"
            /\ hook'[n + 2].stream = "out" /\ hook'[n + 2].old = a.sys["out"]
        <5>1. n + 2 = Len(a.hook) + 1
          BY <1>2, <1>4
        <5> QED BY <2>1, <2>5, <3>5, <5>1 DEF Made
      <4>2. a.sys = sys /\ n + 2 \in 1..Len(hook')
        BY <1>2, <1>5, <1>8, <3>5
      <4> QED BY <3>2, <3>4, <4>1, <4>2 DEF Owns
    <3>8. CallOf(fr, f, hook')
      <4>1. Len(fr.hooks) = 2
        BY <3>2, <3>4
      <4>2. \A k \in 1..Len(fr.hooks) : k = 1 \/ k = 2
        BY <4>1
      <4>3. Len(fr.hooks) =< 2
        BY <4>1
      <4> QED BY <3>2, <3>4, <3>6, <3>7, <4>2, <4>3 DEF CallOf
    <3>9. \A g \in Hooks : Excess(State', g) = Excess(State, g) /\ Twin(hook'[g], hook[g])
      BY <1>2, <2>3, <3>5 DEF Like, Twin
    <3>12. fault' \in BOOLEAN
      BY <2>1, <2>5 DEF Typing
    <3>10. \A g \in Hooks' : g \notin Hooks => Excess(State', g) = 0
      BY <1>2, <2>4, <3>5
    <3>11. Sound(State') /\ Len(hook') >= n /\ Len(hook') \in Nat
      BY <1>2, <2>2, <3>5
    <3> QED BY <1>1, <1>2, <3>4, <3>5, <3>8, <3>9, <3>10, <3>11, <3>12
  <2>6. CASE ~okOut
    <3>1. PICK u, w :
            /\ After(w, [hook |-> b.hook, frames |-> frames, fault |-> fault])
            /\ Deleted(u, [sys |-> b.sys, hook |-> w.hook], n + 2, TRUE)
            /\ Deleted(State', u, n + 1, TRUE)
            /\ frames' = w.frames /\ fault' = w.fault
      BY <2>1, <2>6
    <3>2. PICK c : c = [sys |-> b.sys, hook |-> w.hook]
      OBVIOUS
    <3>3. /\ Len(w.hook) = n + 2 /\ w.hook \in Seq(HookRec) /\ fault' \in BOOLEAN
          /\ \A g \in 1..(n + 2) : SameHook(w.hook[g], b.hook[g])
      BY <2>2, <3>1 DEF After, Writing
    <3>4. /\ Sound(c) /\ c.hook = w.hook
          /\ \A g \in 1..(n + 2) : Excess(c, g) = Excess(b, g)
      BY <2>2, <3>2, <3>3, SameSound
    <3>5. /\ Len(u.hook) = n + 2
          /\ \A g \in 1..(n + 2) : Excess(u, g) = Excess(b, g)
          /\ \A g \in 1..(n + 2) : g # n + 2 => Like(u.hook[g], c.hook[g])
      BY <3>1, <3>2, <3>3, <3>4 DEF Deleted
    <3>6. /\ Sound(State') /\ Len(hook') = n + 2
          /\ \A g \in 1..(n + 2) : Excess(State', g) = Excess(b, g)
          /\ \A g \in 1..(n + 2) : g # n + 1 => Like(hook'[g], u.hook[g])
      BY <1>2, <3>1, <3>5 DEF Deleted
    <3>7. \A g \in 1..n : g \in 1..(n + 2) /\ g # n + 1 /\ g # n + 2
      BY <1>2
    <3>8. \A g \in 1..n : Twin(hook'[g], hook[g])
      BY <2>3, <3>3, <3>4, <3>5, <3>6, <3>7 DEF Like, SameHook, Twin
    <3>9. \A g \in Hooks : Excess(State', g) = Excess(State, g) /\ Twin(hook'[g], hook[g])
      BY <1>2, <2>3, <3>6, <3>7, <3>8
    <3>10. \A g \in Hooks' : g \notin Hooks => Excess(State', g) = 0
      BY <1>2, <2>4, <3>6
    <3>11. Len(hook') >= n /\ Len(hook') \in Nat
      BY <1>2, <3>6
    <3>12. Resumed
      BY <3>1 DEF After, Writing, Resumed
    <3> QED BY <1>1, <1>2, <3>3, <3>6, <3>9, <3>10, <3>11, <3>12
  <2> QED BY <2>5, <2>6
<1> QED BY <1>7, <1>8

\* What the end of run_simpleString leaves behind: one call less, and the hooks of the others.
LEMMA ReturnsKeeps ==
  ASSUME Typing, FrameHooks, NEW raised \in BOOLEAN, NEW ok \in BOOLEAN, NEW late \in BOOLEAN,
         RunReturns(raised, ok, late)
  PROVE  /\ Sound(State') /\ Len(hook') = Len(hook)
         /\ frames \in Seq(FrameRec) /\ Len(frames) \in Nat /\ Len(frames) # 0
         /\ frames' \in Seq(FrameRec) /\ Len(frames') = Len(frames) - 1 /\ fault' \in BOOLEAN
         /\ \A i \in 1..Len(frames') : SameCall(frames'[i], frames[i])
         /\ \A g \in Hooks : Excess(State', g) = Excess(State, g)
         /\ \A g \in Hooks : hook[g].frame # Len(frames) => Twin(hook'[g], hook[g])
         /\ \A k \in 1..Len(Last.hooks) :
              hook'[Last.hooks[k]].pStdOut = "null" =>
                sys'[hook[Last.hooks[k]].stream] = Given(State, Last, hook[Last.hooks[k]].stream)
<1>1. PICK q, r, x :
        /\ After(q, Written)
        /\ AllDeleted(r, [sys |-> sys, hook |-> q.hook], Last.hooks, ok) /\ Sound(r)
        /\ After(x, [hook |-> r.hook, frames |-> Front(q.frames), fault |-> q.fault])
        /\ State' = [sys |-> r.sys, hook |-> x.hook] /\ frames' = x.frames /\ fault' = x.fault
  <2>1. ReturnsDone(raised, ok, late)
    BY ReturnsIs
  <2> QED BY <2>1, Zenon DEF ReturnsDone
<1>2. PICK n : n = Len(frames)
  OBVIOUS
<1>3. frames \in Seq(FrameRec) /\ n \in Nat /\ n # 0 /\ Last = frames[n]
  BY <1>2 DEF Typing, RunReturns, Running, Last
<1>4. n \in 1..Len(frames) /\ Last \in FrameRec /\ CallOf(Last, n, hook)
  BY <1>2, <1>3 DEF FrameHooks
<1>5. PICK st : st = [sys |-> sys, hook |-> q.hook]
  OBVIOUS
<1>6. /\ st.hook = q.hook /\ st.sys = sys /\ Sound(st) /\ Len(st.hook) = Len(hook) /\ State.sys = sys
      /\ \A g \in Hooks : SameHook(st.hook[g], hook[g]) /\ Excess(st, g) = Excess(State, g)
  BY <1>1, <1>5, AfterSound DEF After, Written, Hooks, State
<1>7. CallOf(Last, n, st.hook)
  <2>1. \A g \in 1..Len(hook) : Twin(st.hook[g], hook[g])
    BY <1>6 DEF SameHook, Twin, Hooks
  <2>2. SameCall(Last, Last)
    BY DEF SameCall
  <2> QED BY <1>4, <1>6, <2>1, <2>2, CallGoesOn
<1>8. CallDeleted(r, st, Last, n)
  BY <1>1, <1>4, <1>5, <1>6, <1>7, CallDeletedIs
<1>9. /\ Sound(State') /\ Len(hook') = Len(hook) /\ State'.hook = hook' /\ State'.sys = sys' /\ sys' = r.sys
      /\ Hooks = 1..Len(hook) /\ Len(r.hook) = Len(hook)
      /\ \A g \in Hooks : SameHook(hook'[g], r.hook[g]) /\ Excess(State', g) = Excess(r, g)
  <2>1. /\ State'.hook = hook' /\ State'.sys = sys' /\ sys' = r.sys /\ hook' = x.hook
        /\ Hooks = 1..Len(hook)
    BY <1>1 DEF State, Hooks
  <2>2. Len(r.hook) = Len(hook)
    BY <1>6, <1>8 DEF CallDeleted
  <2>3. /\ x.hook \in Seq(HookRec) /\ Len(x.hook) = Len(hook)
        /\ \A g \in 1..Len(x.hook) : SameHook(x.hook[g], r.hook[g])
    BY <1>1, <2>2 DEF After, Writing
  <2>4. /\ Sound([sys |-> r.sys, hook |-> x.hook])
        /\ \A g \in 1..Len(x.hook) : Excess([sys |-> r.sys, hook |-> x.hook], g) = Excess(r, g)
    BY <1>1, <2>2, <2>3, SameSound
  <2> QED BY <1>1, <2>1, <2>2, <2>3, <2>4
<1>10. \A g \in Hooks : Excess(State', g) = Excess(State, g)
  BY <1>6, <1>8, <1>9 DEF CallDeleted
<1>11. \A g \in Hooks : hook[g].frame # n => Twin(hook'[g], hook[g])
  <2>1. SUFFICES ASSUME NEW g \in Hooks, hook[g].frame # n PROVE Twin(hook'[g], hook[g])
    OBVIOUS
  <2>2. SameHook(st.hook[g], hook[g]) /\ g \in 1..Len(st.hook)
    BY <1>6, <1>9
  <2>3. Like(r.hook[g], st.hook[g])
    BY <1>8, <2>1, <2>2 DEF CallDeleted, SameHook
  <2> QED BY <1>9, <2>2, <2>3 DEF SameHook, Like, Twin
<1>12. /\ q.frames \in Seq(FrameRec) /\ Len(q.frames) = n /\ q.frames # <<>>
       /\ \A i \in 1..n : SameCall(q.frames[i], frames[i])
  <2>1. /\ q.frames \in Seq(FrameRec) /\ Len(q.frames) = n
        /\ \A i \in 1..n : SameCall(q.frames[i], frames[i])
    BY <1>1, <1>2 DEF After, Writing, Written
  <2> QED BY <1>3, <2>1
<1>13. /\ frames' \in Seq(FrameRec) /\ Len(frames') = n - 1
       /\ \A i \in 1..(n - 1) : SameCall(frames'[i], q.frames[i])
  <2>1. /\ Front(q.frames) \in Seq(FrameRec) /\ Len(Front(q.frames)) = n - 1
        /\ \A i \in 1..(n - 1) : Front(q.frames)[i] = q.frames[i]
    BY <1>12, FrontIs
  <2>2. /\ frames' \in Seq(FrameRec) /\ Len(frames') = Len(Front(q.frames))
        /\ \A i \in 1..Len(Front(q.frames)) : SameCall(frames'[i], Front(q.frames)[i])
    BY <1>1 DEF After, Writing
  <2> QED BY <2>1, <2>2
<1>14. fault' \in BOOLEAN
  BY <1>1 DEF After, Writing
<1>15. \A i \in 1..(n - 1) : SameCall(frames'[i], frames[i])
  BY <1>3, <1>12, <1>13 DEF SameCall
<1>16. \A k \in 1..Len(Last.hooks) :
         hook'[Last.hooks[k]].pStdOut = "null" =>
           sys'[hook[Last.hooks[k]].stream] = Given(State, Last, hook[Last.hooks[k]].stream)
  <2>1. SUFFICES ASSUME NEW k \in 1..Len(Last.hooks), hook'[Last.hooks[k]].pStdOut = "null"
                 PROVE  sys'[hook[Last.hooks[k]].stream] = Given(State, Last, hook[Last.hooks[k]].stream)
    OBVIOUS
  <2>2. Owns(Last, n, hook, k)
    BY <1>4 DEF CallOf
  <2>3. PICK h : h = Last.hooks[k]
    OBVIOUS
  <2>4. /\ h \in Hooks /\ st.hook[h].stream = hook[h].stream /\ r.hook[h].pStdOut = "null"
    BY <1>6, <1>9, <2>1, <2>2, <2>3 DEF Owns, SameHook
  <2>5. r.sys[st.hook[h].stream] = Given(st, Last, st.hook[h].stream)
    BY <1>8, <2>3, <2>4 DEF CallDeleted
  <2> QED BY <1>6, <1>9, <2>3, <2>4, <2>5 DEF Given
<1> QED BY <1>2, <1>3, <1>9, <1>10, <1>11, <1>13, <1>14, <1>15, <1>16

\* The values stay in range.
LEMMA StepTyping == Typing /\ FrameHooks /\ [Next]_vars => Typing'
<1> SUFFICES ASSUME Typing, FrameHooks, [Next]_vars PROVE Typing'
  OBVIOUS
<1>1. hook \in Seq(HookRec) /\ Len(hook) \in Nat /\ frames \in Seq(FrameRec) /\ Len(frames) \in Nat
  <2>1. hook \in Seq(HookRec) /\ frames \in Seq(FrameRec)
    BY DEF Typing, Sound, State
  <2> QED BY <2>1
<1>2. /\ saved \in {None} \cup Hooks /\ Hooks = 1..Len(hook) /\ Hooks' = 1..Len(hook')
      /\ error \in BOOLEAN /\ failed \in BOOLEAN /\ touched \in BOOLEAN /\ fault \in BOOLEAN
  BY DEF Typing, Hooks
<1>3. ASSUME Sound(State'), frames' \in Seq(FrameRec), saved' \in {None} \cup Hooks',
             error' \in BOOLEAN, failed' \in BOOLEAN, touched' \in BOOLEAN, fault' \in BOOLEAN
      PROVE  Typing'
  BY <1>3 DEF Typing
<1>4. ASSUME Len(hook') \in Nat, Len(hook') >= Len(hook) PROVE Hooks \subseteq Hooks'
  BY <1>1, <1>2, <1>4
<1>5. ASSUME NEW okErr \in BOOLEAN, NEW okOut \in BOOLEAN, NEW okUndo \in BOOLEAN,
             Install(okErr, okOut, okUndo)
      PROVE  Typing'
  <2>1. Sound(State') /\ Hooks \subseteq Hooks' /\ fault' \in BOOLEAN
    BY <1>4, <1>5, InstallKeeps
  <2>2. UNCHANGED <<frames, saved, touched>> /\ failed' = (failed \/ ~okErr \/ ~okOut)
    BY <1>5 DEF Install
  <2>4. error' = FALSE \/ error' = (error \/ None \in {sys["err"], sys["out"]})
    BY <1>5 DEF Install
  <2>3. failed' \in BOOLEAN /\ error' \in BOOLEAN
    BY <2>2, <2>4
  <2> QED BY <1>1, <1>2, <1>3, <2>1, <2>2, <2>3
<1>6. ASSUME NEW okErr \in BOOLEAN, NEW okOut \in BOOLEAN, RunBuffered(okErr, okOut) PROVE Typing'
  <2>1. Sound(State') /\ Hooks \subseteq Hooks' /\ fault' \in BOOLEAN
    BY <1>4, <1>6, BufferedKeeps
  <2>2. UNCHANGED <<saved, touched>> /\ failed' = (failed \/ ~okErr)
    BY <1>6 DEF RunBuffered
  <2>5. error' = FALSE \/ error' = (error \/ ~okErr \/ sys["err"] = None)
    BY <1>6 DEF RunBuffered
  <2>3. failed' \in BOOLEAN /\ error' \in BOOLEAN
    BY <2>2, <2>5
  <2>4. frames' \in Seq(FrameRec)
    <3>1. Resumed \/ \E fr \in FrameRec : frames' = Append(frames, fr)
      BY <1>6, BufferedKeeps
    <3> QED BY <1>1, <3>1 DEF Resumed
  <2> QED BY <1>2, <1>3, <2>1, <2>2, <2>3, <2>4
<1>7. ASSUME Uninstall PROVE Typing'
  <2>1. /\ sys' = [s \in Stream |-> Orig] /\ hook' = <<>> /\ saved' = None
        /\ error' = FALSE /\ UNCHANGED <<frames, failed, touched, fault>>
    BY <1>7 DEF Uninstall
  <2>2. Sound(State')
    <3>1. PICK r : r = [sys |-> sys', hook |-> hook']
      OBVIOUS
    <3>2. r.sys = [s \in Stream |-> Orig] /\ r.hook = <<>> /\ State' = r
      BY <2>1, <3>1 DEF State
    <3>3. <<>> \in Seq(HookRec) /\ Len(<<>>) = 0 /\ 1..0 = {}
      OBVIOUS
    <3>4. r \in [sys : [Stream -> Int], hook : Seq(HookRec)]
      BY <3>1, <3>2, <3>3 DEF Orig
    <3> QED BY <3>2, <3>3, <3>4 DEF Sound, Orig
  <2> QED BY <1>1, <1>2, <1>3, <2>1, <2>2
<1>8. ASSUME Run PROVE Typing'
  <2>1. UNCHANGED <<sys, hook, saved, error, failed, touched, fault>> /\ frames' = Append(frames, Frame(FALSE, <<>>))
    BY <1>8 DEF Run
  <2>2. Frame(FALSE, <<>>) \in FrameRec
    <3>1. <<>> \in Seq(Int)
      OBVIOUS
    <3> QED BY <3>1, FrameIs
  <2>3. frames' \in Seq(FrameRec)
    <3>1. PICK fr \in FrameRec : fr = Frame(FALSE, <<>>)
      BY <2>2
    <3>2. frames' = Append(frames, fr)
      BY <2>1, <3>1
    <3> QED BY <1>1, <3>2
  <2>4. State' = State /\ Sound(State)
    BY <2>1 DEF State, Typing
  <2> QED BY <1>2, <1>3, <2>1, <2>3, <2>4
<1>9. ASSUME PyAssign PROVE Typing'
  <2>1. Sound(State') /\ Len(hook') = Len(hook)
    <3>1. Counted(State', State, saved, -1)
      BY <1>9, AssignIs
    <3> QED BY <3>1 DEF Counted, State
  <2>2. saved' = None /\ touched' = TRUE /\ UNCHANGED <<frames, error, failed, fault>>
    BY <1>9 DEF PyAssign
  <2> QED BY <1>1, <1>2, <1>3, <2>1, <2>2
<1>10. ASSUME NEW s \in Stream, PySave(s) PROVE Typing'
  <2>1. Sound(State') /\ Len(hook') = Len(hook)
    <3>1. Counted(State', State, sys[s], 1)
      BY <1>10, SaveIs
    <3> QED BY <3>1 DEF Counted, State
  <2>2. saved' = sys[s] /\ sys[s] # Orig /\ UNCHANGED <<frames, error, failed, touched, fault>>
    BY <1>10 DEF PySave
  <2>3. sys[s] \in {None, Orig} \cup (1..Len(hook))
    BY DEF Typing, Sound, State
  <2> QED BY <1>1, <1>2, <1>3, <2>1, <2>2, <2>3
<1>11. ASSUME NEW s \in Stream, NEW text \in Text, PyWrite(s, text) PROVE Typing'
  <2>1. PICK w : /\ After(w, Written) /\ State' = [sys |-> sys, hook |-> w.hook]
                 /\ frames' = w.frames /\ fault' = w.fault
    BY <1>11, WriteIs DEF WriteDone
  <2>2. Sound(State')
    BY <2>1, AfterSound
  <2>3. frames' \in Seq(FrameRec) /\ fault' \in BOOLEAN
    BY <2>1 DEF After, Writing
  <2>4. Len(hook') = Len(hook)
    BY <2>1 DEF State, After, Written
  <2>5. UNCHANGED <<saved, error, failed, touched>>
    BY <1>11 DEF PyWrite
  <2> QED BY <1>2, <1>3, <2>2, <2>3, <2>4, <2>5
<1>12. ASSUME NEW raised \in BOOLEAN, NEW ok \in BOOLEAN, NEW late \in BOOLEAN,
              RunReturns(raised, ok, late)
       PROVE  Typing'
  <2>1. Sound(State') /\ Len(hook') = Len(hook) /\ frames' \in Seq(FrameRec) /\ fault' \in BOOLEAN
    BY <1>12, ReturnsKeeps
  <2>2. UNCHANGED <<saved, touched>> /\ failed' = (failed \/ (~ok /\ Last.hooks # <<>>))
    BY <1>12 DEF RunReturns
  <2>4. error' = (raised /\ (~ok /\ \E i \in DOMAIN Last.hooks : hook[Last.hooks[i]].isInstall))
    BY <1>12 DEF RunReturns
  <2>3. failed' \in BOOLEAN /\ error' \in BOOLEAN
    BY <2>2, <2>4
  <2> QED BY <1>2, <1>3, <2>1, <2>2, <2>3
<1>13. CASE UNCHANGED vars
  <2>1. State' = State /\ Sound(State)
    BY <1>13 DEF vars, State, Typing
  <2> QED BY <1>1, <1>2, <1>3, <1>13, <2>1 DEF vars
<1>14. ASSUME NEW s \in Stream, PyDelete(s) PROVE Typing'
  <2>1. Sound(State') /\ Len(hook') = Len(hook)
    BY <1>14, DeleteIs DEF SysSet, State
  <2>2. touched' = TRUE /\ UNCHANGED <<saved, frames, error, failed, fault>>
    BY <1>14 DEF PyDelete
  <2> QED BY <1>1, <1>2, <1>3, <2>1, <2>2
<1> QED BY <1>5, <1>6, <1>7, <1>8, <1>9, <1>10, <1>11, <1>12, <1>13, <1>14 DEF Next

\* A call that begins comes last, and the others go on as long as their hooks do.
LEMMA CallsKept ==
  ASSUME FrameHooks, Len(frames) \in Nat, Len(hook) \in Nat, Len(hook') \in Nat, Len(hook') >= Len(hook),
         NEW n \in Nat, n =< Len(frames), \A i \in 1..n : SameCall(frames'[i], frames[i]),
         \A g \in Hooks : hook[g].frame \in 1..n => Twin(hook'[g], hook[g])
  PROVE  \A i \in 1..n : CallOf(frames'[i], i, hook')
<1>1. SUFFICES ASSUME NEW i \in 1..n PROVE CallOf(frames'[i], i, hook')
  OBVIOUS
<1>2. CallOf(frames[i], i, hook) /\ SameCall(frames'[i], frames[i])
  BY DEF FrameHooks
<1>3. 1..Len(hook) \subseteq 1..Len(hook')
  OBVIOUS
<1>4. \A g \in 1..Len(hook) : hook[g].frame = i => Twin(hook'[g], hook[g])
  BY DEF Hooks
<1> QED BY <1>2, <1>3, <1>4, CallGoesOn

\* The calls that run own their hooks.
LEMMA StepCalls == Typing /\ FrameHooks /\ [Next]_vars => FrameHooks'
<1> SUFFICES ASSUME Typing, FrameHooks, [Next]_vars PROVE FrameHooks'
  OBVIOUS
<1>1. hook \in Seq(HookRec) /\ Len(hook) \in Nat /\ frames \in Seq(FrameRec) /\ Len(frames) \in Nat
  <2>1. hook \in Seq(HookRec) /\ frames \in Seq(FrameRec)
    BY DEF Typing, Sound, State
  <2> QED BY <2>1
<1>15. ASSUME frames' = frames PROVE Resumed
  BY <1>1, <1>15 DEF Resumed, SameCall
<1>2. ASSUME Resumed, Len(hook') \in Nat, Len(hook') >= Len(hook),
             \A g \in Hooks : Twin(hook'[g], hook[g])
      PROVE  FrameHooks'
  <2>1. Len(frames') = Len(frames) /\ \A i \in 1..Len(frames) : SameCall(frames'[i], frames[i])
    BY <1>2 DEF Resumed
  <2>2. \A i \in 1..Len(frames) : CallOf(frames'[i], i, hook')
    BY <1>1, <1>2, <2>1, CallsKept
  <2> QED BY <2>1, <2>2 DEF FrameHooks
<1>3. ASSUME NEW fr \in FrameRec, frames' = Append(frames, fr), CallOf(fr, Len(frames) + 1, hook'),
             Len(hook') \in Nat, Len(hook') >= Len(hook), \A g \in Hooks : Twin(hook'[g], hook[g])
      PROVE  FrameHooks'
  <2>1. Len(frames') = Len(frames) + 1 /\ frames'[Len(frames) + 1] = fr
        /\ \A i \in 1..Len(frames) : frames'[i] = frames[i]
    BY <1>1, <1>3
  <2>2. \A i \in 1..Len(frames) : SameCall(frames'[i], frames[i])
    BY <2>1 DEF SameCall
  <2>3. \A i \in 1..Len(frames) : CallOf(frames'[i], i, hook')
    BY <1>1, <1>3, <2>2, CallsKept
  <2>4. \A i \in 1..(Len(frames) + 1) : i \in 1..Len(frames) \/ i = Len(frames) + 1
    BY <1>1
  <2>5. SUFFICES ASSUME NEW i \in 1..Len(frames') PROVE CallOf(frames'[i], i, hook')
    BY DEF FrameHooks
  <2> QED BY <1>3, <2>1, <2>3, <2>4
<1>4. \A a, b : Like(a, b) => Twin(a, b)
  BY DEF Like, Twin
<1>5. \A a, b : SameHook(a, b) => Twin(a, b)
  BY DEF SameHook, Twin
<1>6. ASSUME NEW okErr \in BOOLEAN, NEW okOut \in BOOLEAN, NEW okUndo \in BOOLEAN,
             Install(okErr, okOut, okUndo)
      PROVE  FrameHooks'
  <2>1. frames' = frames
    BY <1>6 DEF Install
  <2> QED BY <1>2, <1>6, <1>15, <2>1, InstallKeeps
<1>7. ASSUME NEW okErr \in BOOLEAN, NEW okOut \in BOOLEAN, RunBuffered(okErr, okOut) PROVE FrameHooks'
  <2>1. /\ Len(hook') \in Nat /\ Len(hook') >= Len(hook)
        /\ \A g \in Hooks : Twin(hook'[g], hook[g])
        /\ Resumed \/ \E fr \in FrameRec :
              frames' = Append(frames, fr) /\ CallOf(fr, Len(frames) + 1, hook')
    BY <1>7, BufferedKeeps
  <2>2. CASE Resumed
    BY <1>2, <2>1, <2>2
  <2>3. CASE ~Resumed
    BY <1>3, <2>1, <2>3
  <2> QED BY <2>2, <2>3
<1>8. CASE Uninstall
  <2>1. frames' = <<>>
    BY <1>8 DEF Uninstall
  <2> QED BY <2>1 DEF FrameHooks
<1>9. CASE Run
  <2>1. UNCHANGED hook /\ frames' = Append(frames, Frame(FALSE, <<>>))
    BY <1>9 DEF Run
  <2>2. PICK e \in Seq(Int) : e = <<>>
    <3>1. <<>> \in Seq(Int)
      OBVIOUS
    <3> QED BY <3>1
  <2>3. PICK fr : fr = Frame(FALSE, e)
    OBVIOUS
  <2>4. fr \in FrameRec /\ fr.buffered = FALSE /\ fr.hooks = e /\ fr.before = sys
    BY <2>3, FrameIs
  <2>5. CallOf(fr, Len(frames) + 1, hook')
    <3>1. Len(e) = 0 /\ 1..0 = {}
      BY <2>2
    <3> QED BY <2>2, <2>4, <3>1 DEF CallOf
  <2>6. \A g \in Hooks : Twin(hook'[g], hook[g])
    BY <2>1 DEF Twin
  <2>7. frames' = Append(frames, fr) /\ Len(hook') \in Nat /\ Len(hook') >= Len(hook)
    BY <1>1, <2>1, <2>2, <2>3
  <2> QED BY <1>3, <2>4, <2>5, <2>6, <2>7
<1>10. CASE PyAssign
  <2>1. Counted(State', State, saved, -1) /\ frames' = frames
    BY <1>10, AssignIs DEF PyAssign
  <2>2. Len(hook') = Len(hook) /\ \A g \in Hooks : Like(hook'[g], hook[g])
    BY <2>1 DEF Counted, State, Hooks
  <2> QED BY <1>1, <1>2, <1>4, <1>15, <2>1, <2>2
<1>11. ASSUME NEW s \in Stream, PySave(s) PROVE FrameHooks'
  <2>1. Counted(State', State, sys[s], 1) /\ frames' = frames
    BY <1>11, SaveIs DEF PySave
  <2>2. Len(hook') = Len(hook) /\ \A g \in Hooks : Like(hook'[g], hook[g])
    BY <2>1 DEF Counted, State, Hooks
  <2> QED BY <1>1, <1>2, <1>4, <1>15, <2>1, <2>2
<1>12. ASSUME NEW s \in Stream, NEW text \in Text, PyWrite(s, text) PROVE FrameHooks'
  <2>1. PICK w : /\ After(w, Written) /\ State' = [sys |-> sys, hook |-> w.hook]
                 /\ frames' = w.frames /\ fault' = w.fault
    BY <1>12, WriteIs DEF WriteDone
  <2>2. /\ Len(hook') = Len(hook) /\ Len(frames') = Len(frames)
        /\ \A i \in 1..Len(frames) : SameCall(frames'[i], frames[i])
        /\ \A g \in Hooks : SameHook(hook'[g], hook[g])
    BY <2>1 DEF State, After, Written, Hooks
  <2>3. \A i \in 1..Len(frames) : CallOf(frames'[i], i, hook')
    BY <1>1, <1>5, <2>2, CallsKept
  <2> QED BY <2>2, <2>3 DEF FrameHooks
<1>13. ASSUME NEW raised \in BOOLEAN, NEW ok \in BOOLEAN, NEW late \in BOOLEAN,
              RunReturns(raised, ok, late)
       PROVE  FrameHooks'
  <2>1. PICK n : n = Len(frames) - 1
    OBVIOUS
  <2>2. /\ Len(hook') = Len(hook) /\ Len(frames) # 0 /\ Len(frames') = n
        /\ \A i \in 1..n : SameCall(frames'[i], frames[i])
        /\ \A g \in Hooks : hook[g].frame # Len(frames) => Twin(hook'[g], hook[g])
    BY <1>13, <2>1, ReturnsKeeps
  <2>3. n \in Nat /\ n =< Len(frames) /\ Len(frames) \notin 1..n
    BY <1>1, <2>1, <2>2
  <2>4. \A i \in 1..n : CallOf(frames'[i], i, hook')
    BY <1>1, <2>2, <2>3, CallsKept
  <2> QED BY <2>2, <2>4 DEF FrameHooks
<1>14. CASE UNCHANGED vars
  BY <1>14 DEF vars, FrameHooks
<1>16. ASSUME NEW s \in Stream, PyDelete(s) PROVE FrameHooks'
  <2>1. SysSet(State', State, s, None) /\ frames' = frames
    BY <1>16, DeleteIs DEF PyDelete
  <2>2. Len(hook') = Len(hook) /\ \A g \in Hooks : Like(hook'[g], hook[g])
    BY <2>1 DEF SysSet, State, Hooks
  <2> QED BY <1>1, <1>2, <1>4, <1>15, <2>1, <2>2
<1> QED BY <1>6, <1>7, <1>8, <1>9, <1>10, <1>11, <1>12, <1>13, <1>14, <1>16 DEF Next

\* The types at first.
LEMMA InitTyping == Init => Typing /\ FrameHooks
<1> SUFFICES ASSUME Init PROVE Typing /\ FrameHooks
  OBVIOUS
<1>1. /\ sys = [s \in Stream |-> Orig] /\ hook = <<>> /\ frames = <<>> /\ saved = None
      /\ error = FALSE /\ failed = FALSE /\ touched = FALSE /\ fault = FALSE
  BY DEF Init
<1>2. Sound(State)
  <2>1. PICK r : r = [sys |-> sys, hook |-> hook]
    OBVIOUS
  <2>2. r.sys = [s \in Stream |-> Orig] /\ r.hook = <<>> /\ State = r
    BY <1>1, <2>1 DEF State
  <2>3. <<>> \in Seq(HookRec) /\ Len(<<>>) = 0 /\ 1..0 = {}
    OBVIOUS
  <2>4. r \in [sys : [Stream -> Int], hook : Seq(HookRec)]
    BY <2>1, <2>2, <2>3 DEF Orig
  <2> QED BY <2>2, <2>3, <2>4 DEF Sound, Orig
<1>3. frames \in Seq(FrameRec) /\ Len(frames) = 0 /\ 1..0 = {}
  BY <1>1
<1> QED BY <1>1, <1>2, <1>3 DEF Typing, FrameHooks

\* The values stay in range and the running calls own their hooks: what every further
\* argument about a step starts from.
LEMMA InvCalls == Spec => [](Typing /\ FrameHooks)
<1>1. Typing /\ FrameHooks /\ [Next]_vars => (Typing /\ FrameHooks)'
  BY StepTyping, StepCalls
<1> QED BY <1>1, InitTyping, PTL DEF Spec

-----------------------------------------------------------------------------
(* RunRestores *)

\* Only the end of run_simpleString makes the calls fewer, and it gives back what it took.
LEMMA StepRestores ==
  ASSUME Typing, FrameHooks, [Next]_vars, Len(frames') < Len(frames)
  PROVE  \A k \in DOMAIN Last.hooks :
           hook'[Last.hooks[k]].pStdOut = "null" =>
             sys'[hook[Last.hooks[k]].stream] = Given(State, Last, hook[Last.hooks[k]].stream)
<1>1. frames \in Seq(FrameRec) /\ Len(frames) \in Nat
  <2>1. frames \in Seq(FrameRec)
    BY DEF Typing
  <2> QED BY <2>1
<1>2. frames' # frames
  BY <1>1
<1>3. \A fr : Len(Append(frames, fr)) = Len(frames) + 1
  BY <1>1
<1>4. \A fr : frames' # Append(frames, fr)
  BY <1>1, <1>3
<1>5. \A okErr, okOut, okUndo \in BOOLEAN : ~Install(okErr, okOut, okUndo)
  BY <1>2 DEF Install
<1>6. \A okErr, okOut \in BOOLEAN : ~RunBuffered(okErr, okOut)
  <2>1. SUFFICES ASSUME NEW okErr \in BOOLEAN, NEW okOut \in BOOLEAN, RunBuffered(okErr, okOut) PROVE FALSE
    OBVIOUS
  <2>2. Len(frames') = Len(frames) \/ \E fr \in FrameRec : frames' = Append(frames, fr)
    BY <2>1, BufferedKeeps DEF Resumed
  <2> QED BY <1>1, <1>4, <2>2
<1>7. ~Uninstall /\ ~Run /\ ~PyAssign /\ \A s \in Stream : ~PySave(s) /\ ~PyDelete(s)
  BY <1>2, <1>4 DEF Uninstall, Run, PyAssign, PySave, PyDelete
<1>8. \A s \in Stream, text \in Text : ~PyWrite(s, text)
  <2>1. SUFFICES ASSUME NEW s \in Stream, NEW text \in Text, PyWrite(s, text) PROVE FALSE
    OBVIOUS
  <2>2. PICK w : After(w, Written) /\ frames' = w.frames
    BY <2>1, WriteIs DEF WriteDone
  <2>3. Len(frames') = Len(frames)
    BY <2>2 DEF After, Written
  <2> QED BY <1>1, <2>3
<1>9. ~UNCHANGED vars
  BY <1>2 DEF vars
<1>10. PICK raised \in BOOLEAN, ok \in BOOLEAN, late \in BOOLEAN : RunReturns(raised, ok, late)
  BY <1>5, <1>6, <1>7, <1>8, <1>9 DEF Next
<1>11. \A k \in 1..Len(Last.hooks) :
         hook'[Last.hooks[k]].pStdOut = "null" =>
           sys'[hook[Last.hooks[k]].stream] = Given(State, Last, hook[Last.hooks[k]].stream)
  BY <1>10, ReturnsKeeps
<1>12. DOMAIN Last.hooks = 1..Len(Last.hooks)
  <2>1. Last \in FrameRec
    <3>1. Len(frames) # 0
      BY <1>10, ReturnsKeeps
    <3> QED BY <1>1, <3>1 DEF Last
  <2>2. Last.hooks \in Seq(Int)
    BY <2>1 DEF FrameRec
  <2> QED BY <2>2
<1> QED BY <1>11, <1>12

\* A call of run_simpleString that returns leaves the streams it had taken as it found them,
\* whatever Python code and calls inside it did to sys, deletions included.  A stream that
\* did not exist when the call began stays as the call leaves it.
THEOREM RunRestoresThm == Spec => RunRestores
<1>1. Typing /\ FrameHooks /\ [Next]_vars =>
        [Len(frames') < Len(frames) =>
           \A i \in DOMAIN Last.hooks :
             LET h == Last.hooks[i]
                 before == Last.before[hook[h].stream]
             IN  hook'[h].pStdOut = "null" =>
                   sys'[hook[h].stream] = IF before = None THEN sys[hook[h].stream] ELSE before]_vars
  BY StepRestores DEF Given, State
<1> QED BY <1>1, InvCalls, PTL DEF Spec, RunRestores

-----------------------------------------------------------------------------
(* ReferencesBalance *)

\* An object is referred to once for each of its holders.
Balanced == \A o \in Hooks : Excess(State, o) = In(saved, o)

\* Every step keeps the references in balance.
LEMMA StepBalanced == Typing /\ FrameHooks /\ Balanced /\ [Next]_vars => Balanced'
<1> SUFFICES ASSUME Typing, FrameHooks, Balanced, [Next]_vars PROVE Balanced'
  OBVIOUS
<1>1. /\ hook \in Seq(HookRec) /\ Len(hook) \in Nat /\ saved \in {None} \cup Hooks
      /\ Hooks = 1..Len(hook) /\ Hooks' = 1..Len(hook') /\ State.hook = hook
  <2>1. hook \in Seq(HookRec)
    BY DEF Typing, Sound, State
  <2> QED BY <2>1 DEF Typing, Hooks, State
<1>2. ASSUME saved' = saved, Len(hook') \in Nat, Len(hook') >= Len(hook),
             \A g \in Hooks : Excess(State', g) = Excess(State, g),
             \A g \in Hooks' : g \notin Hooks => Excess(State', g) = 0
      PROVE  Balanced'
  <2>1. SUFFICES ASSUME NEW g \in Hooks' PROVE Excess(State', g) = In(saved', g)
    BY DEF Balanced
  <2>2. CASE g \in Hooks
    BY <1>2, <2>2 DEF Balanced
  <2>3. CASE g \notin Hooks
    <3>1. saved # g
      BY <1>1, <1>2, <2>3 DEF None
    <3> QED BY <1>2, <2>3, <3>1 DEF In
  <2> QED BY <2>2, <2>3
<1>3. ASSUME Len(hook') = Len(hook), saved' = saved, \A g \in Hooks : Excess(State', g) = Excess(State, g)
      PROVE  Balanced'
  BY <1>1, <1>3 DEF Balanced
<1>4. ASSUME NEW okErr \in BOOLEAN, NEW okOut \in BOOLEAN, NEW okUndo \in BOOLEAN, Install(okErr, okOut, okUndo)
      PROVE  Balanced'
  <2>1. saved' = saved
    BY <1>4 DEF Install
  <2> QED BY <1>2, <1>4, <2>1, InstallKeeps
<1>5. ASSUME NEW okErr \in BOOLEAN, NEW okOut \in BOOLEAN, RunBuffered(okErr, okOut) PROVE Balanced'
  <2>1. saved' = saved
    BY <1>5 DEF RunBuffered
  <2> QED BY <1>2, <1>5, <2>1, BufferedKeeps
<1>6. CASE Uninstall
  <2>1. hook' = <<>>
    BY <1>6 DEF Uninstall
  <2>2. Hooks' = {}
    BY <1>1, <2>1
  <2> QED BY <2>2 DEF Balanced
<1>7. CASE Run
  <2>1. State' = State /\ hook' = hook /\ saved' = saved
    BY <1>7 DEF Run, State
  <2> QED BY <1>3, <2>1
<1>8. CASE PyAssign
  <2>1. Counted(State', State, saved, -1) /\ saved' = None
    BY <1>8, AssignIs DEF PyAssign
  <2>2. Len(hook') = Len(hook)
    BY <2>1 DEF Counted, State
  <2>3. SUFFICES ASSUME NEW g \in Hooks PROVE Excess(State', g) = In(None, g)
    BY <1>1, <2>1, <2>2 DEF Balanced
  <2>4. Excess(State', g) = Excess(State, g) + (IF g = saved THEN -1 ELSE 0)
    BY <1>1, <2>1 DEF Counted
  <2>5. Excess(State, g) = (IF g = saved THEN 1 ELSE 0) /\ In(None, g) = 0
    BY <1>1 DEF Balanced, In, None
  <2> QED BY <2>4, <2>5
<1>9. ASSUME NEW s \in Stream, PySave(s) PROVE Balanced'
  <2>1. Counted(State', State, sys[s], 1) /\ saved' = sys[s] /\ saved = None
    BY <1>9, SaveIs DEF PySave
  <2>2. Len(hook') = Len(hook)
    BY <2>1 DEF Counted, State
  <2>3. SUFFICES ASSUME NEW g \in Hooks PROVE Excess(State', g) = In(sys[s], g)
    BY <1>1, <2>1, <2>2 DEF Balanced
  <2>4. Excess(State', g) = Excess(State, g) + (IF g = sys[s] THEN 1 ELSE 0)
    BY <1>1, <2>1 DEF Counted
  <2>5. Excess(State, g) = 0 /\ In(sys[s], g) = (IF g = sys[s] THEN 1 ELSE 0)
    BY <1>1, <2>1 DEF Balanced, In, None
  <2> QED BY <2>4, <2>5
<1>10. ASSUME NEW s \in Stream, NEW text \in Text, PyWrite(s, text) PROVE Balanced'
  <2>1. PICK w : After(w, Written) /\ State' = [sys |-> sys, hook |-> w.hook]
    BY <1>10, WriteIs DEF WriteDone
  <2>2. \A g \in Hooks : Excess(State', g) = Excess(State, g)
    BY <2>1, AfterSound
  <2>3. Len(hook') = Len(hook) /\ saved' = saved
    BY <1>10, <2>1 DEF State, After, Written, PyWrite
  <2> QED BY <1>3, <2>2, <2>3
<1>11. ASSUME NEW raised \in BOOLEAN, NEW ok \in BOOLEAN, NEW late \in BOOLEAN, RunReturns(raised, ok, late)
       PROVE  Balanced'
  <2>1. saved' = saved
    BY <1>11 DEF RunReturns
  <2> QED BY <1>3, <1>11, <2>1, ReturnsKeeps
<1>12. ASSUME NEW s \in Stream, PyDelete(s) PROVE Balanced'
  <2>1. SysSet(State', State, s, None)
    BY <1>12, DeleteIs
  <2>2. Len(hook') = Len(hook) /\ saved' = saved
    BY <1>12, <2>1 DEF State, SysSet, PyDelete
  <2>3. \A g \in Hooks : Excess(State', g) = Excess(State, g)
    BY <1>1, <2>1 DEF SysSet
  <2> QED BY <1>3, <2>2, <2>3
<1>13. CASE UNCHANGED vars
  <2>1. State' = State /\ hook' = hook /\ saved' = saved
    BY <1>13 DEF vars, State
  <2> QED BY <1>3, <2>1
<1> QED BY <1>4, <1>5, <1>6, <1>7, <1>8, <1>9, <1>10, <1>11, <1>12, <1>13 DEF Next

\* As long as sys can be imported, a hook that has its object is alive, an object that keeps
\* another one belongs to a hook, and a call with a buffer has one hook, which is installed.
HookWhole(x) == (x.pStdOut = "owned" => x.alive) /\ (x.old # None => x.pStdOut = "owned")
CallWhole(fr, hs) == fr.buffered => Len(fr.hooks) = 1 /\ hs[fr.hooks[1]].isInstall

Whole ==
  ~failed => /\ \A h \in Hooks : HookWhole(hook[h])
             /\ \A i \in 1..Len(frames) : CallWhole(frames[i], hook)

\* hook h is new and installed for stream s and call f, and keeps what was in sys
Added(h, s, f) ==
  /\ hook'[h].stream = s /\ hook'[h].frame = f /\ hook'[h].alive /\ hook'[h].wbuffer = <<>>
  /\ hook'[h].pStdOut = "owned" /\ hook'[h].isInstall /\ hook'[h].old = sys[s]

\* Script::install that succeeds ...
InstallOk ==
  /\ Len(hook') = Len(hook) + 2 /\ \A g \in Hooks : Like(hook'[g], hook[g])
  /\ sys'["err"] = Len(hook) + 1 /\ sys'["out"] = Len(hook) + 2
  /\ Added(Len(hook) + 1, "err", 0) /\ Added(Len(hook) + 2, "out", 0)

\* An install that does not fail.
LEMMA InstallOkIs == ASSUME Typing, NEW okUndo \in BOOLEAN, Install(TRUE, TRUE, okUndo) PROVE InstallOk
<1>1. PICK n : n = Len(hook)
  OBVIOUS
<1>2. Sound(State) /\ State.hook = hook /\ State.sys = sys /\ n \in Nat /\ sys \in [Stream -> Int] /\ Hooks = 1..n
  <2>1. hook \in Seq(HookRec) /\ sys \in [Stream -> Int]
    BY DEF Typing, Sound, State
  <2> QED BY <1>1, <2>1 DEF Typing, State, Hooks
<1>3. PICK a : Made(a, State, "err", 0, TRUE) /\ Made(State', a, "out", 0, TRUE)
  BY InstallIs DEF InstallDone
<1>4. State'.hook = hook' /\ State'.sys = sys'
  BY DEF State
<1>5. /\ Len(a.hook) = n + 1 /\ a.sys = [sys EXCEPT !["err"] = n + 1]
      /\ \A g \in 1..n : Like(a.hook[g], hook[g])
      /\ a.hook[n + 1].stream = "err" /\ a.hook[n + 1].frame = 0 /\ a.hook[n + 1].alive
      /\ a.hook[n + 1].wbuffer = <<>> /\ a.hook[n + 1].pStdOut = "owned" /\ a.hook[n + 1].isInstall
      /\ a.hook[n + 1].old = sys["err"]
  BY <1>1, <1>2, <1>3 DEF Made
<1>6. a.sys["err"] = n + 1 /\ a.sys["out"] = sys["out"] /\ a.sys \in [Stream -> Int] /\ "out" \in Stream
  BY <1>2, <1>5 DEF Stream
<1>7. /\ Len(hook') = n + 2 /\ sys' = [a.sys EXCEPT !["out"] = n + 2]
      /\ \A g \in 1..(n + 1) : Like(hook'[g], a.hook[g])
      /\ hook'[n + 2].stream = "out" /\ hook'[n + 2].frame = 0 /\ hook'[n + 2].alive
      /\ hook'[n + 2].wbuffer = <<>> /\ hook'[n + 2].pStdOut = "owned" /\ hook'[n + 2].isInstall
      /\ hook'[n + 2].old = sys["out"]
  <2>1. Len(a.hook) + 1 = n + 2
    BY <1>2, <1>5
  <2> QED BY <1>3, <1>4, <1>5, <1>6, <2>1 DEF Made
<1>8. sys'["err"] = n + 1 /\ sys'["out"] = n + 2
  BY <1>6, <1>7
<1>9. \A g \in 1..n : Like(hook'[g], hook[g])
  <2>1. \A g \in 1..n : Like(hook'[g], a.hook[g]) /\ Like(a.hook[g], hook[g])
    BY <1>2, <1>5, <1>7
  <2> QED BY <2>1 DEF Like
<1>10. Added(n + 1, "err", 0)
  <2>1. Like(hook'[n + 1], a.hook[n + 1])
    BY <1>2, <1>7
  <2> QED BY <1>5, <2>1 DEF Added, Like
<1>11. Added(n + 2, "out", 0)
  BY <1>7 DEF Added
<1> QED BY <1>1, <1>2, <1>7, <1>8, <1>9, <1>10, <1>11 DEF InstallOk

\* ... run_simpleString that gets a buffer for stderr ...
BufferedOk ==
  /\ Len(hook') = Len(hook) + 1 /\ \A g \in Hooks : Like(hook'[g], hook[g])
  /\ sys'["err"] = Len(hook) + 1 /\ sys'["out"] = sys["out"]
  /\ Added(Len(hook) + 1, "err", Len(frames) + 1)
  /\ Len(frames') = Len(frames) + 1 /\ \A i \in 1..Len(frames) : frames'[i] = frames[i]
  /\ frames'[Len(frames) + 1].buffered /\ Len(frames'[Len(frames) + 1].hooks) = 1
  /\ frames'[Len(frames) + 1].hooks[1] = Len(hook) + 1
  /\ frames'[Len(frames) + 1].wrote = Silence /\ frames'[Len(frames) + 1].buffer = Silence

\* A buffered run that begins without a failure.
LEMMA BufferedOkIs == ASSUME Typing, NEW okOut \in BOOLEAN, RunBuffered(TRUE, okOut) PROVE BufferedOk
<1>1. PICK n, f : n = Len(hook) /\ f = Len(frames) + 1
  OBVIOUS
<1>2. /\ Sound(State) /\ State.hook = hook /\ State.sys = sys /\ n \in Nat /\ sys \in [Stream -> Int]
      /\ Hooks = 1..n /\ frames \in Seq(FrameRec) /\ f \in Nat
  <2>1. hook \in Seq(HookRec) /\ sys \in [Stream -> Int] /\ frames \in Seq(FrameRec)
    BY DEF Typing, Sound, State
  <2> QED BY <1>1, <2>1 DEF Typing, State, Hooks
<1>3. Made(State', State, "err", f, TRUE) /\ frames' = Append(frames, Frame(TRUE, <<n + 1>>))
  BY <1>1, BufferedIs DEF BufferedDone
<1>4. State'.hook = hook' /\ State'.sys = sys'
  BY DEF State
<1>5. /\ Len(hook') = n + 1 /\ sys' = [sys EXCEPT !["err"] = n + 1]
      /\ \A g \in 1..n : Like(hook'[g], hook[g])
      /\ hook'[n + 1].stream = "err" /\ hook'[n + 1].frame = f /\ hook'[n + 1].alive
      /\ hook'[n + 1].wbuffer = <<>> /\ hook'[n + 1].pStdOut = "owned" /\ hook'[n + 1].isInstall
      /\ hook'[n + 1].old = sys["err"]
  BY <1>1, <1>2, <1>3, <1>4 DEF Made
<1>6. sys'["err"] = n + 1 /\ sys'["out"] = sys["out"]
  BY <1>2, <1>5 DEF Stream
<1>7. Added(n + 1, "err", f)
  BY <1>5 DEF Added
<1>8. PICK hs \in Seq(Int) : hs = <<n + 1>>
  <2>1. <<n + 1>> \in Seq(Int)
    BY <1>2
  <2> QED BY <2>1
<1>9. Len(hs) = 1 /\ hs[1] = n + 1
  BY <1>8
<1>10. PICK fr : fr = Frame(TRUE, hs)
  OBVIOUS
<1>11. fr \in FrameRec /\ fr.buffered = TRUE /\ fr.hooks = hs /\ fr.buffer = Silence /\ fr.wrote = Silence
  BY <1>10, FrameIs
<1>12. frames' = Append(frames, fr)
  BY <1>3, <1>8, <1>10
<1>13. Len(frames') = f /\ frames'[f] = fr /\ \A i \in 1..Len(frames) : frames'[i] = frames[i]
  BY <1>1, <1>2, <1>11, <1>12
<1> QED BY <1>1, <1>2, <1>5, <1>6, <1>7, <1>9, <1>11, <1>13 DEF BufferedOk

\* ... and its end: q is what printing the exception leaves, r deleting the hooks, x printing again.
Ended(q, r, x, raised, late) ==
  /\ IF raised THEN Printed(q, Written, sys["err"]) ELSE q = Written
  /\ After(q, Written)
  /\ Last.hooks = <<>> => r = [sys |-> sys, hook |-> q.hook]
  /\ Last.hooks # <<>> =>
       /\ Len(Last.hooks) = 1 /\ Owns(Last, Len(frames), hook, 1) /\ hook[Last.hooks[1]].isInstall
       /\ Deleted(r, [sys |-> sys, hook |-> q.hook], Last.hooks[1], TRUE)
  /\ LET left == [hook |-> r.hook, frames |-> Front(q.frames), fault |-> q.fault]
     IN  After(x, left) /\ (~late => x = left)
  /\ State' = [sys |-> r.sys, hook |-> x.hook] /\ frames' = x.frames /\ fault' = x.fault

ReturnsOk(raised, late) == \E q, r, x : Ended(q, r, x, raised, late)

\* A return while nothing has failed.
LEMMA ReturnsOkIs ==
  ASSUME Typing, FrameHooks, Whole, ~failed', NEW raised \in BOOLEAN, NEW ok \in BOOLEAN, NEW late \in BOOLEAN,
         RunReturns(raised, ok, late)
  PROVE  ReturnsOk(raised, late)
<1>0. ReturnsDone(raised, ok, late)
  BY ReturnsIs
<1>1. PICK q, r, x :
    /\ IF raised THEN Printed(q, Written, sys["err"]) ELSE q = Written
    /\ After(q, Written)
    /\ AllDeleted(r, [sys |-> sys, hook |-> q.hook], Last.hooks, ok) /\ Sound(r)
    /\ LET left == [hook |-> r.hook, frames |-> Front(q.frames), fault |-> q.fault]
       IN  After(x, left) /\ (~late => x = left)
    /\ State' = [sys |-> r.sys, hook |-> x.hook] /\ frames' = x.frames /\ fault' = x.fault
  BY <1>0 DEF ReturnsDone
<1>2. ~failed /\ (Last.hooks = <<>> \/ ok)
  BY DEF RunReturns
<1>3. CASE Last.hooks = <<>>
  <2>1. Ended(q, r, x, raised, late)
    BY <1>1, <1>3 DEF Ended, AllDeleted
  <2> QED BY <2>1 DEF ReturnsOk
<1>4. CASE Last.hooks # <<>>
  <2>1. Len(frames) \in 1..Len(frames) /\ Last = frames[Len(frames)]
    <3>1. frames \in Seq(FrameRec) /\ Len(frames) \in Nat /\ Len(frames) # 0
      BY ReturnsKeeps
    <3> QED BY <3>1 DEF Last
  <2>2. CallOf(Last, Len(frames), hook)
    BY <2>1 DEF FrameHooks
  <2>3. Last.buffered
    BY <1>4, <2>2 DEF CallOf
  <2>4. Len(Last.hooks) = 1 /\ hook[Last.hooks[1]].isInstall
    BY <1>2, <2>1, <2>3 DEF Whole, CallWhole
  <2>5. Owns(Last, Len(frames), hook, 1)
    BY <2>2, <2>4 DEF CallOf
  <2>6. ok = TRUE
    BY <1>2, <1>4
  <2>7. Deleted(r, [sys |-> sys, hook |-> q.hook], Last.hooks[1], TRUE)
    BY <1>1, <2>4, <2>6 DEF AllDeleted
  <2>8. Ended(q, r, x, raised, late)
    BY <1>1, <1>4, <2>4, <2>5, <2>7 DEF Ended
  <2> QED BY <2>8 DEF ReturnsOk
<1> QED BY <1>3, <1>4

\* What has failed or has been touched stays so.
LEMMA StaysFailed == [Next]_vars => (failed => failed') /\ (touched => touched')
<1> SUFFICES ASSUME [Next]_vars PROVE (failed => failed') /\ (touched => touched')
  OBVIOUS
<1>1. ASSUME NEW okErr \in BOOLEAN, NEW okOut \in BOOLEAN, NEW okUndo \in BOOLEAN, Install(okErr, okOut, okUndo)
      PROVE  (failed => failed') /\ (touched => touched')
  <2>1. failed' = (failed \/ ~okErr \/ ~okOut) /\ touched' = touched
    BY <1>1, Zenon DEF Install
  <2> QED BY <2>1
<1>2. ASSUME NEW okErr \in BOOLEAN, NEW okOut \in BOOLEAN, RunBuffered(okErr, okOut)
      PROVE  (failed => failed') /\ (touched => touched')
  <2>1. failed' = (failed \/ ~okErr) /\ touched' = touched
    BY <1>2, Zenon DEF RunBuffered
  <2> QED BY <2>1
<1>3. ASSUME Uninstall \/ Run \/ PyAssign PROVE (failed => failed') /\ (touched => touched')
  <2>1. CASE Uninstall
    BY <2>1 DEF Uninstall
  <2>2. CASE Run
    BY <2>2 DEF Run
  <2>3. CASE PyAssign
    BY <2>3 DEF PyAssign
  <2> QED BY <1>3, <2>1, <2>2, <2>3
<1>4. ASSUME NEW s \in Stream, NEW text \in Text, PyWrite(s, text)
      PROVE  (failed => failed') /\ (touched => touched')
  BY <1>4 DEF PyWrite
<1>5. ASSUME NEW s \in Stream, PySave(s) \/ PyDelete(s) PROVE (failed => failed') /\ (touched => touched')
  BY <1>5 DEF PySave, PyDelete
<1>6. ASSUME NEW raised \in BOOLEAN, NEW ok \in BOOLEAN, NEW late \in BOOLEAN, RunReturns(raised, ok, late)
      PROVE  (failed => failed') /\ (touched => touched')
  BY <1>6 DEF RunReturns
<1>7. CASE UNCHANGED vars
  BY <1>7 DEF vars
<1> QED BY <1>1, <1>2, <1>3, <1>4, <1>5, <1>6, <1>7 DEF Next

\* Every step keeps the hooks whole while nothing has failed.
LEMMA StepWhole == Typing /\ FrameHooks /\ Whole /\ [Next]_vars => Whole'
<1> SUFFICES ASSUME Typing, FrameHooks, Whole, [Next]_vars, ~failed'
             PROVE  /\ \A h \in Hooks' : HookWhole(hook'[h])
                    /\ \A i \in 1..Len(frames') : CallWhole(frames'[i], hook')
  BY DEF Whole
<1>1. /\ hook \in Seq(HookRec) /\ Len(hook) \in Nat /\ Hooks = 1..Len(hook) /\ Hooks' = 1..Len(hook')
      /\ frames \in Seq(FrameRec) /\ Len(frames) \in Nat
  <2>1. hook \in Seq(HookRec) /\ frames \in Seq(FrameRec)
    BY DEF Typing, Sound, State
  <2> QED BY <2>1 DEF Hooks
<1>2. ~failed
  BY StaysFailed
<1>3. /\ \A h \in Hooks : HookWhole(hook[h])
      /\ \A i \in 1..Len(frames) : CallWhole(frames[i], hook)
  BY <1>2 DEF Whole
<1>4. ASSUME NEW g \in Hooks, Twin(hook'[g], hook[g]) PROVE HookWhole(hook'[g])
  BY <1>3, <1>4 DEF HookWhole, Twin
<1>5. ASSUME NEW i \in 1..Len(frames), SameCall(frames'[i], frames[i]),
             \A g \in Hooks : hook[g].frame = i => Twin(hook'[g], hook[g])
      PROVE  CallWhole(frames'[i], hook')
  <2>1. CallOf(frames[i], i, hook) /\ CallWhole(frames[i], hook)
    BY <1>3 DEF FrameHooks
  <2>2. CASE ~frames[i].buffered
    BY <1>5, <2>2 DEF CallWhole, SameCall
  <2>3. CASE frames[i].buffered
    <3>1. Len(frames[i].hooks) = 1 /\ hook[frames[i].hooks[1]].isInstall
      BY <2>1, <2>3 DEF CallWhole
    <3>2. Owns(frames[i], i, hook, 1)
      BY <2>1, <3>1 DEF CallOf
    <3>3. PICK h : h = frames[i].hooks[1]
      OBVIOUS
    <3>4. Twin(hook'[h], hook[h])
      BY <1>1, <1>5, <3>2, <3>3 DEF Owns
    <3> QED BY <1>5, <3>1, <3>3, <3>4 DEF CallWhole, SameCall, Twin
  <2> QED BY <2>2, <2>3
<1>6. \A a, b : Like(a, b) => Twin(a, b)
  BY DEF Like, Twin
<1>7. \A a, b : SameHook(a, b) => Twin(a, b)
  BY DEF SameHook, Twin
<1>8. ASSUME Len(hook') = Len(hook), Len(frames') = Len(frames),
             \A g \in Hooks : Twin(hook'[g], hook[g]),
             \A i \in 1..Len(frames) : SameCall(frames'[i], frames[i])
      PROVE  /\ \A h \in Hooks' : HookWhole(hook'[h])
             /\ \A i \in 1..Len(frames') : CallWhole(frames'[i], hook')
  BY <1>1, <1>4, <1>5, <1>8
<1>9. \A i \in 1..Len(frames) : SameCall(frames[i], frames[i])
  BY DEF SameCall
<1>10. ASSUME NEW h, NEW s, NEW f, Added(h, s, f) PROVE HookWhole(hook'[h])
  BY <1>10 DEF Added, HookWhole
<1>11. ASSUME NEW okErr \in BOOLEAN, NEW okOut \in BOOLEAN, NEW okUndo \in BOOLEAN, Install(okErr, okOut, okUndo)
       PROVE  /\ \A h \in Hooks' : HookWhole(hook'[h])
              /\ \A i \in 1..Len(frames') : CallWhole(frames'[i], hook')
  <2>1. okErr = TRUE /\ okOut = TRUE /\ frames' = frames /\ frames = <<>>
    BY <1>11 DEF Install
  <2>2. Install(TRUE, TRUE, okUndo)
    BY <1>11, <2>1
  <2>3. InstallOk
    BY <2>2, InstallOkIs
  <2>4. \A h \in 1..(Len(hook) + 2) : h \in Hooks \/ h = Len(hook) + 1 \/ h = Len(hook) + 2
    BY <1>1
  <2>5. \A h \in Hooks' : HookWhole(hook'[h])
    BY <1>1, <1>4, <1>6, <1>10, <2>3, <2>4 DEF InstallOk
  <2> QED BY <2>1, <2>5
<1>12. ASSUME NEW okErr \in BOOLEAN, NEW okOut \in BOOLEAN, RunBuffered(okErr, okOut)
       PROVE  /\ \A h \in Hooks' : HookWhole(hook'[h])
              /\ \A i \in 1..Len(frames') : CallWhole(frames'[i], hook')
  <2>1. okErr = TRUE
    BY <1>12 DEF RunBuffered
  <2>2. RunBuffered(TRUE, okOut)
    BY <1>12, <2>1
  <2>3. BufferedOk
    BY <2>2, BufferedOkIs
  <2>4. \A h \in 1..(Len(hook) + 1) : h \in Hooks \/ h = Len(hook) + 1
    BY <1>1
  <2>5. \A h \in Hooks' : HookWhole(hook'[h])
    BY <1>1, <1>4, <1>6, <1>10, <2>3, <2>4 DEF BufferedOk
  <2>6. \A i \in 1..(Len(frames) + 1) : i \in 1..Len(frames) \/ i = Len(frames) + 1
    BY <1>1
  <2>7. CallWhole(frames'[Len(frames) + 1], hook')
    BY <2>3 DEF BufferedOk, Added, CallWhole
  <2>8. \A i \in 1..Len(frames) : CallWhole(frames'[i], hook')
    BY <1>5, <1>6, <2>3, <1>9 DEF BufferedOk
  <2>9. Len(frames') = Len(frames) + 1
    BY <2>3 DEF BufferedOk
  <2> QED BY <2>5, <2>6, <2>7, <2>8, <2>9
<1>13. CASE Uninstall
  <2>1. hook' = <<>> /\ frames' = <<>>
    BY <1>13 DEF Uninstall
  <2>2. Hooks' = {} /\ 1..Len(frames') = {}
    BY <1>1, <2>1
  <2> QED BY <2>2
<1>14. CASE Run
  <2>1. hook' = hook /\ frames' = Append(frames, Frame(FALSE, <<>>))
    BY <1>14 DEF Run
  <2>2. PICK fr \in FrameRec : fr = Frame(FALSE, <<>>)
    <3>1. <<>> \in Seq(Int)
      OBVIOUS
    <3> QED BY <3>1, FrameIs
  <2>3. ~fr.buffered
    BY <2>2 DEF Frame
  <2>4. /\ Len(frames') = Len(frames) + 1 /\ frames'[Len(frames) + 1] = fr
        /\ \A i \in 1..Len(frames) : frames'[i] = frames[i]
    <3>1. frames' = Append(frames, fr)
      BY <2>1, <2>2
    <3> QED BY <1>1, <3>1
  <2>5. \A g \in Hooks : Twin(hook'[g], hook[g])
    BY <2>1 DEF Twin
  <2>6. \A i \in 1..Len(frames) : CallWhole(frames'[i], hook')
    BY <1>5, <1>9, <2>4, <2>5
  <2>7. CallWhole(frames'[Len(frames) + 1], hook')
    BY <2>3, <2>4 DEF CallWhole
  <2>8. \A i \in 1..(Len(frames) + 1) : i \in 1..Len(frames) \/ i = Len(frames) + 1
    BY <1>1
  <2>9. \A h \in Hooks' : HookWhole(hook'[h])
    BY <1>1, <1>3, <2>1
  <2> QED BY <2>4, <2>6, <2>7, <2>8, <2>9
<1>15. CASE PyAssign
  <2>1. Counted(State', State, saved, -1) /\ frames' = frames
    BY <1>15, AssignIs DEF PyAssign
  <2>2. Len(hook') = Len(hook) /\ \A g \in Hooks : Like(hook'[g], hook[g])
    BY <2>1 DEF Counted, State, Hooks
  <2> QED BY <1>6, <1>8, <1>9, <2>1, <2>2
<1>16. ASSUME NEW s \in Stream, PySave(s)
       PROVE  /\ \A h \in Hooks' : HookWhole(hook'[h])
              /\ \A i \in 1..Len(frames') : CallWhole(frames'[i], hook')
  <2>1. Counted(State', State, sys[s], 1) /\ frames' = frames
    BY <1>16, SaveIs DEF PySave
  <2>2. Len(hook') = Len(hook) /\ \A g \in Hooks : Like(hook'[g], hook[g])
    BY <2>1 DEF Counted, State, Hooks
  <2> QED BY <1>6, <1>8, <1>9, <2>1, <2>2
<1>17. ASSUME NEW s \in Stream, NEW text \in Text, PyWrite(s, text)
       PROVE  /\ \A h \in Hooks' : HookWhole(hook'[h])
              /\ \A i \in 1..Len(frames') : CallWhole(frames'[i], hook')
  <2>1. PICK w : /\ After(w, Written) /\ State' = [sys |-> sys, hook |-> w.hook]
                 /\ frames' = w.frames /\ fault' = w.fault
    BY <1>17, WriteIs DEF WriteDone
  <2>2. /\ Len(hook') = Len(hook) /\ Len(frames') = Len(frames)
        /\ \A i \in 1..Len(frames) : SameCall(frames'[i], frames[i])
        /\ \A g \in Hooks : SameHook(hook'[g], hook[g])
    BY <2>1 DEF State, After, Written, Hooks
  <2> QED BY <1>7, <1>8, <2>2
<1>18. ASSUME NEW raised \in BOOLEAN, NEW ok \in BOOLEAN, NEW late \in BOOLEAN, RunReturns(raised, ok, late)
       PROVE  /\ \A h \in Hooks' : HookWhole(hook'[h])
              /\ \A i \in 1..Len(frames') : CallWhole(frames'[i], hook')
  <2>1. /\ Len(hook') = Len(hook) /\ Len(frames) # 0 /\ Len(frames') = Len(frames) - 1
        /\ \A i \in 1..Len(frames') : SameCall(frames'[i], frames[i])
        /\ \A g \in Hooks : hook[g].frame # Len(frames) => Twin(hook'[g], hook[g])
    BY <1>18, ReturnsKeeps
  <2>2. \A i \in 1..Len(frames') : i \in 1..Len(frames) /\ i # Len(frames)
    BY <1>1, <2>1
  <2>3. \A i \in 1..Len(frames') : CallWhole(frames'[i], hook')
    BY <1>5, <2>1, <2>2
  <2>4. PICK q, r, x : Ended(q, r, x, raised, late)
    BY <1>18, ReturnsOkIs DEF ReturnsOk
  <2>5. /\ Len(q.hook) = Len(hook) /\ \A g \in Hooks : SameHook(q.hook[g], hook[g])
        /\ hook' = x.hook /\ Len(x.hook) = Len(r.hook) /\ \A g \in 1..Len(r.hook) : SameHook(x.hook[g], r.hook[g])
    BY <2>4 DEF Ended, After, Written, Hooks, State
  <2>6. \A g \in Hooks : SameHook(hook'[g], r.hook[g])
    BY <1>1, <2>1, <2>5
  <2>7. \A h \in Hooks' : HookWhole(hook'[h])
    <3>1. CASE Last.hooks = <<>>
      <4>1. r.hook = q.hook
        BY <2>4, <3>1 DEF Ended
      <4>2. \A g \in Hooks : Twin(hook'[g], hook[g])
        BY <2>5, <2>6, <4>1 DEF SameHook, Twin
      <4> QED BY <1>1, <1>4, <2>1, <4>2
    <3>2. CASE Last.hooks # <<>>
      <4>1. PICK h : h = Last.hooks[1]
        OBVIOUS
      <4>2. h \in Hooks /\ hook[h].isInstall
        BY <1>1, <2>4, <3>2, <4>1 DEF Ended, Owns
      <4>3. PICK st : st = [sys |-> sys, hook |-> q.hook]
        OBVIOUS
      <4>4. Deleted(r, st, h, TRUE) /\ st.hook = q.hook
        BY <2>4, <3>2, <4>1, <4>3 DEF Ended
      <4>5. st.hook[h].isInstall
        BY <2>5, <4>2, <4>4 DEF SameHook
      <4>6. r.hook[h].pStdOut = "null" /\ r.hook[h].old = None
        BY <4>4, <4>5 DEF Deleted
      <4>7. HookWhole(hook'[h])
        BY <2>6, <4>2, <4>6 DEF HookWhole, SameHook
      <4>8. \A g \in Hooks : g # h => Like(r.hook[g], q.hook[g])
        BY <1>1, <2>5, <4>4 DEF Deleted
      <4>9. \A g \in Hooks : g # h => Twin(hook'[g], hook[g])
        BY <2>5, <2>6, <4>8 DEF Like, SameHook, Twin
      <4> QED BY <1>1, <1>4, <2>1, <4>7, <4>9
    <3> QED BY <3>1, <3>2
  <2> QED BY <2>3, <2>7
<1>19. ASSUME NEW s \in Stream, PyDelete(s)
       PROVE  /\ \A h \in Hooks' : HookWhole(hook'[h])
              /\ \A i \in 1..Len(frames') : CallWhole(frames'[i], hook')
  <2>1. SysSet(State', State, s, None) /\ frames' = frames
    BY <1>19, DeleteIs DEF PyDelete
  <2>2. Len(hook') = Len(hook) /\ \A g \in Hooks : Like(hook'[g], hook[g])
    BY <2>1 DEF SysSet, State, Hooks
  <2> QED BY <1>6, <1>8, <1>9, <2>1, <2>2
<1>20. CASE UNCHANGED vars
  BY <1>1, <1>3, <1>20 DEF vars
<1> QED BY <1>11, <1>12, <1>13, <1>14, <1>15, <1>16, <1>17, <1>18, <1>19, <1>20 DEF Next

\* At first nothing is hooked.
LEMMA InitWhole == Init => Balanced /\ Whole
<1> SUFFICES ASSUME Init PROVE Balanced /\ Whole
  OBVIOUS
<1>1. Len(hook) = 0 /\ Len(frames) = 0 /\ 1..0 = {}
  BY DEF Init
<1> QED BY <1>1 DEF Balanced, Whole, Hooks

\* The hooks are in balance and whole.
LEMMA InvWhole == Spec => [](Typing /\ FrameHooks /\ Balanced /\ Whole)
<1>1. Typing /\ FrameHooks /\ Balanced /\ Whole /\ [Next]_vars => (Typing /\ FrameHooks /\ Balanced /\ Whole)'
  BY StepTyping, StepCalls, StepBalanced, StepWhole
<1> QED BY <1>1, InitTyping, InitWhole, PTL DEF Spec

\* Counted references and holders agree.
LEMMA WholeBalances == Typing /\ Balanced /\ Whole => ReferencesBalance
<1> SUFFICES ASSUME Typing, Balanced, Whole, NEW o \in Hooks
             PROVE  (Held(o) => hook[o].refs > 0) /\ (~failed /\ ~Held(o) => hook[o].refs = 0)
  BY DEF ReferencesBalance
<1>1. /\ Sound(State) /\ hook \in Seq(HookRec) /\ Hooks = 1..Len(hook) /\ State.hook = hook /\ State.sys = sys
  BY DEF Typing, Sound, State, Hooks
<1>2. ASSUME NEW g \in Hooks
      PROVE  /\ OldIn(hook, g) = {h \in Hooks : hook[h].old = g}
             /\ hook[g].refs \in Int
             /\ hook[g].refs = In(saved, g) + In(sys["err"], g) + In(sys["out"], g)
                                 + In(hook[g].pStdOut, "owned") + Cardinality(OldIn(hook, g))
             /\ Cardinality(OldIn(hook, g)) \in Nat /\ IsFiniteSet(OldIn(hook, g))
  <2>1. OldIn(hook, g) = {h \in Hooks : hook[h].old = g}
    BY <1>1 DEF OldIn
  <2>2. Cardinality(OldIn(hook, g)) \in Nat /\ IsFiniteSet(OldIn(hook, g)) /\ hook[g].refs \in Int /\ Weight(State, g) \in Int
    BY <1>1, OldCounted, WeightTyped
  <2>3. hook[g].refs - Weight(State, g) = In(saved, g)
    BY <1>1 DEF Balanced, Excess
  <2>4. hook[g].refs = In(saved, g) + Weight(State, g)
    BY <2>2, <2>3, InIs
  <2>5. Weight(State, g) = In(sys["err"], g) + In(sys["out"], g) + In(hook[g].pStdOut, "owned") + Cardinality(OldIn(hook, g))
    BY <1>1 DEF Weight
  <2> QED BY <2>1, <2>2, <2>4, <2>5, InIs
<1>3. PICK a, b, c, d, n : /\ a = In(saved, o) /\ b = In(sys["err"], o) /\ c = In(sys["out"], o)
                           /\ d = In(hook[o].pStdOut, "owned") /\ n = Cardinality(OldIn(hook, o))
  OBVIOUS
<1>4. /\ a \in {0, 1} /\ b \in {0, 1} /\ c \in {0, 1} /\ d \in {0, 1} /\ n \in Nat
      /\ hook[o].refs = a + b + c + d + n
  <2>1. a \in {0, 1} /\ b \in {0, 1} /\ c \in {0, 1} /\ d \in {0, 1}
    BY <1>3, InIs
  <2> QED BY <1>2, <1>3, <2>1
<1>5. Held(o) => a = 1 \/ b = 1 \/ c = 1 \/ d = 1 \/ n > 0
  <2>1. SUFFICES ASSUME Held(o) PROVE a = 1 \/ b = 1 \/ c = 1 \/ d = 1 \/ n > 0
    OBVIOUS
  <2>2. CASE \E h \in Hooks : hook[h].old = o /\ hook[h].refs > 0
    <3>1. OldIn(hook, o) # {}
      BY <1>2, <2>2
    <3>2. n # 0
      BY <1>2, <1>3, <3>1, FS_EmptySet
    <3> QED BY <1>4, <3>2
  <2>3. CASE ~(\E h \in Hooks : hook[h].old = o /\ hook[h].refs > 0)
    BY <1>3, <2>1, <2>3, InIs DEF Held, Stream
  <2> QED BY <2>2, <2>3
<1>6. ~failed /\ ~Held(o) => a = 0 /\ b = 0 /\ c = 0 /\ d = 0 /\ n = 0
  <2>1. SUFFICES ASSUME ~failed, ~Held(o) PROVE a = 0 /\ b = 0 /\ c = 0 /\ d = 0 /\ n = 0
    OBVIOUS
  <2>2. a = 0 /\ b = 0 /\ c = 0
    BY <1>3, <2>1 DEF In, Held, Stream
  <2>3. \A h \in Hooks : HookWhole(hook[h])
    BY <2>1 DEF Whole
  <2>4. d = 0
    BY <1>3, <2>1, <2>3 DEF In, Held, HookWhole
  <2>5. OldIn(hook, o) = {}
    <3>1. SUFFICES ASSUME NEW h \in Hooks, hook[h].old = o PROVE FALSE
      BY <1>2
    <3>2. hook[h].old # None
      BY <1>1, <3>1 DEF None
    <3>3. hook[h].pStdOut = "owned"
      BY <2>3, <3>2 DEF HookWhole
    <3>4. hook[h].refs > 0
      <4>1. PICK e, f, g, k, m : /\ e = In(saved, h) /\ f = In(sys["err"], h) /\ g = In(sys["out"], h)
                                 /\ k = In(hook[h].pStdOut, "owned") /\ m = Cardinality(OldIn(hook, h))
        OBVIOUS
      <4>2. e \in {0, 1} /\ f \in {0, 1} /\ g \in {0, 1} /\ k = 1
        BY <3>3, <4>1, InIs
      <4>3. m \in Nat /\ hook[h].refs = e + f + g + k + m
        BY <1>2, <4>1
      <4> QED BY <4>2, <4>3
    <3> QED BY <2>1, <3>1, <3>4 DEF Held
  <2>6. n = 0
    BY <1>3, <2>5, FS_EmptySet
  <2> QED BY <2>2, <2>4, <2>6
<1>7. Held(o) => hook[o].refs > 0
  BY <1>4, <1>5
<1>8. ~failed /\ ~Held(o) => hook[o].refs = 0
  BY <1>4, <1>6
<1> QED BY <1>7, <1>8

\* An output object that C++ or Python code can reach has not been freed, and, as long as sys can
\* be imported, one that nobody can reach has been.
THEOREM ReferencesBalanceThm == Spec => []ReferencesBalance
BY InvWhole, WholeBalances, PTL

-----------------------------------------------------------------------------
(* SysIsInnermost *)

\* x is the last of the hooks in S, or the interpreter's own object when there is none.
Top(S, x) == (S = {} /\ x = Orig) \/ (x \in S /\ \A y \in S : y =< x)

\* Hook h is Script's, or the hook of a running call.
Stacked(h) ==
  \/ hook[h].frame = 0
  \/ /\ hook[h].frame \in 1..Len(frames) /\ Len(frames[hook[h].frame].hooks) = 1
     /\ frames[hook[h].frame].hooks[1] = h

\* The living hooks of a stream nest as the calls do: each keeps the object of the one below it,
\* and sys holds that of the topmost.
Nest(s) ==
  /\ \A h \in Installed(s) : /\ Stacked(h)
                             /\ hook[h].frame = 0 => pyStdErrHook_ # None
                             /\ Top({g \in Installed(s) : g < h}, hook[h].old)
  /\ \A h, g \in Installed(s) : h < g => hook[h].frame < hook[g].frame
  /\ Top(Installed(s), sys[s])

Clean == ~failed /\ ~touched => ~fault /\ ~error /\ \A s \in Stream : Nest(s)

\* Nothing happens to the hooks of stream s ...
LEMMA SameNest ==
  ASSUME NEW s \in Stream, Nest(s), Installed(s)' = Installed(s),
         \A h \in Installed(s) : Twin(hook'[h], hook[h]) /\ Stacked(h)',
         sys'[s] = sys[s], pyStdErrHook_' = pyStdErrHook_
  PROVE  Nest(s)'
<1>1. PICK S : S = Installed(s)
  OBVIOUS
<1>2. \A h \in S : hook'[h].frame = hook[h].frame /\ hook'[h].old = hook[h].old
  BY <1>1 DEF Twin
<1> QED BY <1>1, <1>2 DEF Nest

\* ... hook e comes on top of them ...
LEMMA PushNest ==
  ASSUME NEW s \in Stream, Nest(s), NEW e \in Nat, NEW f \in Nat, Added(e, s, f),
         Installed(s)' = Installed(s) \cup {e},
         \A h \in Installed(s) : h \in Nat /\ h < e /\ hook[h].frame \in Nat /\ hook[h].frame < f,
         \A h \in Installed(s) : Twin(hook'[h], hook[h]) /\ Stacked(h)',
         Stacked(e)', f = 0 => pyStdErrHook_' # None, pyStdErrHook_ # None => pyStdErrHook_' # None,
         sys'[s] = e
  PROVE  Nest(s)'
<1>1. PICK S, T : S = Installed(s) /\ T = Installed(s)' /\ T = S \cup {e}
  OBVIOUS
<1>2. \A h \in S : hook'[h].frame = hook[h].frame /\ hook'[h].old = hook[h].old
  BY <1>1 DEF Twin
<1>3. hook'[e].frame = f /\ hook'[e].old = sys[s]
  BY DEF Added
<1>4. \A h \in S : h \in Nat /\ h < e /\ ~(e < h) /\ h =< e
  BY <1>1
<1>5. {g \in T : g < e} = S
  <2>1. \A g \in T : g < e <=> g \in S
    BY <1>1, <1>4
  <2> QED BY <1>1, <2>1
<1>6. \A h \in S : {g \in T : g < h} = {g \in S : g < h}
  BY <1>1, <1>4
<1>7. Top(T, sys'[s])
  BY <1>1, <1>4 DEF Top
<1>8. \A h \in T : Stacked(h)' /\ (hook'[h].frame = 0 => pyStdErrHook_' # None)
  BY <1>1, <1>2, <1>3 DEF Nest
<1>9. \A h \in T : Top({g \in T : g < h}, hook'[h].old)
  <2>1. Top(S, sys[s]) /\ \A h \in S : Top({g \in S : g < h}, hook[h].old)
    BY <1>1 DEF Nest
  <2>2. \A h \in S : Top({g \in T : g < h}, hook'[h].old)
    BY <1>2, <1>6, <2>1
  <2>3. Top({g \in T : g < e}, hook'[e].old)
    BY <1>3, <1>5, <2>1
  <2> QED BY <1>1, <2>2, <2>3
<1>10. \A h, g \in T : h < g => hook'[h].frame < hook'[g].frame
  <2>1. SUFFICES ASSUME NEW h \in T, NEW g \in T, h < g PROVE hook'[h].frame < hook'[g].frame
    OBVIOUS
  <2>2. CASE g \in S
    <3>1. h \in S
      BY <1>1, <1>4, <2>1, <2>2
    <3> QED BY <1>1, <1>2, <2>1, <2>2, <3>1 DEF Nest
  <2>3. CASE g \notin S
    <3>1. g = e /\ h \in S
      BY <1>1, <1>4, <2>1, <2>3
    <3> QED BY <1>1, <1>2, <1>3, <3>1
  <2> QED BY <2>2, <2>3
<1> QED BY <1>1, <1>7, <1>8, <1>9, <1>10 DEF Nest

\* ... and the topmost goes.
LEMMA PopNest ==
  ASSUME NEW s \in Stream, Nest(s), NEW h \in Installed(s),
         \A g \in Installed(s) : g \in Nat /\ g =< h,
         Installed(s)' = Installed(s) \ {h},
         \A g \in Installed(s) : g # h => Twin(hook'[g], hook[g]) /\ Stacked(g)',
         sys'[s] = hook[h].old, pyStdErrHook_' = pyStdErrHook_
  PROVE  Nest(s)'
<1>1. PICK S, T : S = Installed(s) /\ T = Installed(s)' /\ T = S \ {h}
  OBVIOUS
<1>2. \A g \in T : hook'[g].frame = hook[g].frame /\ hook'[g].old = hook[g].old /\ g \in S /\ g # h
  BY <1>1 DEF Twin
<1>3. \A g \in S : g \in Nat /\ g =< h
  BY <1>1
<1>4. {g \in S : g < h} = T
  <2>1. \A g \in S : g < h <=> g # h
    BY <1>1, <1>3
  <2> QED BY <1>1, <2>1
<1>5. \A g \in T : {k \in T : k < g} = {k \in S : k < g}
  <2>1. \A g \in T : ~(h < g)
    BY <1>1, <1>2, <1>3
  <2> QED BY <1>1, <2>1
<1>6. Top(T, sys'[s])
  BY <1>1, <1>4 DEF Nest
<1>7. \A g \in T : Stacked(g)' /\ (hook'[g].frame = 0 => pyStdErrHook_' # None)
  BY <1>1, <1>2 DEF Nest
<1>8. \A g \in T : Top({k \in T : k < g}, hook'[g].old)
  BY <1>1, <1>2, <1>5 DEF Nest
<1>9. \A g, k \in T : g < k => hook'[g].frame < hook'[k].frame
  BY <1>1, <1>2 DEF Nest
<1> QED BY <1>1, <1>6, <1>7, <1>8, <1>9 DEF Nest

\* Hooks that keep what they have stay installed.
LEMMA InstalledSame ==
  ASSUME NEW s \in Stream, Len(hook') = Len(hook), \A g \in Hooks : Twin(hook'[g], hook[g])
  PROVE  Installed(s)' = Installed(s)
<1>1. Hooks' = Hooks
  BY DEF Hooks
<1>2. \A g \in Hooks : (hook'[g].alive /\ hook'[g].isInstall /\ hook'[g].stream = s)
                         <=> (hook[g].alive /\ hook[g].isInstall /\ hook[g].stream = s)
  BY DEF Twin
<1>3. Installed(s)' = {h \in Hooks : hook'[h].alive /\ hook'[h].isInstall /\ hook'[h].stream = s}
  BY <1>1 DEF Installed
<1> QED BY <1>2, <1>3 DEF Installed

\* The call of a hook goes on.
LEMMA StaysStacked ==
  ASSUME NEW h, Stacked(h), Twin(hook'[h], hook[h]), NEW n \in Nat, n =< Len(frames'), Len(frames') \in Nat,
         hook[h].frame \in 0..n, \A i \in 1..n : SameCall(frames'[i], frames[i])
  PROVE  Stacked(h)'
<1>1. hook'[h].frame = hook[h].frame
  BY DEF Twin
<1>2. CASE hook[h].frame = 0
  BY <1>1, <1>2 DEF Stacked
<1>3. CASE hook[h].frame # 0
  <2>1. PICK i : i = hook[h].frame
    OBVIOUS
  <2>2. i \in 1..n /\ i \in 1..Len(frames')
    BY <1>3, <2>1
  <2>3. Len(frames[i].hooks) = 1 /\ frames[i].hooks[1] = h /\ frames'[i].hooks = frames[i].hooks
    BY <1>3, <2>1, <2>2 DEF Stacked, SameCall
  <2> QED BY <1>1, <2>1, <2>2, <2>3 DEF Stacked
<1> QED BY <1>2, <1>3

\* A return while nothing has failed and nothing was touched: the hooks are deleted and that is all.
CleanEnd(q, raised) ==
  /\ IF raised THEN Printed(q, Written, sys["err"]) ELSE q = Written
  /\ After(q, Written) /\ fault' = q.fault /\ frames' = Front(q.frames)
  /\ Last.hooks = <<>> => State' = [sys |-> sys, hook |-> q.hook]
  /\ Last.hooks # <<>> =>
       /\ Len(Last.hooks) = 1 /\ Owns(Last, Len(frames), hook, 1) /\ hook[Last.hooks[1]].isInstall
       /\ Deleted(State', [sys |-> sys, hook |-> q.hook], Last.hooks[1], TRUE)

CleanReturn(raised) == \E q : CleanEnd(q, raised)

\* Nothing is left to be printed then.
LEMMA CleanReturns ==
  ASSUME Typing, FrameHooks, Whole, Clean, ~failed', ~touched',
         NEW raised \in BOOLEAN, NEW ok \in BOOLEAN, NEW late \in BOOLEAN, RunReturns(raised, ok, late)
  PROVE  CleanReturn(raised) /\ ~error'
<1>1. failed' = (failed \/ (~ok /\ Last.hooks # <<>>)) /\ touched' = touched
  BY Zenon DEF RunReturns
<1>2. ~error /\ (ok \/ Last.hooks = <<>>)
  BY <1>1 DEF Clean
<1>3. PICK b : b = (~ok /\ \E i \in DOMAIN Last.hooks : hook[Last.hooks[i]].isInstall)
  OBVIOUS
<1>4. b = FALSE
  <2>1. CASE ok
    BY <1>3, <2>1
  <2>2. CASE Last.hooks = <<>>
    <3>1. DOMAIN Last.hooks = {}
      BY <2>2
    <3> QED BY <1>3, <3>1
  <2> QED BY <1>2, <2>1, <2>2
<1>5. (IF raised THEN ~late ELSE IF b THEN late ELSE late => error) /\ error' = (raised /\ b)
  BY <1>3, Zenon DEF RunReturns
<1>6. ~late /\ ~error'
  BY <1>2, <1>4, <1>5
<1>7. ReturnsOk(raised, late)
  BY ReturnsOkIs
<1>8. PICK q, r, x : Ended(q, r, x, raised, late)
  BY <1>7 DEF ReturnsOk
<1>9. x = [hook |-> r.hook, frames |-> Front(q.frames), fault |-> q.fault]
  BY <1>6, <1>8 DEF Ended
<1>10. State' = [sys |-> r.sys, hook |-> r.hook] /\ frames' = Front(q.frames) /\ fault' = q.fault
  BY <1>8, <1>9 DEF Ended
<1>11. Last.hooks = <<>> => State' = [sys |-> sys, hook |-> q.hook]
  BY <1>8, <1>10 DEF Ended
<1>12. Last.hooks # <<>> => State' = r
  <2>1. SUFFICES ASSUME Last.hooks # <<>> PROVE State' = r
    OBVIOUS
  <2>2. Sound(r)
    BY <1>8, <2>1 DEF Ended, Deleted
  <2> QED BY <1>10, <2>2, StateIs
<1>13. CleanEnd(q, raised)
  BY <1>8, <1>10, <1>11, <1>12 DEF Ended, CleanEnd
<1> QED BY <1>6, <1>13 DEF CleanReturn

\* Every step keeps the hooks nested while nothing has failed.
LEMMA StepClean == Typing /\ FrameHooks /\ Whole /\ Clean /\ [Next]_vars => Clean'
<1> SUFFICES ASSUME Typing, FrameHooks, Whole, Clean, [Next]_vars, ~failed', ~touched'
             PROVE  ~fault' /\ ~error' /\ \A s \in Stream : Nest(s)'
  BY DEF Clean
<1>1. /\ hook \in Seq(HookRec) /\ Len(hook) \in Nat /\ Hooks = 1..Len(hook) /\ Hooks' = 1..Len(hook')
      /\ frames \in Seq(FrameRec) /\ Len(frames) \in Nat /\ State.hook = hook /\ State'.hook = hook'
      /\ State'.sys = sys'
  <2>1. hook \in Seq(HookRec) /\ frames \in Seq(FrameRec)
    BY DEF Typing, Sound, State
  <2> QED BY <2>1 DEF Hooks, State
<1>2. ~failed /\ ~touched
  BY StaysFailed
<1>3. ~fault /\ ~error /\ \A s \in Stream : Nest(s)
  BY <1>2 DEF Clean
<1>4. "err" \in Stream /\ "out" \in Stream /\ \A s \in Stream : s = "err" \/ s = "out"
  BY DEF Stream
<1>5. ASSUME NEW s \in Stream, NEW h \in Installed(s)
      PROVE  /\ h \in Hooks /\ h \in Nat /\ hook[h].alive /\ hook[h].isInstall /\ hook[h].stream = s
             /\ Stacked(h) /\ hook[h].frame \in 0..Len(frames)
  <2>1. h \in Hooks /\ hook[h].alive /\ hook[h].isInstall /\ hook[h].stream = s
    BY DEF Installed
  <2>2. Stacked(h)
    BY <1>3 DEF Nest
  <2>3. hook[h].frame \in 0..Len(frames)
    BY <1>1, <2>2 DEF Stacked
  <2> QED BY <1>1, <2>1, <2>2, <2>3
<1>6. \A a, b : Like(a, b) => Twin(a, b)
  BY DEF Like, Twin
<1>7. \A a, b : SameHook(a, b) => Twin(a, b)
  BY DEF SameHook, Twin
<1>8. ASSUME Len(hook') = Len(hook), \A g \in Hooks : Twin(hook'[g], hook[g]), sys' = sys,
             pyStdErrHook_' = pyStdErrHook_, Len(frames') \in Nat, Len(frames') >= Len(frames),
             \A i \in 1..Len(frames) : SameCall(frames'[i], frames[i])
      PROVE  \A s \in Stream : Nest(s)'
  <2>1. SUFFICES ASSUME NEW s \in Stream PROVE Nest(s)'
    OBVIOUS
  <2>2. Installed(s)' = Installed(s)
    BY <1>8, InstalledSame
  <2>3. \A h \in Installed(s) : Twin(hook'[h], hook[h]) /\ Stacked(h)'
    BY <1>1, <1>5, <1>8, StaysStacked
  <2> QED BY <1>3, <1>8, <2>2, <2>3, SameNest
<1>9. \A i \in 1..Len(frames) : SameCall(frames[i], frames[i])
  BY DEF SameCall
<1>10. ASSUME NEW s \in Stream PROVE sys[s] # None /\ (sys[s] = Orig \/ hook[sys[s]].alive)
  <2>1. Top(Installed(s), sys[s])
    BY <1>3 DEF Nest
  <2> QED BY <1>5, <2>1 DEF Top, Orig, None
<1>11. ASSUME NEW okErr \in BOOLEAN, NEW okOut \in BOOLEAN, NEW okUndo \in BOOLEAN, Install(okErr, okOut, okUndo)
       PROVE  ~fault' /\ ~error' /\ \A s \in Stream : Nest(s)'
  <2>1. /\ okErr = TRUE /\ okOut = TRUE /\ frames' = frames /\ frames = <<>> /\ fault' = fault
        /\ pyStdErrHook_ = None /\ pyStdErrHook_' = Len(hook) + 1
        /\ error' = (error \/ None \in {sys["err"], sys["out"]})
    BY <1>11 DEF Install
  <2>2. Install(TRUE, TRUE, okUndo)
    BY <1>11, <2>1
  <2>3. InstallOk
    BY <2>2, InstallOkIs
  <2>4. PICK e, o : e = Len(hook) + 1 /\ o = Len(hook) + 2
    OBVIOUS
  <2>5. /\ e \in Nat /\ o \in Nat /\ e # o /\ e \notin Hooks /\ o \notin Hooks
        /\ Hooks' = Hooks \cup {e, o} /\ pyStdErrHook_' # None
    BY <1>1, <2>1, <2>3, <2>4 DEF InstallOk, None
  <2>6. \A s \in Stream : Installed(s) = {}
    <3>1. SUFFICES ASSUME NEW s \in Stream, NEW h \in Installed(s) PROVE FALSE
      OBVIOUS
    <3>2. hook[h].frame \in 0..0
      BY <1>5, <2>1
    <3>3. hook[h].frame = 0
      BY <3>2
    <3> QED BY <1>3, <2>1, <3>3 DEF Nest
  <2>7. Added(e, "err", 0) /\ Added(o, "out", 0) /\ sys'["err"] = e /\ sys'["out"] = o
    BY <2>3, <2>4 DEF InstallOk
  <2>8. \A g \in Hooks, s \in Stream : ~(hook'[g].alive /\ hook'[g].isInstall /\ hook'[g].stream = s)
    <3>1. \A g \in Hooks : Twin(hook'[g], hook[g])
      BY <1>6, <2>3 DEF InstallOk
    <3> QED BY <2>6, <3>1 DEF Installed, Twin
  <2>9. Installed("err")' = {e} /\ Installed("out")' = {o}
    <3>1. \A s \in Stream : Installed(s)' = {h \in Hooks' : hook'[h].alive /\ hook'[h].isInstall /\ hook'[h].stream = s}
      BY DEF Installed
    <3> QED BY <1>4, <2>5, <2>7, <2>8, <3>1 DEF Added
  <2>10. Stacked(e)' /\ Stacked(o)'
    BY <2>7 DEF Stacked, Added
  <2>11. Nest("err")'
    BY <1>3, <1>4, <2>5, <2>6, <2>7, <2>9, <2>10, PushNest
  <2>12. Nest("out")'
    BY <1>3, <1>4, <2>5, <2>6, <2>7, <2>9, <2>10, PushNest
  <2> QED BY <1>3, <1>4, <1>10, <2>1, <2>11, <2>12
<1>12. ASSUME NEW okErr \in BOOLEAN, NEW okOut \in BOOLEAN, RunBuffered(okErr, okOut)
       PROVE  ~fault' /\ ~error' /\ \A s \in Stream : Nest(s)'
  <2>1. /\ okErr = TRUE /\ fault' = fault /\ pyStdErrHook_' = pyStdErrHook_
        /\ error' = (error \/ ~okErr \/ sys["err"] = None)
    BY <1>12 DEF RunBuffered
  <2>2. RunBuffered(TRUE, okOut)
    BY <1>12, <2>1
  <2>3. BufferedOk
    BY <2>2, BufferedOkIs
  <2>4. PICK e, f : e = Len(hook) + 1 /\ f = Len(frames) + 1
    OBVIOUS
  <2>5. /\ e \in Nat /\ f \in Nat /\ f # 0 /\ e \notin Hooks /\ Hooks' = Hooks \cup {e}
        /\ Len(frames') = f /\ \A h \in Hooks : h < e
    BY <1>1, <2>3, <2>4 DEF BufferedOk
  <2>6. Added(e, "err", f) /\ sys'["err"] = e /\ sys'["out"] = sys["out"]
    BY <2>3, <2>4 DEF BufferedOk
  <2>7. \A g \in Hooks : Twin(hook'[g], hook[g])
    BY <1>6, <2>3 DEF BufferedOk
  <2>8. \A i \in 1..Len(frames) : SameCall(frames'[i], frames[i])
    BY <2>3 DEF BufferedOk, SameCall
  <2>9. \A s \in Stream : \A h \in Installed(s) : Stacked(h)'
    BY <1>1, <1>5, <2>4, <2>5, <2>7, <2>8, StaysStacked
  <2>10. \A s \in Stream : Installed(s)' = {h \in Hooks' : hook'[h].alive /\ hook'[h].isInstall /\ hook'[h].stream = s}
    BY DEF Installed
  <2>11. \A s \in Stream, g \in Hooks :
           g \in Installed(s) <=> hook'[g].alive /\ hook'[g].isInstall /\ hook'[g].stream = s
    BY <2>7 DEF Installed, Twin
  <2>12. Installed("err")' = Installed("err") \cup {e}
    BY <1>4, <1>5, <2>5, <2>6, <2>10, <2>11 DEF Added
  <2>13. Installed("out")' = Installed("out")
    <3>1. \A h : h \in Installed("out")' <=>
                  h \in Hooks' /\ hook'[h].alive /\ hook'[h].isInstall /\ hook'[h].stream = "out"
      BY <1>4, <2>10
    <3>2. e \notin Installed("out")'
      BY <2>6, <3>1 DEF Added
    <3>3. \A h : h \in Installed("out")' <=> h \in Installed("out")
      BY <1>4, <1>5, <2>5, <2>11, <3>1, <3>2
    <3> QED BY <3>3
  <2>14. Stacked(e)'
    <3>1. hook'[e].frame = f
      BY <2>6 DEF Added
    <3>2. f \in 1..Len(frames') /\ Len(frames'[f].hooks) = 1 /\ frames'[f].hooks[1] = e
      BY <2>3, <2>4, <2>5 DEF BufferedOk
    <3> QED BY <3>1, <3>2 DEF Stacked
  <2>15. \A h \in Installed("err") : h \in Nat /\ h < e /\ hook[h].frame \in Nat /\ hook[h].frame < f
    BY <1>1, <1>4, <1>5, <2>4, <2>5
  <2>16. \A s \in Stream : \A h \in Installed(s) : Twin(hook'[h], hook[h])
    BY <1>5, <2>7
  <2>17. Nest("err")'
    BY <1>3, <1>4, <2>1, <2>5, <2>6, <2>9, <2>12, <2>14, <2>15, <2>16, PushNest
  <2>18. Nest("out")'
    BY <1>3, <1>4, <2>1, <2>6, <2>9, <2>13, <2>16, SameNest
  <2> QED BY <1>3, <1>4, <1>10, <2>1, <2>17, <2>18
<1>13. ASSUME Uninstall PROVE ~fault' /\ ~error' /\ \A s \in Stream : Nest(s)'
  <2>1. /\ hook' = <<>> /\ fault' = fault /\ ~error' /\ sys' = [s \in Stream |-> Orig]
    BY <1>13 DEF Uninstall
  <2>2. Hooks' = {}
    BY <1>1, <2>1
  <2>3. \A s \in Stream : Installed(s)' = {} /\ sys'[s] = Orig
    BY <2>1, <2>2 DEF Installed
  <2> QED BY <1>3, <2>1, <2>3 DEF Nest, Top
<1>14. ASSUME Run PROVE ~fault' /\ ~error' /\ \A s \in Stream : Nest(s)'
  <2>1. /\ hook' = hook /\ sys' = sys /\ pyStdErrHook_' = pyStdErrHook_ /\ fault' = fault
        /\ error' = error /\ frames' = Append(frames, Frame(FALSE, <<>>))
    BY <1>14 DEF Run
  <2>2. PICK fr \in FrameRec : fr = Frame(FALSE, <<>>)
    <3>1. <<>> \in Seq(Int)
      OBVIOUS
    <3> QED BY <3>1, FrameIs
  <2>3. frames' = Append(frames, fr)
    BY <2>1, <2>2
  <2>4. /\ Len(frames') = Len(frames) + 1 /\ \A i \in 1..Len(frames) : frames'[i] = frames[i]
    BY <1>1, <2>3
  <2>5. Len(frames') \in Nat /\ Len(frames') >= Len(frames)
    BY <1>1, <2>4
  <2>6. \A i \in 1..Len(frames) : SameCall(frames'[i], frames[i])
    BY <1>9, <2>4
  <2>7. Len(hook') = Len(hook) /\ \A g \in Hooks : Twin(hook'[g], hook[g])
    BY <2>1 DEF Twin
  <2> QED BY <1>3, <1>8, <2>1, <2>5, <2>6, <2>7
<1>15. ~PyAssign /\ \A s \in Stream : ~PyDelete(s)
  BY DEF PyAssign, PyDelete
<1>16. ASSUME NEW s \in Stream, PySave(s) PROVE ~fault' /\ ~error' /\ \A t \in Stream : Nest(t)'
  <2>1. /\ Counted(State', State, sys[s], 1) /\ frames' = frames /\ sys' = sys /\ fault' = fault
        /\ pyStdErrHook_' = pyStdErrHook_ /\ error' = error
    BY <1>16, SaveIs DEF PySave
  <2>2. Len(hook') = Len(hook) /\ \A g \in Hooks : Twin(hook'[g], hook[g])
    BY <1>1, <1>6, <2>1 DEF Counted
  <2>3. Len(frames') \in Nat /\ Len(frames') >= Len(frames)
    BY <1>1, <2>1
  <2> QED BY <1>3, <1>8, <1>9, <2>1, <2>2, <2>3
<1>17. ASSUME NEW s \in Stream, NEW text \in Text, PyWrite(s, text) PROVE ~fault' /\ ~error' /\ \A t \in Stream : Nest(t)'
  <2>1. PICK w : /\ Wrote(w, Written, s, sys[s], text) /\ After(w, Written)
                 /\ State' = [sys |-> sys, hook |-> w.hook] /\ frames' = w.frames /\ fault' = w.fault
    BY <1>17, WriteIs DEF WriteDone
  <2>2. /\ Len(hook') = Len(hook) /\ Len(frames') = Len(frames)
        /\ \A i \in 1..Len(frames) : SameCall(frames'[i], frames[i])
        /\ \A g \in Hooks : SameHook(hook'[g], hook[g])
    BY <2>1 DEF State, After, Written, Hooks
  <2>3. ~fault'
    BY <1>3, <1>10, <2>1 DEF Wrote, Written
  <2>4. pyStdErrHook_' = pyStdErrHook_ /\ error' = error /\ sys' = sys /\ Len(frames') \in Nat /\ Len(frames') >= Len(frames)
    BY <1>1, <1>17, <2>2 DEF PyWrite
  <2> QED BY <1>3, <1>7, <1>8, <2>2, <2>3, <2>4
<1>18. ASSUME NEW raised \in BOOLEAN, NEW ok \in BOOLEAN, NEW late \in BOOLEAN, RunReturns(raised, ok, late)
       PROVE  ~fault' /\ ~error' /\ \A s \in Stream : Nest(s)'
  <2>1. /\ Len(hook') = Len(hook) /\ Len(frames) # 0 /\ Len(frames') = Len(frames) - 1
        /\ \A i \in 1..Len(frames') : SameCall(frames'[i], frames[i])
    BY <1>18, ReturnsKeeps
  <2>2. PICK q : CleanEnd(q, raised)
    BY <1>18, CleanReturns DEF CleanReturn
  <2>3. ~fault' /\ ~error'
    <3>0. fault' = q.fault /\ ~error'
      BY <1>18, <2>2, CleanReturns DEF CleanEnd
    <3>1. CASE raised
      <4>0. PICK p : Wrote(p, Written, "err", sys["err"], "text") /\ Wrote(q, p, "err", sys["err"], "newline")
        BY <2>2, <3>1 DEF CleanEnd, Printed
      <4>1. ~p.fault
        BY <1>3, <1>4, <1>10, <4>0 DEF Wrote, Written
      <4>2. sys["err"] = Orig \/ p.hook[sys["err"]].alive
        <5>1. sys["err"] = Orig \/ sys["err"] \in 1..Len(hook)
          BY <1>4, <1>10 DEF Typing, Sound, State
        <5>2. \A g \in 1..Len(hook) : SameHook(p.hook[g], hook[g])
          BY <4>0 DEF Wrote, Written
        <5> QED BY <1>4, <1>10, <5>1, <5>2 DEF SameHook
      <4> QED BY <3>0, <4>0, <4>1, <4>2 DEF Wrote
    <3>2. CASE ~raised
      BY <1>3, <2>2, <3>0, <3>2 DEF CleanEnd, Written
    <3> QED BY <3>1, <3>2
  <2>4. Len(q.hook) = Len(hook) /\ \A g \in Hooks : SameHook(q.hook[g], hook[g])
    BY <2>2 DEF CleanEnd, After, Written, Hooks
  <2>5. PICK n \in Nat : n = Len(frames) - 1
    BY <1>1, <2>1
  <2>6. Last = frames[Len(frames)] /\ Len(frames') = n /\ Len(frames) = n + 1 /\ pyStdErrHook_' = pyStdErrHook_
    <3>1. pyStdErrHook_' = pyStdErrHook_
      BY <1>18, Zenon DEF RunReturns
    <3> QED BY <1>1, <2>1, <2>5, <3>1 DEF Last
  <2>7. ASSUME NEW s \in Stream, NEW h \in Installed(s), Twin(hook'[h], hook[h]), hook[h].frame # n + 1
        PROVE  Stacked(h)'
    <3>1. hook[h].frame \in 0..n
      BY <1>5, <2>6, <2>7
    <3>2. n =< Len(frames') /\ Len(frames') \in Nat /\ \A i \in 1..n : SameCall(frames'[i], frames[i])
      BY <2>1, <2>6
    <3>3. Stacked(h)
      BY <1>5
    <3> QED BY <2>7, <3>1, <3>2, <3>3, StaysStacked
  <2>8. CASE Last.hooks = <<>>
    <3>1. State' = [sys |-> sys, hook |-> q.hook]
      BY <2>2, <2>8 DEF CleanEnd
    <3>2. sys' = sys /\ \A g \in Hooks : Twin(hook'[g], hook[g])
      BY <1>7, <2>4, <3>1 DEF State
    <3>3. ASSUME NEW s \in Stream, NEW h \in Installed(s) PROVE hook[h].frame # n + 1
      <4>1. Len(Last.hooks) # 1
        BY <2>8
      <4> QED BY <1>1, <1>5, <2>6, <4>1 DEF Stacked
    <3>4. SUFFICES ASSUME NEW s \in Stream PROVE Nest(s)'
      BY <2>3
    <3>5. Installed(s)' = Installed(s)
      BY <2>1, <3>2, InstalledSame
    <3>6. \A h \in Installed(s) : Twin(hook'[h], hook[h]) /\ Stacked(h)'
      BY <1>5, <2>7, <3>2, <3>3
    <3> QED BY <1>3, <2>6, <3>2, <3>5, <3>6, SameNest
  <2>9. CASE Last.hooks # <<>>
    <3>1. PICK h : h = Last.hooks[1]
      OBVIOUS
    <3>2. PICK st : st = [sys |-> sys, hook |-> q.hook]
      OBVIOUS
    <3>3. /\ st.hook = q.hook /\ st.sys = sys /\ Deleted(State', st, h, TRUE) /\ Len(Last.hooks) = 1
          /\ Owns(Last, Len(frames), hook, 1) /\ hook[h].isInstall
      BY <2>2, <2>9, <3>1, <3>2 DEF CleanEnd
    <3>4. /\ h \in Hooks /\ hook[h].frame = n + 1 /\ hook[h].stream = "err" /\ hook[h].alive
      BY <1>1, <2>6, <3>1, <3>3 DEF Owns
    <3>5. h \in Installed("err")
      BY <3>3, <3>4 DEF Installed
    <3>6. /\ st.hook[h].isInstall /\ st.hook[h].old = hook[h].old /\ st.hook[h].stream = "err"
      BY <2>4, <3>3, <3>4 DEF SameHook
    <3>7. sys' = [sys EXCEPT !["err"] = hook[h].old] /\ ~hook'[h].alive
      <4>1. Top({g \in Installed("err") : g < h}, hook[h].old)
        BY <1>3, <1>4, <3>5 DEF Nest
      <4>2. hook[h].old # None
        BY <1>4, <1>5, <4>1 DEF Top, Orig, None
      <4> QED BY <1>1, <3>3, <3>6, <4>2 DEF Deleted, Back
    <3>8. sys'["err"] = hook[h].old /\ sys'["out"] = sys["out"]
      <4>1. sys \in [Stream -> Int]
        BY DEF Typing, Sound, State
      <4> QED BY <1>4, <3>7, <4>1
    <3>9. \A g \in Hooks : g # h => Twin(hook'[g], hook[g])
      <4>1. \A g \in Hooks : g # h => Like(hook'[g], q.hook[g])
        BY <1>1, <2>4, <3>3 DEF Deleted
      <4> QED BY <2>4, <4>1 DEF Like, SameHook, Twin
    <3>10. \A s \in Stream : \A g \in Installed(s) : g # h => hook[g].frame # n + 1
      BY <1>1, <1>5, <2>6, <3>1 DEF Stacked
    <3>11. \A s \in Stream : \A g \in Installed(s) : g # h => Twin(hook'[g], hook[g]) /\ Stacked(g)'
      BY <1>5, <2>7, <3>9, <3>10
    <3>12. \A s \in Stream : Installed(s)' = {g \in Hooks : hook'[g].alive /\ hook'[g].isInstall /\ hook'[g].stream = s}
      BY <1>1, <2>1 DEF Installed
    <3>13. \A s \in Stream, g \in Hooks : g # h =>
             (g \in Installed(s) <=> hook'[g].alive /\ hook'[g].isInstall /\ hook'[g].stream = s)
      BY <3>9 DEF Installed, Twin
    <3>14. Installed("err")' = Installed("err") \ {h}
      BY <1>4, <1>5, <3>7, <3>12, <3>13
    <3>15. h \notin Installed("out") /\ Installed("out")' = Installed("out")
      <4>1. h \notin Installed("out")
        BY <1>4, <1>5, <3>4
      <4>2. \A g : g \in Installed("out")' <=>
                    g \in Hooks /\ hook'[g].alive /\ hook'[g].isInstall /\ hook'[g].stream = "out"
        BY <1>4, <3>12
      <4>3. \A g : g \in Installed("out")' <=> g \in Installed("out")
        BY <1>4, <1>5, <3>7, <3>13, <4>1, <4>2
      <4> QED BY <4>1, <4>3
    <3>16. \A g \in Installed("err") : g \in Nat /\ g =< h
      <4>1. SUFFICES ASSUME NEW g \in Installed("err") PROVE g \in Nat /\ g =< h
        OBVIOUS
      <4>2. g \in Nat /\ h \in Nat /\ hook[g].frame \in 0..(n + 1)
        BY <1>4, <1>5, <2>6, <3>5
      <4>3. ~(h < g)
        <5>1. SUFFICES ASSUME h < g PROVE FALSE
          OBVIOUS
        <5>2. hook[h].frame < hook[g].frame
          BY <1>3, <1>4, <3>5, <5>1 DEF Nest
        <5> QED BY <3>4, <4>2, <5>2
      <4> QED BY <4>2, <4>3
    <3>17. Nest("err")'
      BY <1>3, <1>4, <2>6, <3>5, <3>8, <3>11, <3>14, <3>16, PopNest
    <3>18. Nest("out")'
      <4>1. \A g \in Installed("out") : Twin(hook'[g], hook[g]) /\ Stacked(g)'
        BY <1>4, <3>11, <3>15
      <4> QED BY <1>3, <1>4, <2>6, <3>8, <3>15, <4>1, SameNest
    <3> QED BY <1>4, <2>3, <3>17, <3>18
  <2> QED BY <2>8, <2>9
<1>19. ASSUME UNCHANGED vars PROVE ~fault' /\ ~error' /\ \A s \in Stream : Nest(s)'
  <2>1. /\ hook' = hook /\ sys' = sys /\ pyStdErrHook_' = pyStdErrHook_ /\ fault' = fault /\ frames' = frames
        /\ error' = error
    BY <1>19 DEF vars
  <2>2. Len(frames') \in Nat /\ Len(frames') >= Len(frames) /\ Len(hook') = Len(hook)
    BY <1>1, <2>1
  <2>3. \A g \in Hooks : Twin(hook'[g], hook[g])
    BY <2>1 DEF Twin
  <2> QED BY <1>3, <1>8, <1>9, <2>1, <2>2, <2>3
<1> QED BY <1>11, <1>12, <1>13, <1>14, <1>15, <1>16, <1>17, <1>18, <1>19 DEF Next

\* At first nothing is nested.
LEMMA InitClean == Init => Clean
<1> SUFFICES ASSUME Init PROVE ~fault /\ ~error /\ \A s \in Stream : Nest(s)
  BY DEF Clean
<1>1. /\ hook = <<>> /\ ~fault /\ ~error /\ sys = [s \in Stream |-> Orig]
  BY DEF Init
<1>2. Hooks = {}
  <2>1. Len(hook) = 0 /\ 1..0 = {}
    BY <1>1
  <2> QED BY <2>1 DEF Hooks
<1>3. \A s \in Stream : Installed(s) = {} /\ sys[s] = Orig
  BY <1>1, <1>2 DEF Installed
<1> QED BY <1>1, <1>3 DEF Nest, Top

\* The hooks are nested.
LEMMA InvClean == Spec => [](Typing /\ FrameHooks /\ Whole /\ Clean)
<1>1. Typing /\ FrameHooks /\ Whole /\ Clean /\ [Next]_vars => (Typing /\ FrameHooks /\ Whole /\ Clean)'
  BY StepTyping, StepCalls, StepWhole, StepClean
<1> QED BY <1>1, InitTyping, InitWhole, InitClean, PTL DEF Spec

\* The topmost of the hooks that nest is the innermost.
LEMMA CleanIsInnermost == Typing /\ Clean => SysIsInnermost
<1> SUFFICES ASSUME Typing, Clean, ~failed, ~touched
             PROVE  ~fault /\ \A s \in Stream : sys[s] = Innermost(s)
  BY DEF SysIsInnermost
<1>0. ~fault
  BY DEF Clean
<1> SUFFICES ASSUME NEW s \in Stream PROVE sys[s] = Innermost(s)
  BY <1>0
<1>1. ~fault /\ Top(Installed(s), sys[s])
  BY DEF Clean, Nest
<1>2. \A h \in Installed(s) : h \in Nat
  BY DEF Installed, Hooks
<1>3. CASE Installed(s) = {}
  BY <1>1, <1>3 DEF Top, Innermost
<1>4. CASE Installed(s) # {}
  <2>1. sys[s] \in Installed(s) /\ \A g \in Installed(s) : g =< sys[s]
    BY <1>1, <1>4 DEF Top
  <2>2. PICK S : S = Installed(s)
    OBVIOUS
  <2>3. Innermost(s) = CHOOSE h \in S : \A g \in S : g =< h
    BY <1>4, <2>2 DEF Innermost
  <2>4. PICK c : c = Innermost(s)
    OBVIOUS
  <2>5. c \in S /\ \A g \in S : g =< c
    BY <2>1, <2>2, <2>3, <2>4
  <2>6. c =< sys[s] /\ sys[s] =< c /\ c \in Nat /\ sys[s] \in Nat
    BY <1>2, <2>1, <2>2, <2>5
  <2> QED BY <1>1, <2>4, <2>6
<1> QED BY <1>3, <1>4

\* While sys can be imported and Python code goes through sys, sys holds the object of the
\* innermost living hook of each stream, and no write reaches a hook that was destroyed.
THEOREM SysIsInnermostThm == Spec => []SysIsInnermost
BY InvClean, CleanIsInnermost, PTL

-----------------------------------------------------------------------------
(* ErrorsCaptured *)

\* Of what was written, b is taken up to the last newline, and l is the rest.
Cut(wrote, b, l) ==
  /\ wrote = b \o l
  /\ b = <<>> \/ b[Len(b)] = "newline"
  /\ \A k \in 1..Len(l) : l[k] # "newline"

\* What every call with a buffer was told is in its buffer, but for what its hook keeps.
Caught(fr, hs) == fr.buffered => Cut(fr.wrote["err"], fr.buffer["err"], hs[fr.hooks[1]].wbuffer)
Captured(v) == \A i \in 1..Len(v.frames) : Caught(v.frames[i], v.hook)

\* A hook neither loses nor invents text, and hands on what it keeps when a newline begins.
LEMMA OnWriteKeeps ==
  ASSUME NEW e, NEW b \in Seq(Text), NEW line \in Seq(Text), NEW text \in Text, Cut(e, b, line)
  PROVE  Cut(Append(e, text), b \o OnWrite(line, text).flushed, OnWrite(line, text).line)
<1>1. Append(line, text) \in Seq(Text) /\ <<>> \in Seq(Text) /\ b \o line \in Seq(Text) /\ e = b \o line
  BY DEF Cut
<1>2. Append(e, text) = b \o Append(line, text)
  <2>1. Append(b \o line, text) = b \o Append(line, text)
    OBVIOUS
  <2> QED BY <1>1, <2>1
<1>3. CASE text = "newline"
  <2>1. OnWrite(line, text).line = <<>> /\ OnWrite(line, text).flushed = Append(line, text)
    BY <1>3 DEF OnWrite
  <2>2. PICK d \in Seq(Text) : d = Append(line, text)
    BY <1>1
  <2>3. Len(d) \in Nat /\ Len(d) > 0 /\ d[Len(d)] = text
    BY <2>2
  <2>4. PICK c \in Seq(Text) : c = b \o d
    <3>1. b \o d \in Seq(Text)
      OBVIOUS
    <3> QED BY <3>1
  <2>5. c \o <<>> = c
    OBVIOUS
  <2>6. Len(c) = Len(b) + Len(d) /\ c[Len(c)] = d[Len(d)]
    BY <2>3, <2>4
  <2>7. \A k \in 1..Len(<<>>) : <<>>[k] # "newline"
    OBVIOUS
  <2>8. Cut(c, c, <<>>)
    BY <1>3, <2>3, <2>5, <2>6, <2>7 DEF Cut
  <2> QED BY <1>2, <2>1, <2>2, <2>4, <2>8
<1>4. CASE text # "newline"
  <2>1. OnWrite(line, text).flushed = <<>> /\ OnWrite(line, text).line = Append(line, text)
    BY <1>4 DEF OnWrite
  <2>2. b \o <<>> = b
    OBVIOUS
  <2>3. PICK d \in Seq(Text) : d = Append(line, text)
    BY <1>1
  <2>4. \A k \in 1..Len(d) : d[k] # "newline"
    <3>1. SUFFICES ASSUME NEW k \in 1..Len(d) PROVE d[k] # "newline"
      OBVIOUS
    <3>2. Len(line) \in Nat /\ Len(d) = Len(line) + 1 /\ d[Len(line) + 1] = text
      BY <2>3
    <3>3. CASE k \in 1..Len(line)
      <4>1. d[k] = line[k]
        BY <2>3, <3>3
      <4> QED BY <3>3, <4>1 DEF Cut
    <3>4. CASE k \notin 1..Len(line)
      <4>1. k = Len(line) + 1
        BY <3>2, <3>4
      <4> QED BY <1>4, <3>2, <4>1
    <3> QED BY <3>3, <3>4
  <2>5. Cut(b \o d, b, d)
    BY <2>4 DEF Cut
  <2> QED BY <1>2, <2>1, <2>2, <2>3, <2>5
<1> QED BY <1>3, <1>4

\* Who asked depends on the calls alone, not on what was written.
LEMMA SameAsker ==
  ASSUME NEW fs \in Seq(FrameRec), NEW gs \in Seq(FrameRec), Len(gs) = Len(fs),
         \A i \in 1..Len(fs) : SameCall(gs[i], fs[i])
  PROVE  Asker(gs) = Asker(fs)
<1>1. Len(fs) \in Nat /\ \A i \in 1..Len(fs) : gs[i].buffered = fs[i].buffered
  BY DEF SameCall
<1>2. PICK a, b : a = Asker(fs) /\ b = Asker(gs)
  OBVIOUS
<1>3. /\ a \in 0..Len(fs) /\ (a = 0 => \A i \in 1..Len(fs) : ~fs[i].buffered)
      /\ a # 0 => fs[a].buffered /\ \A j \in 1..Len(fs) : fs[j].buffered => j =< a
  BY <1>2, AskerIs DEF AskerOf
<1>4. /\ b \in 0..Len(fs) /\ (b = 0 => \A i \in 1..Len(fs) : ~fs[i].buffered)
      /\ b # 0 => fs[b].buffered /\ \A j \in 1..Len(fs) : fs[j].buffered => j =< b
  <2>1. AskerOf(gs)
    BY AskerIs
  <2> QED BY <1>1, <1>2, <2>1 DEF AskerOf
<1>5. CASE a = 0 \/ b = 0
  BY <1>1, <1>2, <1>3, <1>4, <1>5
<1>6. CASE a # 0 /\ b # 0
  <2>1. a \in 1..Len(fs) /\ b \in 1..Len(fs)
    BY <1>1, <1>3, <1>4, <1>6
  <2>2. a =< b /\ b =< a
    BY <1>3, <1>4, <1>6, <2>1
  <2> QED BY <1>1, <1>2, <2>1, <2>2
<1> QED BY <1>5, <1>6

\* When the hooks nest, what is written to sys.stderr reaches the hook of the asker.
LEMMA AskerInSys ==
  ASSUME Typing, FrameHooks, Whole, ~failed, Nest("err"), Asker(frames) # 0
  PROVE  /\ Asker(frames) \in 1..Len(frames) /\ frames[Asker(frames)].buffered
         /\ frames[Asker(frames)].hooks[1] = sys["err"] /\ Owns(frames[Asker(frames)], Asker(frames), hook, 1)
<1>1. frames \in Seq(FrameRec) /\ Len(frames) \in Nat /\ Len(hook) \in Nat
  <2>1. hook \in Seq(HookRec) /\ frames \in Seq(FrameRec)
    BY DEF Typing, Sound, State
  <2> QED BY <2>1
<1>2. PICK a : a = Asker(frames)
  OBVIOUS
<1>3. a \in 1..Len(frames) /\ frames[a].buffered /\ \A j \in 1..Len(frames) : frames[j].buffered => j =< a
  BY <1>1, <1>2, AskerIs DEF AskerOf
<1>4. CallOf(frames[a], a, hook) /\ CallWhole(frames[a], hook)
  BY <1>3 DEF FrameHooks, Whole
<1>5. Len(frames[a].hooks) = 1 /\ hook[frames[a].hooks[1]].isInstall
  BY <1>3, <1>4 DEF CallWhole
<1>6. Owns(frames[a], a, hook, 1)
  BY <1>4, <1>5 DEF CallOf
<1>7. PICK h : h = frames[a].hooks[1]
  OBVIOUS
<1>8. h \in Installed("err") /\ hook[h].frame = a
  BY <1>5, <1>6, <1>7 DEF Owns, Installed, Hooks
<1>9. PICK t : t = sys["err"]
  OBVIOUS
<1>10. t \in Installed("err") /\ h =< t
  BY <1>8, <1>9 DEF Nest, Top
<1>11. t \in Nat /\ h \in Nat
  BY <1>8, <1>10 DEF Installed, Hooks
<1>12. ~(h < t)
  <2>1. SUFFICES ASSUME h < t PROVE FALSE
    OBVIOUS
  <2>2. a < hook[t].frame
    BY <1>8, <1>10, <2>1 DEF Nest
  <2>3. Stacked(t)
    BY <1>10 DEF Nest
  <2>4. hook[t].frame \in 1..Len(frames) /\ Len(frames[hook[t].frame].hooks) = 1
    BY <1>3, <2>2, <2>3 DEF Stacked
  <2>5. PICK j \in 1..Len(frames) : j = hook[t].frame
    BY <2>4
  <2>6. frames[j].hooks # <<>>
    <3>1. PICK hs : hs = frames[j].hooks
      OBVIOUS
    <3>2. Len(hs) = 1 /\ Len(<<>>) = 0
      BY <2>4, <2>5, <3>1
    <3>3. hs # <<>>
      BY <3>2
    <3> QED BY <3>1, <3>3
  <2>7. frames[j].buffered
    <3>1. CallOf(frames[j], j, hook)
      BY DEF FrameHooks
    <3> QED BY <2>6, <3>1 DEF CallOf
  <2> QED BY <1>3, <2>2, <2>5, <2>7
<1>13. h = t
  BY <1>10, <1>11, <1>12
<1> QED BY <1>2, <1>3, <1>6, <1>7, <1>9, <1>13

\* v is what an earlier write made of the state
LEMMA WriteCaptures ==
  ASSUME Typing, FrameHooks, Whole, ~failed, \A s \in Stream : Nest(s),
         NEW v, After(v, Written), ~v.fault, Captured(v), NEW s \in Stream, NEW text \in Text,
         NEW w, Wrote(w, v, s, sys[s], text)
  PROVE  Captured(w)
<1>1. /\ hook \in Seq(HookRec) /\ frames \in Seq(FrameRec) /\ Len(hook) \in Nat /\ Len(frames) \in Nat
      /\ "err" \in Stream
  <2>1. hook \in Seq(HookRec) /\ frames \in Seq(FrameRec)
    BY DEF Typing, Sound, State
  <2> QED BY <2>1 DEF Stream
<1>2. /\ v.hook \in Seq(HookRec) /\ v.frames \in Seq(FrameRec)
      /\ Len(v.hook) = Len(hook) /\ Len(v.frames) = Len(frames)
      /\ \A g \in 1..Len(hook) : SameHook(v.hook[g], hook[g])
      /\ \A i \in 1..Len(frames) : SameCall(v.frames[i], frames[i])
  BY DEF After, Writing, Written
<1>3. SUFFICES ASSUME NEW i \in 1..Len(frames), w.frames[i].buffered
               PROVE  Cut(w.frames[i].wrote["err"], w.frames[i].buffer["err"], w.hook[w.frames[i].hooks[1]].wbuffer)
  BY <1>2 DEF Captured, Caught, Wrote
<1>4. SameCall(w.frames[i], v.frames[i]) /\ SameCall(v.frames[i], frames[i])
  BY <1>2 DEF Wrote
<1>5. v.frames[i].buffered /\ frames[i].buffered /\ w.frames[i].hooks = frames[i].hooks /\ v.frames[i].hooks = frames[i].hooks
  BY <1>3, <1>4 DEF SameCall
<1>6. PICK h : h = frames[i].hooks[1]
  OBVIOUS
<1>7. /\ h \in 1..Len(hook) /\ hook[h].frame = i /\ hook[h].alive /\ hook[h].stream = "err"
  <2>1. CallOf(frames[i], i, hook) /\ CallWhole(frames[i], hook)
    BY DEF FrameHooks, Whole
  <2>2. Len(frames[i].hooks) = 1
    BY <1>5, <2>1 DEF CallWhole
  <2>3. Owns(frames[i], i, hook, 1)
    BY <2>1, <2>2 DEF CallOf
  <2> QED BY <1>6, <2>3 DEF Owns
<1>8. SameHook(v.hook[h], hook[h])
  BY <1>2, <1>7
<1>9. Cut(v.frames[i].wrote["err"], v.frames[i].buffer["err"], v.hook[h].wbuffer)
  BY <1>2, <1>5, <1>6 DEF Captured, Caught
<1>10. PICK o : o = sys[s]
  OBVIOUS
<1>11. v.frames[i] \in FrameRec /\ v.hook[h] \in HookRec
  BY <1>2, <1>7
<1>12. /\ v.frames[i].wrote \in [Stream -> Seq(Text)] /\ v.frames[i].buffer \in [Stream -> Seq(Text)]
       /\ v.hook[h].wbuffer \in Seq(Text)
  BY <1>11 DEF FrameRec, HookRec
<1>13. w.frames[i].wrote = IF i = Asker(frames) THEN [v.frames[i].wrote EXCEPT ![s] = Append(@, text)]
                           ELSE v.frames[i].wrote
  <2>1. Asker(v.frames) = Asker(frames)
    BY <1>1, <1>2, SameAsker
  <2> QED BY <1>2, <2>1 DEF Wrote
<1>14. w.frames[i].buffer = IF Reaches(v, o) /\ i = v.hook[o].frame
                            THEN [v.frames[i].buffer EXCEPT ![s] = @ \o Flushed(v, o, text)]
                            ELSE v.frames[i].buffer
  BY <1>2, <1>10 DEF Wrote
<1>15. w.hook[h].wbuffer = IF h = o /\ Reaches(v, o) THEN OnWrite(v.hook[o].wbuffer, text).line
                           ELSE v.hook[h].wbuffer
  BY <1>2, <1>7, <1>10 DEF Wrote
<1>16. CASE s = "out"
  <2>1. w.frames[i].wrote["err"] = v.frames[i].wrote["err"]
    BY <1>12, <1>13, <1>16
  <2>2. w.frames[i].buffer["err"] = v.frames[i].buffer["err"]
    BY <1>12, <1>14, <1>16
  <2>3. h # o
    <3>1. Top(Installed("out"), o)
      BY <1>10, <1>16 DEF Nest
    <3>2. o = Orig \/ hook[o].stream = "out"
      BY <3>1 DEF Top, Installed
    <3> QED BY <1>7, <3>2 DEF Orig
  <2>4. w.hook[h].wbuffer = v.hook[h].wbuffer
    BY <1>15, <2>3
  <2> QED BY <1>5, <1>6, <1>9, <2>1, <2>2, <2>4
<1>17. CASE s = "err"
  <2>1. /\ Asker(frames) \in 1..Len(frames) /\ frames[Asker(frames)].hooks[1] = o /\ Owns(frames[Asker(frames)], Asker(frames), hook, 1)
    <3>1. AskerOf(frames)
      BY <1>1, AskerIs
    <3>2. Asker(frames) # 0
      BY <1>5, <3>1 DEF AskerOf
    <3> QED BY <1>1, <1>10, <1>17, <3>2, AskerInSys
  <2>2. o \in 1..Len(hook) /\ hook[o].frame = Asker(frames) /\ hook[o].alive
    BY <2>1 DEF Owns
  <2>3. SameHook(v.hook[o], hook[o])
    BY <1>2, <2>2
  <2>4. Reaches(v, o) /\ v.hook[o].frame = Asker(frames)
    BY <1>1, <2>2, <2>3 DEF Reaches, SameHook, Orig, None
  <2>5. CASE i = Asker(frames)
    <3>1. h = o
      BY <1>6, <2>1, <2>5
    <3>2. PICK b, l, e : b = v.frames[i].buffer["err"] /\ l = v.hook[h].wbuffer /\ e = v.frames[i].wrote["err"]
      OBVIOUS
    <3>3. b \in Seq(Text) /\ l \in Seq(Text) /\ Cut(e, b, l)
      BY <1>1, <1>9, <1>12, <3>2
    <3>4. w.frames[i].wrote["err"] = Append(e, text)
      BY <1>1, <1>12, <1>13, <1>17, <2>5, <3>2
    <3>5. w.frames[i].buffer["err"] = b \o OnWrite(l, text).flushed
      BY <1>1, <1>12, <1>14, <1>17, <2>4, <2>5, <3>1, <3>2 DEF Flushed
    <3>6. w.hook[h].wbuffer = OnWrite(l, text).line
      BY <1>15, <2>4, <3>1, <3>2
    <3>7. Cut(Append(e, text), b \o OnWrite(l, text).flushed, OnWrite(l, text).line)
      BY <3>3, OnWriteKeeps
    <3> QED BY <1>5, <1>6, <3>4, <3>5, <3>6, <3>7
  <2>6. CASE i # Asker(frames)
    <3>1. h # o
      BY <1>7, <2>2, <2>6
    <3>2. w.frames[i].wrote = v.frames[i].wrote /\ w.frames[i].buffer = v.frames[i].buffer
      BY <1>13, <1>14, <2>4, <2>6
    <3>3. w.hook[h].wbuffer = v.hook[h].wbuffer
      BY <1>15, <3>1
    <3> QED BY <1>5, <1>6, <1>9, <3>2, <3>3
  <2> QED BY <2>5, <2>6
<1> QED BY <1>16, <1>17 DEF Stream

\* Before anything is written to it, a call has what it was told.
LEMMA CaughtKept ==
  ASSUME FrameHooks, Whole, ~failed, Len(frames) \in Nat, NEW n \in Nat, n =< Len(frames), NEW v, NEW hs, NEW fs,
         \A i \in 1..n : SameCall(v.frames[i], frames[i]) /\ fs[i] = v.frames[i] /\ Caught(v.frames[i], v.hook),
         \A g \in Hooks : hook[g].frame \in 1..n => hs[g].wbuffer = v.hook[g].wbuffer
  PROVE  \A i \in 1..n : Caught(fs[i], hs)
<1>1. SUFFICES ASSUME NEW i \in 1..n, fs[i].buffered
               PROVE  Cut(fs[i].wrote["err"], fs[i].buffer["err"], hs[fs[i].hooks[1]].wbuffer)
  BY DEF Caught
<1>2. i \in 1..Len(frames) /\ fs[i] = v.frames[i] /\ SameCall(v.frames[i], frames[i])
  OBVIOUS
<1>3. frames[i].buffered /\ v.frames[i].hooks = frames[i].hooks
  BY <1>1, <1>2 DEF SameCall
<1>4. Owns(frames[i], i, hook, 1)
  <2>1. CallOf(frames[i], i, hook) /\ CallWhole(frames[i], hook)
    BY <1>2 DEF FrameHooks, Whole
  <2>2. Len(frames[i].hooks) = 1
    BY <1>3, <2>1 DEF CallWhole
  <2> QED BY <2>1, <2>2 DEF CallOf
<1>5. PICK h : h = frames[i].hooks[1]
  OBVIOUS
<1>6. h \in Hooks /\ hook[h].frame = i
  BY <1>4, <1>5 DEF Owns, Hooks
<1>7. hs[h].wbuffer = v.hook[h].wbuffer
  BY <1>6
<1>8. PICK fr : fr = v.frames[i]
  OBVIOUS
<1>9. Caught(fr, v.hook) /\ fs[i] = fr /\ fr.buffered /\ fr.hooks[1] = h
  BY <1>1, <1>2, <1>3, <1>5, <1>8
<1>10. Cut(fr.wrote["err"], fr.buffer["err"], v.hook[h].wbuffer)
  BY <1>9 DEF Caught
<1> QED BY <1>7, <1>9, <1>10

\* No write is lost that was meant for a call with a buffer.
Heard == ~failed /\ ~touched => \A i \in 1..Len(frames) : Caught(frames[i], hook)

\* No step takes from a buffer or adds to another's.
LEMMA StepHeard == Typing /\ FrameHooks /\ Whole /\ Clean /\ Heard /\ [Next]_vars => Heard'
<1> SUFFICES ASSUME Typing, FrameHooks, Whole, Clean, Heard, [Next]_vars, ~failed', ~touched'
             PROVE  \A i \in 1..Len(frames') : Caught(frames'[i], hook')
  BY DEF Heard
<1>1. /\ hook \in Seq(HookRec) /\ Len(hook) \in Nat /\ Hooks = 1..Len(hook)
      /\ frames \in Seq(FrameRec) /\ Len(frames) \in Nat /\ State.hook = hook /\ State'.hook = hook'
      /\ State'.sys = sys'
  <2>1. hook \in Seq(HookRec) /\ frames \in Seq(FrameRec)
    BY DEF Typing, Sound, State
  <2> QED BY <2>1 DEF Hooks, State
<1>2. ~failed /\ ~touched
  BY StaysFailed
<1>3. ~fault /\ (\A s \in Stream : Nest(s)) /\ \A i \in 1..Len(frames) : Caught(frames[i], hook)
  BY <1>2 DEF Clean, Heard
<1>4. PICK v : v = Written
  OBVIOUS
<1>5. v.hook = hook /\ v.frames = frames /\ v.fault = fault
  BY <1>4 DEF Written
<1>6. Captured(v)
  BY <1>3, <1>5 DEF Captured
<1>7. After(v, v)
  <2>1. Writing(v)
    BY <1>1, <1>4 DEF Writing, Written, Typing
  <2> QED BY <2>1 DEF After, SameHook, SameCall
<1>8. "err" \in Stream /\ "text" \in Text /\ "newline" \in Text
  BY DEF Stream, Text
<1>9. ASSUME \A g \in Hooks : Like(hook'[g], hook[g]), NEW n \in Nat, n =< Len(frames),
             \A i \in 1..n : frames'[i] = frames[i]
      PROVE  \A i \in 1..n : Caught(frames'[i], hook')
  <2>1. \A i \in 1..n : SameCall(v.frames[i], frames[i]) /\ frames'[i] = v.frames[i] /\ Caught(v.frames[i], v.hook)
    BY <1>1, <1>3, <1>5, <1>9 DEF SameCall
  <2>2. \A g \in Hooks : hook[g].frame \in 1..n => hook'[g].wbuffer = v.hook[g].wbuffer
    BY <1>5, <1>9 DEF Like
  <2>3. PICK fs, hs : fs = frames' /\ hs = hook'
    OBVIOUS
  <2>4. \A i \in 1..n : SameCall(v.frames[i], frames[i]) /\ fs[i] = v.frames[i] /\ Caught(v.frames[i], v.hook)
    BY <2>1, <2>3
  <2>5. \A g \in Hooks : hook[g].frame \in 1..n => hs[g].wbuffer = v.hook[g].wbuffer
    BY <2>2, <2>3
  <2>6. Len(frames) \in Nat /\ n =< Len(frames) /\ ~failed
    BY <1>1, <1>2, <1>9
  <2>7. \A i \in 1..n : Caught(fs[i], hs)
    BY <2>4, <2>5, <2>6, CaughtKept, Zenon
  <2> QED BY <2>3, <2>7
<1>10. ASSUME NEW okErr \in BOOLEAN, NEW okOut \in BOOLEAN, NEW okUndo \in BOOLEAN, Install(okErr, okOut, okUndo)
       PROVE  \A i \in 1..Len(frames') : Caught(frames'[i], hook')
  <2>1. frames' = <<>>
    BY <1>10 DEF Install
  <2> QED BY <2>1
<1>11. ASSUME NEW okErr \in BOOLEAN, NEW okOut \in BOOLEAN, RunBuffered(okErr, okOut)
       PROVE  \A i \in 1..Len(frames') : Caught(frames'[i], hook')
  <2>1. okErr = TRUE
    BY <1>11 DEF RunBuffered
  <2>2. BufferedOk
    BY <1>11, <2>1, BufferedOkIs
  <2>3. PICK m : m = Len(frames) + 1
    OBVIOUS
  <2>4. Len(frames') = m /\ \A i \in 1..m : i \in 1..Len(frames) \/ i = m
    BY <1>1, <2>2, <2>3 DEF BufferedOk
  <2>5. \A i \in 1..Len(frames) : Caught(frames'[i], hook')
    BY <1>1, <1>9, <2>2 DEF BufferedOk
  <2>6. Caught(frames'[m], hook')
    <3>1. /\ frames'[m].hooks[1] = Len(hook) + 1 /\ frames'[m].wrote = Silence /\ frames'[m].buffer = Silence
          /\ hook'[Len(hook) + 1].wbuffer = <<>>
      BY <2>2, <2>3 DEF BufferedOk, Added
    <3>2. Silence["err"] = <<>>
      BY <1>8 DEF Silence
    <3>3. Cut(<<>>, <<>>, <<>>)
      <4>1. <<>> \o <<>> = <<>> /\ \A k \in 1..Len(<<>>) : <<>>[k] # "newline"
        OBVIOUS
      <4> QED BY <4>1 DEF Cut
    <3> QED BY <3>1, <3>2, <3>3 DEF Caught
  <2> QED BY <2>4, <2>5, <2>6
<1>12. ASSUME Uninstall PROVE \A i \in 1..Len(frames') : Caught(frames'[i], hook')
  <2>1. frames' = <<>>
    BY <1>12 DEF Uninstall
  <2> QED BY <2>1
<1>13. ASSUME Run PROVE \A i \in 1..Len(frames') : Caught(frames'[i], hook')
  <2>1. hook' = hook /\ frames' = Append(frames, Frame(FALSE, <<>>))
    BY <1>13 DEF Run
  <2>2. PICK fr \in FrameRec : fr = Frame(FALSE, <<>>) /\ fr.buffered = FALSE
    <3>1. <<>> \in Seq(Int)
      OBVIOUS
    <3> QED BY <3>1, FrameIs
  <2>3. frames' = Append(frames, fr)
    BY <2>1, <2>2
  <2>4. /\ Len(frames') = Len(frames) + 1 /\ frames'[Len(frames) + 1] = fr
        /\ \A i \in 1..Len(frames) : frames'[i] = frames[i]
    BY <1>1, <2>3
  <2>5. \A i \in 1..Len(frames) : Caught(frames'[i], hook')
    BY <1>3, <2>1, <2>4
  <2>6. Caught(frames'[Len(frames) + 1], hook')
    BY <2>2, <2>4 DEF Caught
  <2>7. \A i \in 1..(Len(frames) + 1) : i \in 1..Len(frames) \/ i = Len(frames) + 1
    BY <1>1
  <2> QED BY <2>4, <2>5, <2>6, <2>7
<1>14. ~PyAssign /\ \A s \in Stream : ~PyDelete(s)
  BY DEF PyAssign, PyDelete
<1>15. ASSUME NEW s \in Stream, PySave(s) PROVE \A i \in 1..Len(frames') : Caught(frames'[i], hook')
  <2>1. Counted(State', State, sys[s], 1) /\ frames' = frames
    BY <1>15, SaveIs DEF PySave
  <2>2. \A g \in Hooks : Like(hook'[g], hook[g])
    BY <1>1, <2>1 DEF Counted
  <2>3. \A i \in 1..Len(frames) : Caught(frames'[i], hook')
    BY <1>1, <1>9, <2>1, <2>2
  <2> QED BY <2>1, <2>3
<1>16. ASSUME NEW s \in Stream, NEW text \in Text, PyWrite(s, text)
       PROVE  \A i \in 1..Len(frames') : Caught(frames'[i], hook')
  <2>1. PICK w : /\ Wrote(w, Written, s, sys[s], text)
                 /\ State' = [sys |-> sys, hook |-> w.hook] /\ frames' = w.frames
    BY <1>16, WriteIs DEF WriteDone
  <2>2. Captured(w)
    BY <1>2, <1>3, <1>4, <1>5, <1>6, <1>7, <2>1, WriteCaptures
  <2>3. hook' = w.hook
    BY <1>1, <2>1
  <2> QED BY <2>1, <2>2, <2>3 DEF Captured
<1>17. ASSUME NEW raised \in BOOLEAN, NEW ok \in BOOLEAN, NEW late \in BOOLEAN, RunReturns(raised, ok, late)
       PROVE  \A i \in 1..Len(frames') : Caught(frames'[i], hook')
  <2>1. PICK q : CleanEnd(q, raised)
    BY <1>17, CleanReturns DEF CleanReturn
  <2>2. Captured(q)
    <3>1. CASE raised
      <4>1. PICK p : Wrote(p, v, "err", sys["err"], "text") /\ Wrote(q, p, "err", sys["err"], "newline")
        BY <1>4, <2>1, <3>1 DEF CleanEnd, Printed
      <4>2. Captured(p)
        BY <1>2, <1>3, <1>4, <1>5, <1>6, <1>7, <1>8, <4>1, WriteCaptures
      <4>3. After(p, v)
        BY <4>1 DEF After, Wrote
      <4>4. ~p.fault
        <5>1. Top(Installed("err"), sys["err"])
          BY <1>3, <1>8 DEF Nest
        <5>2. sys["err"] = Orig \/ hook[sys["err"]].alive
          BY <5>1 DEF Top, Installed
        <5> QED BY <1>3, <1>5, <4>1, <5>2 DEF Wrote
      <4> QED BY <1>2, <1>3, <1>4, <1>8, <4>1, <4>2, <4>3, <4>4, WriteCaptures
    <3>2. CASE ~raised
      BY <1>4, <1>6, <2>1, <3>2 DEF CleanEnd
    <3> QED BY <3>1, <3>2
  <2>3. /\ q.frames \in Seq(FrameRec) /\ Len(q.frames) = Len(frames) /\ Len(q.hook) = Len(hook)
        /\ \A i \in 1..Len(frames) : SameCall(q.frames[i], frames[i])
    BY <1>4, <1>5, <2>1 DEF CleanEnd, After, Writing
  <2>4. Len(frames) # 0
    BY <1>17, ReturnsKeeps
  <2>5. PICK n \in Nat : n = Len(frames) - 1
    BY <1>1, <2>4
  <2>6. Len(frames') = n /\ \A i \in 1..n : frames'[i] = q.frames[i]
    <3>1. PICK fs \in Seq(FrameRec) : fs = q.frames
      BY <2>3
    <3>2. Len(fs) = n + 1 /\ frames' = SubSeq(fs, 1, n)
      BY <1>1, <2>1, <2>3, <2>5, <3>1 DEF CleanEnd, Front
    <3>3. 1 \in 1..(Len(fs) + 1) /\ n \in 0..Len(fs)
      BY <3>2
    <3> QED BY <3>1, <3>2, <3>3, SubSeqProperties
  <2>7. \A g \in Hooks : hook[g].frame \in 1..n => hook'[g].wbuffer = q.hook[g].wbuffer
    <3>1. CASE Last.hooks = <<>>
      <4>1. State' = [sys |-> sys, hook |-> q.hook]
        BY <2>1, <3>1 DEF CleanEnd
      <4> QED BY <1>1, <4>1
    <3>2. CASE Last.hooks # <<>>
      <4>1. PICK h : h = Last.hooks[1]
        OBVIOUS
      <4>2. PICK st : st = [sys |-> sys, hook |-> q.hook]
        OBVIOUS
      <4>3. st.hook = q.hook /\ Deleted(State', st, h, TRUE) /\ Owns(Last, Len(frames), hook, 1)
        BY <2>1, <3>2, <4>1, <4>2 DEF CleanEnd
      <4>4. hook[h].frame = n + 1
        BY <1>1, <2>5, <4>1, <4>3 DEF Owns
      <4>5. \A g \in Hooks : g # h => Like(hook'[g], q.hook[g])
        BY <1>1, <2>3, <4>3 DEF Deleted
      <4>6. \A g \in Hooks : hook[g].frame \in 1..n => g # h
        BY <4>4
      <4> QED BY <4>5, <4>6 DEF Like
    <3> QED BY <3>1, <3>2
  <2>8. \A i \in 1..n : SameCall(q.frames[i], frames[i]) /\ frames'[i] = q.frames[i] /\ Caught(q.frames[i], q.hook)
    <3>1. \A i \in 1..n : i \in 1..Len(frames)
      BY <1>1, <2>5
    <3> QED BY <2>2, <2>3, <2>6, <3>1 DEF Captured
  <2>9. n =< Len(frames)
    BY <1>1, <2>5
  <2>10. \A i \in 1..n : Caught(frames'[i], hook')
    <3>1. PICK fs, hs : fs = frames' /\ hs = hook'
      OBVIOUS
    <3>2. \A i \in 1..n : SameCall(q.frames[i], frames[i]) /\ fs[i] = q.frames[i] /\ Caught(q.frames[i], q.hook)
      BY <2>8, <3>1
    <3>3. \A g \in Hooks : hook[g].frame \in 1..n => hs[g].wbuffer = q.hook[g].wbuffer
      BY <2>7, <3>1
    <3>4. \A i \in 1..n : Caught(fs[i], hs)
      BY <1>1, <1>2, <2>9, <3>2, <3>3, CaughtKept, Zenon
    <3> QED BY <3>1, <3>4
  <2> QED BY <2>6, <2>10
<1>18. ASSUME UNCHANGED vars PROVE \A i \in 1..Len(frames') : Caught(frames'[i], hook')
  BY <1>3, <1>18 DEF vars
<1> QED BY <1>10, <1>11, <1>12, <1>13, <1>14, <1>15, <1>16, <1>17, <1>18 DEF Next

\* Before the first step there is no call.
LEMMA InitHeard == Init => Heard
BY DEF Init, Heard

\* Heard together with what it rests on is inductive.
LEMMA InvHeard == Spec => [](Typing /\ FrameHooks /\ Whole /\ Clean /\ Heard)
<1>1. /\ Typing /\ FrameHooks /\ Whole /\ Clean /\ Heard /\ [Next]_vars
      => (Typing /\ FrameHooks /\ Whole /\ Clean /\ Heard)'
  BY StepTyping, StepCalls, StepWhole, StepClean, StepHeard
<1> QED BY <1>1, InitTyping, InitWhole, InitClean, InitHeard, PTL DEF Spec

\* Heard says of the calls what ErrorsCaptured says.
LEMMA HeardCaptures == Typing /\ FrameHooks /\ Whole /\ Heard => ErrorsCaptured
<1> SUFFICES ASSUME Typing, FrameHooks, Whole, Heard, ~failed, ~touched, NEW i \in DOMAIN frames, frames[i].buffered
             PROVE  LET wrote == frames[i].wrote["err"]
                    IN  \E n \in 0..Len(wrote) :
                          /\ frames[i].buffer["err"] = SubSeq(wrote, 1, n)
                          /\ n > 0 => wrote[n] = "newline"
                          /\ \A k \in n + 1..Len(wrote) : wrote[k] # "newline"
  BY DEF ErrorsCaptured
<1>1. i \in 1..Len(frames) /\ frames[i] \in FrameRec /\ hook \in Seq(HookRec)
  <2>1. frames \in Seq(FrameRec) /\ hook \in Seq(HookRec)
    BY DEF Typing, Sound, State
  <2> QED BY <2>1
<1>2. PICK w, b, l : w = frames[i].wrote["err"] /\ b = frames[i].buffer["err"] /\ l = hook[frames[i].hooks[1]].wbuffer
  OBVIOUS
<1>3. Cut(w, b, l)
  BY <1>1, <1>2 DEF Heard, Caught
<1>4. b \in Seq(Text) /\ l \in Seq(Text)
  <2>1. CallOf(frames[i], i, hook) /\ CallWhole(frames[i], hook)
    BY <1>1 DEF FrameHooks, Whole
  <2>2. frames[i].hooks[1] \in 1..Len(hook)
    BY <2>1 DEF CallOf, CallWhole, Owns
  <2>3. hook[frames[i].hooks[1]] \in HookRec
    BY <1>1, <2>2
  <2>4. frames[i].buffer \in [Stream -> Seq(Text)] /\ "err" \in Stream
    BY <1>1 DEF FrameRec, Stream
  <2> QED BY <1>2, <2>3, <2>4 DEF HookRec
<1>5. PICK n \in Nat : n = Len(b)
  BY <1>4
<1>6. w = b \o l /\ w \in Seq(Text) /\ Len(w) = n + Len(l) /\ Len(l) \in Nat
  BY <1>3, <1>4, <1>5 DEF Cut
<1>7. n \in 0..Len(w) /\ b = SubSeq(w, 1, n)
  BY <1>4, <1>5, <1>6
<1>8. n > 0 => w[n] = "newline"
  <2>1. SUFFICES ASSUME n > 0 PROVE w[n] = "newline"
    OBVIOUS
  <2>2. b # <<>> /\ w[n] = b[n]
    BY <1>4, <1>5, <1>6, <2>1
  <2> QED BY <1>3, <1>5, <2>2 DEF Cut
<1>9. \A k \in n + 1..Len(w) : w[k] # "newline"
  <2>1. SUFFICES ASSUME NEW k \in n + 1..Len(w) PROVE w[k] # "newline"
    OBVIOUS
  <2>2. k - n \in 1..Len(l) /\ w[k] = l[k - n]
    BY <1>4, <1>5, <1>6
  <2> QED BY <1>3, <2>2 DEF Cut
<1> QED BY <1>2, <1>7, <1>8, <1>9

\* While sys can be imported and Python code goes through sys, the buffer of a call has all that
\* was written to sys.stderr since it began, uncaught exceptions included, up to and including the
\* last write that began with a newline; what was written since, finished lines included, is not
\* in it.  Nested calls with buffers of their own neither take from it nor add to it.
THEOREM ErrorsCapturedThm == Spec => []ErrorsCaptured
BY InvHeard, HeardCaptures, PTL
=============================================================================
