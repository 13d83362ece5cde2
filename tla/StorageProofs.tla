---------------------------- MODULE StorageProofs ----------------------------
(***************************************************************************)
(* Proofs about what the program stores: SessionStore, for any numbers of  *)
(* sessions, writers, messages and compactions; then StateFile and         *)
(* Catalog, as instances, in the last two parts.                           *)
(*                                                                         *)
(* StoreInv is the store's inductive invariant: the types (Typed), every   *)
(* row's id below the next one and in its own session (IdsInv), the marker *)
(* of a session at a message it can see (CursorInv) and the totals at or   *)
(* below the sum of the rows (TotalInv).  TotalsAddUp and                  *)
(* CursorNeverGoesBack follow from it, however many writers a session has. *)
(* Two more parts rest on it:                                              *)
(*                                                                         *)
(*   SentInv  the marker covers what is summarised.  A row inserted when a *)
(*            session already shows a greater id (late) may be passed      *)
(*            over, and no other;                                          *)
(*   ForkInv  what a session inherits.  The message of each cut-off is     *)
(*            inherited itself, so that a row which comes below a cut-off  *)
(*            is late.                                                     *)
(*                                                                         *)
(* The model reads a parent chain and a fork chain through recursive       *)
(* functions on depths.  Facts about all depths are proved by the least    *)
(* depth at which they fail (Least, SeqLemmas).                            *)
(***************************************************************************)
EXTENDS SessionStore, SeqLemmas, FiniteSetTheorems, TLAPS

-----------------------------------------------------------------------------
(* Recursion over depths.                                                  *)

Endo(S) == [S -> S]
Iterates(f, N, S, g, a) ==
  /\ f \in [0..N -> S] /\ f[0] = a
  /\ \A d \in 1..N : f[d] = g[f[d - 1]]

(* A function applied again and again gives one sequence of values ...     *)
LEMMA IterationUnique ==
  ASSUME NEW N \in Nat, NEW S, NEW g, NEW a, NEW e, NEW f,
         Iterates(e, N, S, g, a), Iterates(f, N, S, g, a)
  PROVE  e = f
<1> USE DEF Iterates
<1> DEFINE T == {d \in 0..N : e[d] # f[d]}
<1> SUFFICES ASSUME T # {} PROVE FALSE
  <2>1. e = [d \in 0..N |-> e[d]] /\ f = [d \in 0..N |-> f[d]]
    OBVIOUS
  <2> QED
    BY <2>1
<1>1. PICK n \in T : \A k \in T : n <= k
  <2>1. T \subseteq Nat
    OBVIOUS
  <2> QED
    BY <2>1, Least
<1>2. n \in 1..N /\ n - 1 \in 0..N /\ n - 1 \notin T
  BY <1>1
<1> QED
  BY <1>2

(* ... and there is one.                                                   *)
LEMMA IterationExists ==
  ASSUME NEW N \in Nat, NEW S, NEW g \in Endo(S), NEW a \in S
  PROVE  \E f : Iterates(f, N, S, g, a)
<1> USE DEF Endo, Iterates
<1> DEFINE Runs(n) == \E f : Iterates(f, n, S, g, a)
           T == {n \in Nat : ~Runs(n)}
<1> SUFFICES ASSUME T # {} PROVE FALSE
  OBVIOUS
<1>1. PICK n \in T : \A k \in T : n <= k
  <2> HIDE DEF Runs
  <2> QED
    BY Least
<1>2. n # 0
  <2>1. Runs(0)
    <3> DEFINE f == [d \in 0..0 |-> a]
    <3>1. Iterates(f, 0, S, g, a)
      OBVIOUS
    <3> QED
      BY <3>1
  <2> HIDE DEF Runs
  <2> QED
    BY <2>1
<1>3. Runs(n - 1)
  <2> HIDE DEF Runs
  <2> QED
    BY <1>1, <1>2
<1>4. PICK f : Iterates(f, n - 1, S, g, a)
  BY <1>3
<1> DEFINE h == [d \in 0..n |-> IF d = n THEN g[f[n - 1]] ELSE f[d]]
<1>5. /\ n \in Nat \ {0}
      /\ \A d \in 0..n : d # n => d \in 0..(n - 1)
      /\ n - 1 \in 0..(n - 1)
  BY <1>2
<1>6. h \in [0..n -> S] /\ h[0] = a
  BY <1>4, <1>5
<1>7. ASSUME NEW d \in 1..n PROVE h[d] = g[h[d - 1]]
  <2>1. d \in 0..n /\ d - 1 \in 0..n /\ d - 1 # n
    BY <1>5
  <2>2. h[d - 1] = f[d - 1]
    BY <2>1
  <2>3. CASE d = n
    BY <2>1, <2>2, <2>3
  <2>4. CASE d # n
    <3>1. d \in 1..(n - 1)
      BY <1>5, <2>4
    <3> QED
      BY <1>4, <2>1, <2>2, <2>4, <3>1
  <2> QED
    BY <2>3, <2>4
<1>8. Runs(n)
  <2> HIDE DEF h
  <2> QED
    BY <1>6, <1>7
<1> QED
  <2> HIDE DEF Runs
  <2> QED
    BY <1>8

-----------------------------------------------------------------------------
(* The parent chain.                                                       *)
Hops == 0..Cardinality(SessionIds)
Line(par, s) ==
  CHOOSE c : c = [d \in Hops |-> IF d = 0 THEN s
                                 ELSE IF c[d - 1] = None THEN None
                                 ELSE par[c[d - 1]]]

(* Lineage, now and after a step, is what the parents make of a session.   *)
LEMMA LineageIs ==
  ASSUME NEW s
  PROVE  /\ Lineage(s) = {Line(parent, s)[d] : d \in DOMAIN Line(parent, s)} \ {None}
         /\ Lineage(s)' = {Line(parent', s)[d] : d \in DOMAIN Line(parent', s)} \ {None}
BY DEF Lineage, Line, Hops

Onward(par, S) == [x \in S \cup {None} |-> IF x = None THEN None ELSE par[x]]

(* The chain goes from parent to parent, and stays within the sessions.    *)
LEMMA LineSteps ==
  ASSUME NEW S, S \subseteq SessionIds, NEW par \in [SessionIds -> S \cup {None}],
         NEW s \in S
  PROVE  Iterates(Line(par, s), Cardinality(SessionIds), S \cup {None},
                  Onward(par, S), s)
<1> DEFINE N == Cardinality(SessionIds)
           g == Onward(par, S)
<1>1. N \in Nat
  BY FiniteAssumption, FS_CardinalityType
<1>2. g \in Endo(S \cup {None})
  BY RootAssumption DEF Onward, Endo
<1>3. \A x \in S \cup {None} : g[x] = IF x = None THEN None ELSE par[x]
  BY DEF Onward
<1>4. PICK f : Iterates(f, N, S \cup {None}, g, s)
  <2> HIDE DEF N, g
  <2> QED
    BY <1>1, <1>2, IterationExists
<1>5. \A d \in Hops : d # 0 => d \in 1..N /\ d - 1 \in Hops
  BY <1>1 DEF Hops
<1>6. f = [d \in Hops |-> IF d = 0 THEN s
                          ELSE IF f[d - 1] = None THEN None ELSE par[f[d - 1]]]
  <2> HIDE DEF g
  <2>1. ASSUME NEW d \in Hops
        PROVE  f[d] = IF d = 0 THEN s
                      ELSE IF f[d - 1] = None THEN None ELSE par[f[d - 1]]
    BY <1>3, <1>4, <1>5 DEF Hops, Iterates
  <2> QED
    BY <1>4, <2>1 DEF Hops, Iterates
<1> DEFINE c == Line(par, s)
<1>7. c = [d \in Hops |-> IF d = 0 THEN s
                          ELSE IF c[d - 1] = None THEN None ELSE par[c[d - 1]]]
  BY <1>6 DEF Line
<1> HIDE DEF c
<1>8. /\ c[0] = s /\ 0 \in Hops
      /\ \A d \in Hops : d # 0 =>
           c[d] = IF c[d - 1] = None THEN None ELSE par[c[d - 1]]
  BY <1>1, <1>7 DEF Hops
<1>9. \A d \in Hops : c[d] \in S \cup {None}
  <2> DEFINE T == {d \in Hops : c[d] \notin S \cup {None}}
  <2> SUFFICES ASSUME T # {} PROVE FALSE
    OBVIOUS
  <2>1. PICK n \in T : \A k \in T : n <= k
    <3>1. T \subseteq Nat
      BY <1>1 DEF Hops
    <3> QED
      BY <3>1, Least
  <2>2. n # 0 /\ n - 1 \in Hops /\ n - 1 \notin T
    BY <1>1, <1>8, <2>1 DEF Hops
  <2>3. c[n - 1] \in S \cup {None}
    BY <2>2
  <2>4. c[n] \in S \cup {None}
    BY <1>8, <2>2, <2>3
  <2> QED
    BY <2>4
<1>10. c \in [Hops -> S \cup {None}]
  BY <1>7, <1>9
<1>11. ASSUME NEW d \in Hops \ {0} PROVE c[d] = Onward(par, S)[c[d - 1]]
  <2>1. c[d - 1] \in S \cup {None}
    BY <1>5, <1>9
  <2> QED
    BY <1>3, <1>8, <2>1
<1> QED
  BY <1>1, <1>8, <1>10, <1>11 DEF c, Iterates, Hops

(* A new session leaves the chains of the others alone.                    *)
LEMMA LineFrame ==
  ASSUME NEW S, NEW S2, S \subseteq S2, S2 \subseteq SessionIds,
         NEW par \in [SessionIds -> S \cup {None}],
         NEW par2 \in [SessionIds -> S2 \cup {None}],
         \A x \in S : par2[x] = par[x],
         NEW s \in S
  PROVE  Line(par2, s) = Line(par, s)
<1> DEFINE N == Cardinality(SessionIds)
           c == Line(par, s)
           e == Line(par2, s)
           g == Onward(par2, S2)
<1>1. N \in Nat
  BY FiniteAssumption, FS_CardinalityType
<1>2. Iterates(c, N, S \cup {None}, Onward(par, S), s)
  BY LineSteps
<1>3. Iterates(e, N, S2 \cup {None}, g, s)
  BY LineSteps
<1>4. \A x \in S \cup {None} : g[x] = Onward(par, S)[x]
  BY RootAssumption DEF Onward
<1> HIDE DEF N, c, e, g
<1>5. Iterates(c, N, S2 \cup {None}, g, s)
  <2>1. \A d \in 1..N : d - 1 \in 0..N
    BY <1>1
  <2> QED
    BY <1>2, <1>4, <2>1 DEF Iterates
<1>6. c = e
  BY <1>1, <1>3, <1>5, IterationUnique
<1> QED
  BY <1>6 DEF c, e

-----------------------------------------------------------------------------
(* The chain of forks.                                                     *)
Ancestors(S) == [session : S \cup {None}, cutoff : Nat]
Itself(s) == [session |-> s, cutoff |-> 0]
NoAncestor == [session |-> None, cutoff |-> 0]
Above(par, frk, a) ==
  IF a.session # None /\ frk[a.session] # 0
  THEN [session |-> par[a.session], cutoff |-> frk[a.session]]
  ELSE NoAncestor
Climb(par, frk, S) == [a \in Ancestors(S) |-> Above(par, frk, a)]
Forks(par, frk, s, n) ==
  CHOOSE c : c = [d \in 0..n |-> IF d = 0 THEN Itself(s)
                                 ELSE Above(par, frk, c[d - 1])]

(* What S, the parents and the fork messages of its sessions are.          *)
Tree(S, par, frk) ==
  /\ S \subseteq SessionIds
  /\ par \in [SessionIds -> S \cup {None}]
  /\ frk \in [SessionIds -> Nat]

(* ForkChain, now and after a step, is what they make of a session.        *)
LEMMA ForkChainIs ==
  ASSUME NEW s, NEW n
  PROVE  /\ ForkChain(s, n) = Forks(parent, fork, s, n)
         /\ ForkChain(s, n)' = Forks(parent', fork', s, n)
BY DEF ForkChain, Forks, Above, NoAncestor, Itself

(* An ancestor's ancestor is one.                                          *)
LEMMA ClimbType ==
  ASSUME NEW S, NEW par, NEW frk, Tree(S, par, frk)
  PROVE  /\ Climb(par, frk, S) \in Endo(Ancestors(S))
         /\ \A a \in Ancestors(S) :
              /\ Climb(par, frk, S)[a] = Above(par, frk, a)
              /\ Above(par, frk, a) \in Ancestors(S)
<1>1. ASSUME NEW a \in Ancestors(S) PROVE Above(par, frk, a) \in Ancestors(S)
  BY DEF Tree, Ancestors, Above, NoAncestor
<1> QED
  BY <1>1 DEF Climb, Endo

(* The chain goes from a fork to what it was forked from.                  *)
LEMMA ForkSteps ==
  ASSUME NEW S, NEW par, NEW frk, Tree(S, par, frk), NEW s \in S, NEW n \in Nat
  PROVE  Iterates(Forks(par, frk, s, n), n, Ancestors(S), Climb(par, frk, S),
                  Itself(s))
<1> DEFINE g == Climb(par, frk, S)
           A == Ancestors(S)
           Next1(x) == Above(par, frk, x)
           c == Forks(par, frk, s, n)
<1>1. /\ g \in Endo(A) /\ Itself(s) \in A
      /\ \A a \in A : g[a] = Next1(a) /\ Next1(a) \in A
  BY ClimbType DEF Ancestors, Itself
<1>2. PICK f : Iterates(f, n, A, g, Itself(s))
  <2> HIDE DEF g, A
  <2> QED
    BY <1>1, IterationExists
<1>3. \A d \in 0..n : d # 0 => d \in 1..n /\ d - 1 \in 0..n
  OBVIOUS
<1>4. f = [d \in 0..n |-> IF d = 0 THEN Itself(s) ELSE Next1(f[d - 1])]
  <2> HIDE DEF g, A, Next1
  <2> QED
    BY <1>1, <1>2, <1>3 DEF Iterates
<1>5. c = [d \in 0..n |-> IF d = 0 THEN Itself(s) ELSE Next1(c[d - 1])]
  BY <1>4 DEF Forks
<1> HIDE DEF c, g, A, Next1
<1>6. c[0] = Itself(s) /\ \A d \in 0..n : d # 0 => c[d] = Next1(c[d - 1])
  BY <1>5
<1>7. \A d \in 0..n : c[d] \in A
  <2> DEFINE T == {d \in 0..n : c[d] \notin A}
  <2> SUFFICES ASSUME T # {} PROVE FALSE
    OBVIOUS
  <2>1. PICK b \in T : \A k \in T : b <= k
    <3>1. T \subseteq Nat
      OBVIOUS
    <3> QED
      BY <3>1, Least
  <2>2. b # 0 /\ b - 1 \in 0..n /\ b - 1 \notin T
    BY <1>1, <1>6, <2>1
  <2> QED
    BY <1>1, <1>6, <2>2
<1>8. c \in [0..n -> A]
  BY <1>5, <1>7
<1>9. \A d \in 1..n : c[d] = g[c[d - 1]]
  BY <1>1, <1>6, <1>7
<1> QED
  BY <1>6, <1>8, <1>9 DEF Iterates, c, g, A

(* The same, step by step.                                                 *)
LEMMA ForkLinks ==
  ASSUME NEW S, NEW par, NEW frk, Tree(S, par, frk), NEW s \in S, NEW n \in Nat
  PROVE  /\ Forks(par, frk, s, n) \in [0..n -> Ancestors(S)]
         /\ Forks(par, frk, s, n)[0] = Itself(s)
         /\ \A d \in 1..n :
              Forks(par, frk, s, n)[d] = Above(par, frk, Forks(par, frk, s, n)[d - 1])
<1> DEFINE c == Forks(par, frk, s, n)
<1>1. Iterates(c, n, Ancestors(S), Climb(par, frk, S), Itself(s))
  BY ForkSteps
<1> HIDE DEF c
<1>2. \A d \in 1..n : c[d - 1] \in Ancestors(S)
  BY <1>1 DEF Iterates
<1>3. \A d \in 1..n : c[d] = Above(par, frk, c[d - 1])
  BY <1>1, <1>2, ClimbType DEF Iterates
<1> QED
  BY <1>1, <1>3 DEF Iterates, c

-----------------------------------------------------------------------------
(* Types and identities.                                                   *)

(* What a stored message, and a marker, are at most: ids and times that    *)
(* have been given out.                                                    *)
Rows == [id : 1..lastID, session : sessions, at : 0..clock]
Marks == [id : Nat \ {0}, at : 0..clock, before : 1..lastID]
Typed ==
  /\ Root \in sessions /\ sessions \subseteq SessionIds
  /\ parent \in [SessionIds -> sessions \cup {None}]
  /\ fork \in [SessionIds -> 0..lastID]
  /\ \A s \in SessionIds : fork[s] # 0 => parent[s] # None
  /\ total \in [SessionIds -> Nat]
  /\ messages \subseteq Rows
  /\ markers \in [SessionIds -> SUBSET Marks]
  /\ lastID \in 0..MaxMessages
  /\ clock \in 0..MaxClock
  /\ writer \in [Writers -> {"idle", "stamp", "insert", "propagate"}]
  /\ row \in [Writers -> Rows \cup {NoRow}]
  /\ compacting \in [Compactors -> sessions \cup {None}]
  /\ loaded \in [Compactors -> SUBSET messages]
  /\ summarised \in [SessionIds -> SUBSET Ids(messages)]
  /\ atFork \in [SessionIds -> SUBSET Ids(messages)]
  /\ late \in [SessionIds -> SUBSET Ids(messages)]

(* The first state has the types.                                          *)
LEMMA TypeInit == Init => Typed
<1> SUFFICES ASSUME Init PROVE Typed
  OBVIOUS
<1> USE RootAssumption, BoundsAssumption DEF Init
<1>1. /\ Root \in sessions /\ sessions \subseteq SessionIds
      /\ parent \in [SessionIds -> sessions \cup {None}]
      /\ fork \in [SessionIds -> 0..lastID]
      /\ \A s \in SessionIds : fork[s] # 0 => parent[s] # None
      /\ total \in [SessionIds -> Nat]
  OBVIOUS
<1>2. /\ messages \subseteq Rows
      /\ markers \in [SessionIds -> SUBSET Marks]
      /\ lastID \in 0..MaxMessages /\ clock \in 0..MaxClock
  OBVIOUS
<1>3. /\ writer \in [Writers -> {"idle", "stamp", "insert", "propagate"}]
      /\ row \in [Writers -> Rows \cup {NoRow}]
  OBVIOUS
<1>4. /\ compacting \in [Compactors -> sessions \cup {None}]
      /\ loaded \in [Compactors -> SUBSET messages]
      /\ summarised \in [SessionIds -> SUBSET Ids(messages)]
      /\ atFork \in [SessionIds -> SUBSET Ids(messages)]
      /\ late \in [SessionIds -> SUBSET Ids(messages)]
  OBVIOUS
<1> QED
  BY <1>1, <1>2, <1>3, <1>4 DEF Typed

(* A new session's parent and fork message are ones there are.             *)
LEMMA TypeCreate ==
  ASSUME Typed, NEW s \in SessionIds \ sessions, NEW p \in sessions,
         NEW m \in 0..lastID, CreateSession(s, p, m),
         atFork' \in [SessionIds -> SUBSET Ids(messages)]
  PROVE  Typed'
<1> USE DEF CreateSession, Typed, clockVars, writeVars, compactVars
<1>1. /\ Root \in sessions' /\ sessions' \subseteq SessionIds
      /\ parent' \in [SessionIds -> sessions' \cup {None}]
      /\ fork' \in [SessionIds -> 0..lastID']
      /\ \A x \in SessionIds : fork'[x] # 0 => parent'[x] # None
      /\ total' \in [SessionIds -> Nat]
  BY RootAssumption
<1>2. Rows \subseteq Rows' /\ NoRow' = NoRow /\ Marks' = Marks
  BY DEF Rows, Marks, NoRow
<1>3. /\ messages' \subseteq Rows' /\ row' \in [Writers -> Rows' \cup {NoRow}]
      /\ markers' \in [SessionIds -> SUBSET Marks']
  BY <1>2
<1>4. /\ compacting' \in [Compactors -> sessions' \cup {None}]
      /\ loaded' \in [Compactors -> SUBSET messages']
      /\ summarised' \in [SessionIds -> SUBSET Ids(messages)']
      /\ atFork' \in [SessionIds -> SUBSET Ids(messages)']
      /\ late' \in [SessionIds -> SUBSET Ids(messages)']
  BY DEF Ids
<1> QED
  BY <1>1, <1>2, <1>3, <1>4

(* Nothing that a statement after the first does touches the sessions.     *)
LEMMA TypeKept ==
  ASSUME Typed, UNCHANGED <<treeVars, atFork>>,
         total' \in [SessionIds -> Nat],
         messages \subseteq messages', messages' \subseteq Rows',
         markers' \in [SessionIds -> SUBSET Marks'],
         lastID <= lastID', lastID' \in 0..MaxMessages, clock' \in 0..MaxClock,
         writer' \in [Writers -> {"idle", "stamp", "insert", "propagate"}],
         row' \in [Writers -> Rows' \cup {NoRow}],
         compacting' \in [Compactors -> sessions \cup {None}],
         loaded' \in [Compactors -> SUBSET messages'],
         summarised' \in [SessionIds -> SUBSET Ids(messages')],
         late' \in [SessionIds -> SUBSET Ids(messages')]
  PROVE  Typed'
<1>1. fork' \in [SessionIds -> 0..lastID']
  <2>1. 0..lastID \subseteq 0..lastID'
    BY BoundsAssumption DEF Typed
  <2> QED
    BY <2>1 DEF Typed, treeVars
<1>2. atFork' \in [SessionIds -> SUBSET Ids(messages')]
  <2>1. Ids(messages) \subseteq Ids(messages')
    BY DEF Ids
  <2> QED
    BY <2>1 DEF Typed
<1>3. /\ Root \in sessions' /\ sessions' \subseteq SessionIds
      /\ parent' \in [SessionIds -> sessions' \cup {None}]
      /\ \A x \in SessionIds : fork'[x] # 0 => parent'[x] # None
      /\ compacting' \in [Compactors -> sessions' \cup {None}]
  BY DEF Typed, treeVars
<1>4. NoRow' = NoRow /\ Ids(messages)' = Ids(messages')
  BY DEF NoRow, Ids
<1> QED
  BY <1>1, <1>2, <1>3, <1>4 DEF Typed

(* Rows and markers stay what they were.                                   *)
LEMMA RowsGrow ==
  ASSUME Typed, UNCHANGED treeVars,
         lastID <= lastID', lastID' \in 0..MaxMessages,
         clock <= clock', clock' \in 0..MaxClock
  PROVE  Rows \subseteq Rows' /\ Marks \subseteq Marks'
<1>1. 1..lastID \subseteq 1..lastID' /\ 0..clock \subseteq 0..clock'
  BY BoundsAssumption DEF Typed
<1> QED
  BY <1>1 DEF Rows, Marks, treeVars

(* A new row has the next id, and is a row.                                *)
LEMMA NewRow ==
  ASSUME Typed, NEW w \in Writers, NEW s \in sessions, NewMessageID(w, s)
  PROVE  /\ row'[w].id = lastID + 1 /\ row'[w].session = s /\ row'[w] \in Rows'
         /\ \A v \in Writers \ {w} : row'[v] = row[v]
         /\ Rows \subseteq Rows' /\ Marks \subseteq Marks'
<1> USE BoundsAssumption DEF NewMessageID, treeVars
<1>1. /\ lastID' = lastID + 1 /\ lastID' \in 0..MaxMessages /\ lastID <= lastID'
      /\ clock' = clock /\ clock <= clock' /\ clock' \in 0..MaxClock
  BY DEF Typed
<1>2. Rows \subseteq Rows' /\ Marks \subseteq Marks'
  BY <1>1, RowsGrow
<1>3. lastID + 1 \in 1..lastID' /\ 0 \in 0..clock' /\ s \in sessions'
  BY <1>1 DEF Typed
<1>4. PICK r : r = NoRow
  OBVIOUS
<1>5. r \in [id : Int, session : sessions' \cup {None}, at : 0..clock']
  BY <1>3, <1>4 DEF NoRow
<1>6. row' = [row EXCEPT ![w] = [r EXCEPT !.id = lastID + 1, !.session = s]]
  BY <1>4
<1>7. row'[w] = [r EXCEPT !.id = lastID + 1, !.session = s]
  BY <1>6 DEF Typed
<1>8. /\ row'[w].id = lastID + 1 /\ row'[w].session = s /\ row'[w] \in Rows'
  <2> DEFINE new == [r EXCEPT !.id = lastID + 1, !.session = s]
  <2>1. new \in Rows'
    BY <1>3, <1>5 DEF Rows
  <2>2. new.id = lastID + 1 /\ new.session = s
    BY <1>5
  <2> QED
    BY <1>7, <2>1, <2>2
<1> QED
  BY <1>2, <1>6, <1>8 DEF Typed

(* A stamped row is the same message.                                      *)
LEMMA StampedRow ==
  ASSUME Typed, NEW w \in Writers, row[w] \in Rows, StampMessage(w)
  PROVE  /\ row'[w].id = row[w].id /\ row'[w].session = row[w].session
         /\ row'[w].at = clock' /\ row'[w] \in Rows'
         /\ \A v \in Writers \ {w} : row'[v] = row[v]
         /\ Rows \subseteq Rows' /\ Marks \subseteq Marks'
         /\ clock <= clock' /\ clock' \in 0..MaxClock
<1> USE BoundsAssumption DEF StampMessage, treeVars
<1>1. clock' \in 0..MaxClock /\ clock <= clock' /\ lastID' = lastID /\ clock' \in Nat
  BY DEF ReadsClock, Typed
<1>2. Rows \subseteq Rows' /\ Marks \subseteq Marks'
  BY <1>1, RowsGrow DEF Typed
<1>3. row[w] \in Rows' /\ clock' \in 0..clock'
  BY <1>1, <1>2
<1>4. row'[w] = [row[w] EXCEPT !.at = clock']
  BY DEF Typed
<1>5. /\ row'[w].id = row[w].id /\ row'[w].session = row[w].session
      /\ row'[w].at = clock' /\ row'[w] \in Rows'
  BY <1>3, <1>4 DEF Rows
<1> QED
  BY <1>1, <1>2, <1>5 DEF Typed

(* What the latest row of a set of some is, when there is a latest.        *)
LEMMA LatestIn ==
  ASSUME NEW M, NEW m \in M, \A n \in M \ {m} : Before(n, m),
         \A n \in M : n.id \in Int /\ n.at \in Int
  PROVE  Latest(M) = m
<1>1. \A n \in M : (\A o \in M \ {n} : Before(o, n)) => n = m
  BY DEF Before
<1> QED
  BY <1>1 DEF Latest

(* There is one when the ids and the times are bounded and no id is there  *)
(* twice.                                                                  *)
LEMMA LatestExists ==
  ASSUME NEW M, M # {}, NEW B \in Nat, NEW C \in Nat,
         \A m \in M : m.id \in 0..B /\ m.at \in 0..C,
         \A m, n \in M : m.id = n.id => m = n
  PROVE  /\ Latest(M) \in M
         /\ \A n \in M \ {Latest(M)} : Before(n, Latest(M))
<1> DEFINE T == {C - m.at : m \in M}
<1>1. PICK t \in T : \A k \in T : t <= k
  <2>1. T \subseteq Nat /\ T # {}
    OBVIOUS
  <2> HIDE DEF T
  <2> QED
    BY <2>1, Least
<1> DEFINE newest == {m \in M : C - m.at = t}
           U == {B - m.id : m \in newest}
<1>2. PICK u \in U : \A k \in U : u <= k
  <2>1. U \subseteq Nat /\ U # {}
    OBVIOUS
  <2> HIDE DEF U
  <2> QED
    BY <2>1, Least
<1>3. PICK m \in newest : u = B - m.id
  OBVIOUS
<1>4. ASSUME NEW n \in M \ {m} PROVE Before(n, m)
  <2>1. /\ t <= C - n.at /\ t = C - m.at /\ n.id # m.id
        /\ n.at \in Int /\ m.at \in Int /\ n.id \in Int /\ m.id \in Int
    BY <1>1, <1>3
  <2>2. CASE C - n.at = t
    <3>1. B - m.id <= B - n.id
      BY <1>2, <1>3, <2>2
    <3> QED
      BY <2>1, <2>2, <3>1 DEF Before
  <2>3. CASE C - n.at # t
    BY <2>1, <2>3 DEF Before
  <2> QED
    BY <2>2, <2>3
<1>5. Latest(M) = m
  <2>1. m \in M /\ \A n \in M : n.id \in Int /\ n.at \in Int
    BY <1>3
  <2> QED
    BY <1>4, <2>1, LatestIn
<1> QED
  BY <1>3, <1>4, <1>5

(* Ids are given once, and a row in hand is in the table from its insert   *)
(* on and not before.                                                      *)
RowInv ==
  /\ \A m, n \in messages : m.id = n.id => m = n
  /\ \A w \in Writers : writer[w] # "idle" => row[w] \in Rows
  /\ \A v, w \in Writers :
       writer[v] # "idle" /\ writer[w] # "idle" /\ row[v].id = row[w].id => v = w
  /\ \A w \in Writers :
       writer[w] \in {"stamp", "insert"} => row[w].id \notin Ids(messages)
  /\ \A w \in Writers : writer[w] = "propagate" => row[w] \in messages

(* There is something to summarise, and a number of markers to count.      *)
LoadInv ==
  /\ \A k \in Compactors : compacting[k] # None => loaded[k] # {}
  /\ \A s \in SessionIds : IsFiniteSet(markers[s])

IdsInv == RowInv /\ LoadInv

(* The latest message a compactor has loaded is one of them.               *)
LEMMA LatestLoaded ==
  ASSUME Typed, IdsInv, NEW k \in Compactors, compacting[k] # None
  PROVE  /\ Latest(loaded[k]) \in loaded[k]
         /\ \A n \in loaded[k] \ {Latest(loaded[k])} : Before(n, Latest(loaded[k]))
<1> DEFINE M == loaded[k]
<1>1. M # {} /\ M \subseteq messages
  BY DEF Typed, IdsInv, LoadInv
<1>2. \A m \in M : m.id \in 0..lastID /\ m.at \in 0..clock
  BY <1>1 DEF Typed, Rows
<1>3. \A m, n \in M : m.id = n.id => m = n
  BY <1>1 DEF IdsInv, RowInv
<1>4. lastID \in Nat /\ clock \in Nat
  BY BoundsAssumption DEF Typed
<1> HIDE DEF M
<1>5. Latest(M) \in M /\ \A n \in M \ {Latest(M)} : Before(n, Latest(M))
  BY <1>1, <1>2, <1>3, <1>4, LatestExists
<1> QED
  BY <1>5 DEF M

(* Every step keeps the types.                                             *)
LEMMA TypeStep == Typed /\ IdsInv /\ [Next]_vars => Typed'
<1> SUFFICES ASSUME Typed, IdsInv, [Next]_vars PROVE Typed'
  OBVIOUS
<1> USE BoundsAssumption
<1>0. lastID \in Nat /\ clock \in Nat /\ lastID <= lastID /\ clock <= clock
  BY DEF Typed
<1>1. CASE UNCHANGED vars
  <2> USE <1>1 DEF vars, treeVars, clockVars, writeVars, compactVars, historyVars
  <2>1. Rows' = Rows /\ Marks' = Marks /\ NoRow' = NoRow /\ Ids(messages)' = Ids(messages)
    BY DEF Rows, Marks, NoRow, Ids
  <2> QED
    BY <2>1 DEF Typed
<1>2. ASSUME NEW s \in SessionIds \ sessions, NEW p \in sessions,
             CreateSubagentSession(s, p)
      PROVE  Typed'
  <2>1. 0 \in 0..lastID /\ atFork' \in [SessionIds -> SUBSET Ids(messages)]
    BY <1>0, <1>2 DEF CreateSubagentSession, Typed
  <2> QED
    BY <1>2, <2>1, TypeCreate DEF CreateSubagentSession
<1>3. ASSUME NEW s \in SessionIds \ sessions, NEW p \in sessions,
             NEW m \in messages, ForkSession(s, p, m)
      PROVE  Typed'
  <2>1. m.id \in 0..lastID
    BY <1>0 DEF Typed, Rows
  <2>2. VisibleWithin(p, Cardinality(SessionIds)) \subseteq messages
    BY DEF VisibleWithin
  <2>3. atFork' \in [SessionIds -> SUBSET Ids(messages)]
    BY <1>3, <2>2 DEF ForkSession, Typed, Ids
  <2> QED
    BY <1>3, <2>1, <2>3, TypeCreate DEF ForkSession
<1>4. ASSUME NEW w \in Writers, NEW s \in sessions, NewMessageID(w, s)
      PROVE  Typed'
  <2> USE <1>4 DEF NewMessageID, treeVars, compactVars, historyVars
  <2>1. lastID' \in 0..MaxMessages /\ lastID <= lastID' /\ clock' = clock
    BY <1>0
  <2>2. Rows \subseteq Rows' /\ Marks \subseteq Marks'
    BY <1>4, NewRow
  <2>4. NoRow' = NoRow
    BY DEF NoRow
  <2>5. row' \in [Writers -> Rows' \cup {NoRow}]
    BY <1>4, <2>2, <2>4, NewRow DEF Typed
  <2>6. /\ total' \in [SessionIds -> Nat]
        /\ messages \subseteq messages' /\ messages' \subseteq Rows'
        /\ markers' \in [SessionIds -> SUBSET Marks'] /\ clock' \in 0..MaxClock
        /\ writer' \in [Writers -> {"idle", "stamp", "insert", "propagate"}]
    BY <2>2 DEF Typed
  <2>7. /\ compacting' \in [Compactors -> sessions \cup {None}]
        /\ loaded' \in [Compactors -> SUBSET messages']
        /\ summarised' \in [SessionIds -> SUBSET Ids(messages')]
        /\ late' \in [SessionIds -> SUBSET Ids(messages')]
        /\ UNCHANGED <<treeVars, atFork>>
    BY DEF Typed
  <2> QED
    BY <2>1, <2>4, <2>5, <2>6, <2>7, TypeKept
<1>5. ASSUME NEW w \in Writers, StampMessage(w)
      PROVE  Typed'
  <2> USE <1>5 DEF StampMessage, treeVars, compactVars, historyVars
  <2>1. clock' \in 0..MaxClock /\ clock <= clock' /\ lastID' = lastID /\ clock' \in Nat
    BY <1>0 DEF ReadsClock, Typed
  <2>2. Rows \subseteq Rows' /\ Marks \subseteq Marks' /\ row'[w] \in Rows'
    BY <1>5, StampedRow DEF IdsInv, RowInv, StampMessage
  <2>5. row' \in [Writers -> Rows' \cup {NoRow}] /\ NoRow' = NoRow
    BY <2>2 DEF Typed, NoRow
  <2>6. /\ total' \in [SessionIds -> Nat]
        /\ messages \subseteq messages' /\ messages' \subseteq Rows'
        /\ markers' \in [SessionIds -> SUBSET Marks']
        /\ lastID' \in 0..MaxMessages /\ lastID <= lastID'
        /\ writer' \in [Writers -> {"idle", "stamp", "insert", "propagate"}]
    BY <1>0, <2>2 DEF Typed
  <2>7. /\ compacting' \in [Compactors -> sessions \cup {None}]
        /\ loaded' \in [Compactors -> SUBSET messages']
        /\ summarised' \in [SessionIds -> SUBSET Ids(messages')]
        /\ late' \in [SessionIds -> SUBSET Ids(messages')]
        /\ UNCHANGED <<treeVars, atFork>>
    BY DEF Typed
  <2> QED
    BY <2>1, <2>5, <2>6, <2>7, TypeKept
<1> DEFINE Still == UNCHANGED <<treeVars, clockVars, atFork>>
<1>6. ASSUME Still PROVE Rows' = Rows /\ Marks' = Marks /\ NoRow' = NoRow
  BY <1>6 DEF treeVars, clockVars, Rows, Marks, NoRow
<1>7. ASSUME NEW w \in Writers, InsertMessage(w)
      PROVE  Typed'
  <2> USE <1>7 DEF InsertMessage, treeVars, clockVars, compactVars, historyVars
  <2>1. Rows' = Rows /\ Marks' = Marks /\ NoRow' = NoRow
    BY <1>6
  <2>2. row[w] \in Rows
    BY DEF IdsInv, RowInv
  <2>3. messages \subseteq messages' /\ messages' \subseteq Rows
    BY <2>2 DEF Typed
  <2>4. /\ writer' \in [Writers -> {"idle", "stamp", "insert", "propagate"}]
        /\ row' \in [Writers -> Rows \cup {NoRow}]
    BY DEF Typed
  <2>5. Ids(messages) \subseteq Ids(messages')
    BY <2>3 DEF Ids
  <2>6. /\ loaded' \in [Compactors -> SUBSET messages']
        /\ summarised' \in [SessionIds -> SUBSET Ids(messages')]
    BY <2>3, <2>5 DEF Typed
  <2>8. late' \in [SessionIds -> SUBSET Ids(messages')]
    <3>1. CASE messages' = messages \cup {row[w]}
      <4>1. row[w].id \in Ids(messages')
        BY <3>1 DEF Ids
      <4>2. \/ late' = late
            \/ late' = [s \in SessionIds |->
                 IF ArrivesLate(row[w], s) THEN late[s] \cup {row[w].id} ELSE late[s]]
        OBVIOUS
      <4> QED
        BY <2>5, <4>1, <4>2 DEF Typed
    <3>2. CASE late' = late
      BY <2>5, <3>2 DEF Typed
    <3> QED
      BY <3>1, <3>2
  <2>7. /\ total' \in [SessionIds -> Nat]
        /\ markers' \in [SessionIds -> SUBSET Marks']
        /\ compacting' \in [Compactors -> sessions \cup {None}]
        /\ lastID' \in 0..MaxMessages /\ clock' \in 0..MaxClock /\ lastID <= lastID'
        /\ UNCHANGED <<treeVars, atFork>>
    BY <1>0, <2>1 DEF Typed
  <2> QED
    BY <2>1, <2>3, <2>4, <2>6, <2>7, <2>8, TypeKept
<1>8. ASSUME NEW w \in Writers, RecordUsage(w)
      PROVE  Typed'
  <2> USE <1>8 DEF RecordUsage, treeVars, clockVars, compactVars, historyVars
  <2>1. Rows' = Rows /\ Marks' = Marks /\ NoRow' = NoRow
    BY <1>6
  <2>2. total' \in [SessionIds -> Nat]
    BY DEF Charge, Charged, UpdateSessionTotals, Typed
  <2>3. /\ writer' \in [Writers -> {"idle", "stamp", "insert", "propagate"}]
        /\ row' \in [Writers -> Rows' \cup {NoRow}]
    BY <2>1 DEF Typed
  <2>4. /\ messages \subseteq messages' /\ messages' \subseteq Rows'
        /\ markers' \in [SessionIds -> SUBSET Marks']
        /\ lastID' \in 0..MaxMessages /\ clock' \in 0..MaxClock /\ lastID <= lastID'
    BY <1>0, <2>1 DEF Typed
  <2>5. /\ compacting' \in [Compactors -> sessions \cup {None}]
        /\ loaded' \in [Compactors -> SUBSET messages']
        /\ summarised' \in [SessionIds -> SUBSET Ids(messages')]
        /\ late' \in [SessionIds -> SUBSET Ids(messages')]
        /\ UNCHANGED <<treeVars, atFork>>
    BY DEF Typed
  <2> QED
    BY <2>2, <2>3, <2>4, <2>5, TypeKept
<1>9. ASSUME NEW k \in Compactors, UNCHANGED <<treeVars, total, messages, clockVars,
                                               writeVars, historyVars, markers>>,
             compacting' \in [Compactors -> sessions \cup {None}],
             loaded' \in [Compactors -> SUBSET messages]
      PROVE  Typed'
  <2> USE <1>9 DEF treeVars, clockVars, writeVars, historyVars
  <2>1. Rows' = Rows /\ Marks' = Marks /\ NoRow' = NoRow
    BY <1>6
  <2>2. /\ total' \in [SessionIds -> Nat]
        /\ messages \subseteq messages' /\ messages' \subseteq Rows'
        /\ markers' \in [SessionIds -> SUBSET Marks']
        /\ lastID' \in 0..MaxMessages /\ clock' \in 0..MaxClock /\ lastID <= lastID'
    BY <1>0, <2>1 DEF Typed
  <2>3. /\ writer' \in [Writers -> {"idle", "stamp", "insert", "propagate"}]
        /\ row' \in [Writers -> Rows' \cup {NoRow}]
        /\ loaded' \in [Compactors -> SUBSET messages']
        /\ summarised' \in [SessionIds -> SUBSET Ids(messages')]
        /\ late' \in [SessionIds -> SUBSET Ids(messages')]
        /\ UNCHANGED <<treeVars, atFork>>
    BY <2>1 DEF Typed
  <2> QED
    BY <2>2, <2>3, TypeKept
<1>10. ASSUME NEW k \in Compactors, NEW s \in sessions, CompactLoads(k, s)
       PROVE  Typed'
  <2>1. MessagesSinceLatestMarker(s) \subseteq messages
    BY DEF MessagesSinceLatestMarker, MessagesForSession, VisibleWithin
  <2>2. /\ compacting' \in [Compactors -> sessions \cup {None}]
        /\ loaded' \in [Compactors -> SUBSET messages]
    BY <1>10, <2>1 DEF CompactLoads, Typed
  <2> QED
    BY <1>9, <1>10, <2>2 DEF CompactLoads
<1>11. ASSUME NEW k \in Compactors, CompactFails(k)
       PROVE  Typed'
  <2>1. /\ compacting' \in [Compactors -> sessions \cup {None}]
        /\ loaded' \in [Compactors -> SUBSET messages]
    BY <1>11 DEF CompactFails, CompactReturns, Typed
  <2> QED
    BY <1>9, <1>11, <2>1 DEF CompactFails
<1>12. ASSUME NEW k \in Compactors, AddCompactionMarker(k)
       PROVE  Typed'
  <2> USE <1>12 DEF AddCompactionMarker, CompactReturns, treeVars, writeVars
  <2>1. clock' \in 0..MaxClock /\ clock <= clock' /\ lastID' = lastID /\ clock' \in Nat
    BY <1>0 DEF ReadsClock, Typed
  <2>2. Rows \subseteq Rows' /\ Marks \subseteq Marks' /\ NoRow' = NoRow
    BY <1>0, <2>1, RowsGrow DEF Typed, NoRow
  <2> DEFINE s == compacting[k]
             new == [id |-> Cardinality(markers[s]) + 1, at |-> clock',
                     before |-> BeforeMessageID(k)]
  <2>3. BeforeMessageID(k) \in 1..lastID'
    BY <2>1, LatestLoaded DEF BeforeMessageID, Typed, Rows
  <2>4. s \in SessionIds /\ Cardinality(markers[s]) \in Nat
    BY FS_CardinalityType DEF IdsInv, LoadInv, Typed
  <2>5. new \in Marks'
    BY <2>1, <2>3, <2>4 DEF Marks
  <2>6. markers' = [markers EXCEPT ![s] = @ \cup {new}]
    OBVIOUS
  <2> HIDE DEF new
  <2>7. markers' \in [SessionIds -> SUBSET Marks']
    BY <2>2, <2>5, <2>6 DEF Typed
  <2>8. summarised' \in [SessionIds -> SUBSET Ids(messages')]
    <3>1. Ids(loaded[k]) \subseteq Ids(messages)
      BY DEF Typed, Ids
    <3>2. summarised' = [summarised EXCEPT ![s] = @ \cup Ids(loaded[k])]
      OBVIOUS
    <3> HIDE DEF s
    <3> QED
      BY <2>4, <3>1, <3>2 DEF Typed
  <2>9. /\ total' \in [SessionIds -> Nat]
        /\ messages \subseteq messages' /\ messages' \subseteq Rows'
        /\ lastID <= lastID' /\ lastID' \in 0..MaxMessages
        /\ writer' \in [Writers -> {"idle", "stamp", "insert", "propagate"}]
        /\ row' \in [Writers -> Rows' \cup {NoRow}]
    BY <1>0, <2>1, <2>2 DEF Typed
  <2>10. /\ compacting' \in [Compactors -> sessions \cup {None}]
         /\ loaded' \in [Compactors -> SUBSET messages']
         /\ late' \in [SessionIds -> SUBSET Ids(messages')]
         /\ UNCHANGED <<treeVars, atFork>>
    BY DEF Typed
  <2> QED
    BY <2>1, <2>2, <2>7, <2>8, <2>9, <2>10, TypeKept
<1>13. ASSUME Crash PROVE Typed'
  <2> USE <1>13 DEF Crash, treeVars, clockVars, historyVars
  <2>1. Rows' = Rows /\ Marks' = Marks /\ NoRow' = NoRow
    BY <1>6
  <2>2. /\ total' \in [SessionIds -> Nat]
        /\ messages \subseteq messages' /\ messages' \subseteq Rows'
        /\ markers' \in [SessionIds -> SUBSET Marks']
        /\ lastID' \in 0..MaxMessages /\ clock' \in 0..MaxClock /\ lastID <= lastID'
    BY <1>0, <2>1 DEF Typed
  <2>3. /\ writer' \in [Writers -> {"idle", "stamp", "insert", "propagate"}]
        /\ row' \in [Writers -> Rows' \cup {NoRow}]
        /\ compacting' \in [Compactors -> sessions \cup {None}]
        /\ loaded' \in [Compactors -> SUBSET messages']
        /\ summarised' \in [SessionIds -> SUBSET Ids(messages')]
        /\ late' \in [SessionIds -> SUBSET Ids(messages')]
        /\ UNCHANGED <<treeVars, atFork>>
    BY <2>1 DEF Typed
  <2> QED
    BY <2>2, <2>3, TypeKept
<1> QED
  BY <1>1, <1>2, <1>3, <1>4, <1>5, <1>7, <1>8, <1>10, <1>11, <1>12, <1>13 DEF Next

(* Appending and accounting keep the rows apart.                           *)
LEMMA RowStep == Typed /\ RowInv /\ [Next]_vars => RowInv'
<1> SUFFICES ASSUME Typed, RowInv, [Next]_vars PROVE RowInv'
  OBVIOUS
<1>1. ASSUME UNCHANGED <<messages, writer, row>>, Rows \subseteq Rows'
      PROVE  RowInv'
  BY <1>1 DEF RowInv, Ids
<1>2. ASSUME UNCHANGED <<messages, writer, row, sessions, lastID, clock>>
      PROVE  RowInv'
  <2>1. Rows' = Rows
    BY <1>2 DEF Rows
  <2> QED
    BY <1>1, <1>2, <2>1
<1>3. CASE UNCHANGED vars
  BY <1>2, <1>3 DEF vars, treeVars, clockVars, writeVars
<1>4. ASSUME NEW s \in SessionIds \ sessions, NEW p \in sessions, NEW m,
             CreateSession(s, p, m)
      PROVE  RowInv'
  <2>1. Rows \subseteq Rows'
    BY <1>4 DEF CreateSession, Rows, clockVars
  <2> QED
    BY <1>1, <1>4, <2>1 DEF CreateSession, clockVars, writeVars
<1>5. ASSUME NEW w \in Writers, NEW s \in sessions, NewMessageID(w, s)
      PROVE  RowInv'
  <2>1. /\ row'[w].id = lastID + 1 /\ row'[w] \in Rows'
        /\ \A v \in Writers \ {w} : row'[v] = row[v]
        /\ Rows \subseteq Rows'
    BY <1>5, NewRow
  <2>2. /\ writer'[w] = "stamp" /\ messages' = messages /\ lastID \in Nat
        /\ \A v \in Writers \ {w} : writer'[v] = writer[v]
    BY <1>5, BoundsAssumption DEF NewMessageID, Typed
  <2>3. \A m \in Rows : m.id # lastID + 1
    BY <2>2 DEF Rows
  <2>4. \A m \in messages : m.id # lastID + 1
    BY <2>3 DEF Typed
  <2> QED
    BY <2>1, <2>2, <2>3, <2>4 DEF RowInv, Ids
<1>6. ASSUME NEW w \in Writers, StampMessage(w)
      PROVE  RowInv'
  <2>1. /\ row'[w].id = row[w].id /\ row'[w] \in Rows'
        /\ \A v \in Writers \ {w} : row'[v] = row[v]
        /\ Rows \subseteq Rows'
    BY <1>6, StampedRow DEF StampMessage, RowInv
  <2>2. /\ writer[w] = "stamp" /\ writer'[w] = "insert" /\ messages' = messages
        /\ \A v \in Writers \ {w} : writer'[v] = writer[v]
    BY <1>6 DEF StampMessage, Typed
  <2> QED
    BY <2>1, <2>2 DEF RowInv, Ids
<1> DEFINE Same == UNCHANGED <<treeVars, clockVars>>
<1>7. ASSUME Same PROVE Rows' = Rows
  BY <1>7 DEF treeVars, clockVars, Rows
<1>8. ASSUME NEW w \in Writers, InsertMessage(w)
      PROVE  RowInv'
  <2>1. Rows' = Rows
    BY <1>7, <1>8 DEF InsertMessage
  <2>2. /\ writer[w] = "insert" /\ row[w] \in Rows
        /\ \A v \in Writers \ {w} : writer'[v] = writer[v] /\ row'[v] = row[v]
    BY <1>8 DEF InsertMessage, Typed, RowInv
  <2>3. CASE /\ messages' = messages \cup {row[w]}
             /\ writer' = [writer EXCEPT ![w] = "propagate"]
             /\ UNCHANGED row
    <3>1. writer'[w] = "propagate" /\ row'[w] = row[w]
      BY <2>3 DEF Typed
    <3>2. \A m \in messages : m.id # row[w].id
      BY <2>2 DEF RowInv, Ids
    <3> QED
      BY <2>1, <2>2, <2>3, <3>1, <3>2 DEF RowInv, Ids
  <2>4. CASE messages' = messages /\ writer' = [writer EXCEPT ![w] = "idle"]
    <3>1. writer'[w] = "idle"
      BY <2>4 DEF Typed
    <3> QED
      BY <2>1, <2>2, <2>4, <3>1 DEF RowInv, Ids
  <2> QED
    BY <1>8, <2>3, <2>4 DEF InsertMessage
<1>9. ASSUME NEW w \in Writers, RecordUsage(w)
      PROVE  RowInv'
  <2>1. Rows' = Rows
    BY <1>7, <1>9 DEF RecordUsage
  <2>2. /\ messages' = messages /\ writer'[w] = "idle"
        /\ \A v \in Writers \ {w} : writer'[v] = writer[v] /\ row'[v] = row[v]
    BY <1>9 DEF RecordUsage, Typed
  <2> QED
    BY <2>1, <2>2 DEF RowInv, Ids
<1>10. ASSUME NEW k \in Compactors, AddCompactionMarker(k)
       PROVE  RowInv'
  <2>1. clock' \in 0..MaxClock /\ clock <= clock' /\ lastID' = lastID
    BY <1>10, BoundsAssumption DEF AddCompactionMarker, ReadsClock, Typed
  <2>2. lastID <= lastID' /\ lastID' \in 0..MaxMessages
    BY <2>1, BoundsAssumption DEF Typed
  <2>3. Rows \subseteq Rows'
    BY <1>10, <2>1, <2>2, RowsGrow DEF AddCompactionMarker
  <2> QED
    BY <1>1, <1>10, <2>3 DEF AddCompactionMarker, writeVars
<1>11. CASE Crash
  <2>1. \A w \in Writers : writer'[w] = "idle"
    BY <1>11 DEF Crash
  <2> QED
    BY <1>11, <2>1 DEF Crash, RowInv
<1>12. ASSUME NEW k \in Compactors, NEW s \in sessions, CompactLoads(k, s)
       PROVE  RowInv'
  BY <1>2, <1>12 DEF CompactLoads, treeVars, clockVars, writeVars
<1>13. ASSUME NEW k \in Compactors, CompactFails(k)
       PROVE  RowInv'
  BY <1>2, <1>13 DEF CompactFails, treeVars, clockVars, writeVars
<1>14. ASSUME NEW s \in SessionIds \ sessions, NEW p \in sessions,
              \/ CreateSubagentSession(s, p)
              \/ \E m \in messages : ForkSession(s, p, m)
       PROVE  RowInv'
  BY <1>4, <1>14 DEF CreateSubagentSession, ForkSession
<1> QED
  BY <1>3, <1>5, <1>6, <1>8, <1>9, <1>10, <1>11, <1>12, <1>13, <1>14 DEF Next

(* Only what there is to summarise is loaded; markers are added singly.    *)
LEMMA LoadStep == Typed /\ LoadInv /\ [Next]_vars => LoadInv'
<1> SUFFICES ASSUME Typed, LoadInv, [Next]_vars PROVE LoadInv'
  OBVIOUS
<1>1. ASSUME UNCHANGED <<compactVars, markers>> PROVE LoadInv'
  BY <1>1 DEF LoadInv, compactVars
<1>2. CASE UNCHANGED vars
  BY <1>1, <1>2 DEF vars
<1>3. ASSUME NEW s \in SessionIds \ sessions, NEW p \in sessions,
             \/ CreateSubagentSession(s, p)
             \/ \E m \in messages : ForkSession(s, p, m)
      PROVE  LoadInv'
  BY <1>1, <1>3 DEF CreateSubagentSession, ForkSession, CreateSession
<1>4. ASSUME NEW w \in Writers,
             \/ \E s \in sessions : NewMessageID(w, s)
             \/ StampMessage(w) \/ InsertMessage(w) \/ RecordUsage(w)
      PROVE  LoadInv'
  BY <1>1, <1>4 DEF NewMessageID, StampMessage, InsertMessage, RecordUsage
<1>5. ASSUME NEW k \in Compactors, NEW s \in sessions, CompactLoads(k, s)
      PROVE  LoadInv'
  <2>1. MessagesSinceLatestMarker(s) # {}
    BY <1>5, DepthAssumption, FS_EmptySet DEF CompactLoads
  <2> QED
    BY <1>5, <2>1 DEF CompactLoads, LoadInv, Typed
<1>6. ASSUME NEW k \in Compactors, CompactReturns(k)
      PROVE  \A j \in Compactors : compacting'[j] # None => loaded'[j] # {}
  BY <1>6 DEF CompactReturns, LoadInv, Typed
<1>7. ASSUME NEW k \in Compactors, AddCompactionMarker(k)
      PROVE  LoadInv'
  <2>1. PICK x : markers' = [markers EXCEPT ![compacting[k]] = @ \cup {x}]
    BY <1>7 DEF AddCompactionMarker
  <2>2. \A s \in SessionIds : IsFiniteSet(markers'[s])
    <3> SUFFICES ASSUME NEW s \in SessionIds PROVE IsFiniteSet(markers'[s])
      OBVIOUS
    <3>1. markers'[s] = markers[s] \/ markers'[s] = markers[s] \cup {x}
      BY <2>1 DEF Typed
    <3>2. IsFiniteSet(markers[s])
      BY DEF LoadInv
    <3> QED
      BY <3>1, <3>2, FS_AddElement
  <2> QED
    BY <1>6, <1>7, <2>2 DEF AddCompactionMarker, LoadInv
<1>8. ASSUME NEW k \in Compactors, CompactFails(k)
      PROVE  LoadInv'
  BY <1>6, <1>8 DEF CompactFails, LoadInv
<1>9. CASE Crash
  BY <1>9 DEF Crash, LoadInv
<1> QED
  BY <1>2, <1>3, <1>4, <1>5, <1>7, <1>8, <1>9 DEF Next

-----------------------------------------------------------------------------
(* Markers.                                                                *)

(* A cursor is a stored message or the beginning; marker ids count up; a   *)
(* compactor has the lock of its session alone, and what it has loaded is  *)
(* after the cursor.                                                       *)
CursorInv ==
  /\ \A s \in SessionIds : Cursor(s) \in Ids(messages) \cup {0}
  /\ \A s \in SessionIds : \A x \in markers[s] : x.id <= Cardinality(markers[s])
  /\ \A k \in Compactors : compacting[k] # None =>
       \A m \in loaded[k] : m.id > Cursor(compacting[k])
  /\ \A j, k \in Compactors :
       compacting[j] # None /\ compacting[j] = compacting[k] => j = k
  /\ \A s \in SessionIds \ sessions : markers[s] = {} /\ summarised[s] = {}

(* A cursor is a number.                                                   *)
LEMMA CursorType ==
  ASSUME Typed, CursorInv, NEW s \in SessionIds
  PROVE  Cursor(s) \in 0..lastID
<1>1. \A m \in messages : m.id \in 0..lastID
  BY DEF Typed, Rows
<1>2. 0 \in 0..lastID
  BY BoundsAssumption DEF Typed
<1> QED
  BY <1>1, <1>2 DEF CursorInv, Ids

(* The new marker is the latest of its session: it is as late as any, and  *)
(* its id is the greatest.  The cursor moves forward.                      *)
LEMMA CursorMoves ==
  ASSUME Typed, IdsInv, CursorInv, NEW k \in Compactors, AddCompactionMarker(k),
         NEW s \in SessionIds, s = compacting[k]
  PROVE  /\ s \in sessions
         /\ Cursor(s)' = Latest(loaded[k]).id
         /\ Latest(loaded[k]) \in loaded[k] /\ Cursor(s) < Latest(loaded[k]).id
         /\ \A t \in SessionIds \ {s} : Cursor(t)' = Cursor(t)
         /\ \A t \in SessionIds : \A x \in markers'[t] : x.id <= Cardinality(markers'[t])
<1> DEFINE M == markers[s]
           new == [id |-> Cardinality(M) + 1, at |-> clock',
                   before |-> Latest(loaded[k]).id]
<1>1. s \in sessions /\ s # None
  BY DEF AddCompactionMarker, Typed
<1>2. /\ markers'[s] = M \cup {new}
      /\ \A t \in SessionIds \ {s} : markers'[t] = markers[t]
  BY <1>1 DEF AddCompactionMarker, BeforeMessageID, Typed
<1>3. clock \in Nat /\ clock' \in Nat /\ clock <= clock'
  BY BoundsAssumption DEF Typed, AddCompactionMarker, ReadsClock
<1>4. /\ IsFiniteSet(M) /\ Cardinality(M) \in Nat
      /\ \A x \in M : x.id \in Nat /\ x.at \in Nat /\ x.at <= clock
                      /\ x.id <= Cardinality(M)
  <2>1. IsFiniteSet(M) /\ Cardinality(M) \in Nat
    BY <1>1, FS_CardinalityType DEF IdsInv, LoadInv
  <2>2. M \subseteq Marks /\ \A x \in M : x.id <= Cardinality(M)
    BY <1>1 DEF Typed, CursorInv
  <2> HIDE DEF M
  <2> QED
    BY <1>3, <2>1, <2>2 DEF Marks, Typed
<1> HIDE DEF M
<1>5. new.id = Cardinality(M) + 1 /\ new.at = clock' /\ new.before = Latest(loaded[k]).id
  OBVIOUS
<1> HIDE DEF new
<1>6. new \notin M /\ \A x \in M : Before(x, new)
  BY <1>3, <1>4, <1>5 DEF Before
<1>7. Latest(M \cup {new}) = new
  <2>1. \A x \in (M \cup {new}) \ {new} : Before(x, new)
    BY <1>6
  <2>2. \A x \in M \cup {new} : x.id \in Int /\ x.at \in Int
    BY <1>3, <1>4, <1>5
  <2> HIDE DEF new
  <2> QED
    BY <2>1, <2>2, LatestIn
<1>8. \A t \in SessionIds :
        Cursor(t)' = IF markers'[t] = {} THEN 0 ELSE Latest(markers'[t]).before
  BY DEF Cursor, Latest, Before
<1>9. Cursor(s)' = Latest(loaded[k]).id
  BY <1>2, <1>5, <1>7, <1>8
<1>10. Latest(loaded[k]) \in loaded[k] /\ Cursor(s) < Latest(loaded[k]).id
  <2>1. Latest(loaded[k]) \in loaded[k]
    BY <1>1, LatestLoaded
  <2>2. loaded[k] \subseteq messages /\ \A m \in messages : m.id \in Int
    BY DEF Typed, Rows
  <2> QED
    BY <1>1, <2>1, <2>2, CursorType DEF CursorInv
<1>11. \A t \in SessionIds \ {s} : Cursor(t)' = Cursor(t)
  BY <1>2, <1>8 DEF Cursor
<1>12. ASSUME NEW t \in SessionIds, NEW x \in markers'[t]
       PROVE  x.id <= Cardinality(markers'[t])
  <2>1. CASE t = s
    <3>1. Cardinality(M \cup {new}) = Cardinality(M) + 1
      BY <1>4, <1>6, FS_AddElement
    <3>2. x \in M \cup {new}
      BY <1>2, <2>1
    <3>3. x.id <= Cardinality(M) + 1
      BY <1>4, <1>5, <3>2
    <3> QED
      BY <1>2, <2>1, <3>1, <3>3
  <2>2. CASE t # s
    BY <1>2, <2>2 DEF CursorInv
  <2> QED
    BY <2>1, <2>2
<1> QED
  BY <1>1, <1>9, <1>10, <1>11, <1>12

(* Nobody else moves a marker, takes a lock that is held or loads what is  *)
(* behind the cursor.                                                      *)
LEMMA CursorStep == Typed /\ IdsInv /\ CursorInv /\ [Next]_vars => CursorInv'
<1> SUFFICES ASSUME Typed, IdsInv, CursorInv, [Next]_vars PROVE CursorInv'
  OBVIOUS
<1>1. ASSUME UNCHANGED markers, NEW s PROVE Cursor(s)' = Cursor(s)
  BY <1>1 DEF Cursor, Latest, Before
<1>2. ASSUME UNCHANGED <<markers, compacting, loaded, summarised>>,
             sessions \subseteq sessions', messages \subseteq messages'
      PROVE  CursorInv'
  <2>1. /\ \A s : Cursor(s)' = Cursor(s)
        /\ Ids(messages) \subseteq Ids(messages)'
        /\ SessionIds \ sessions' \subseteq SessionIds \ sessions
    BY <1>1, <1>2 DEF Ids
  <2>2. \A s \in SessionIds : Cursor(s)' \in Ids(messages)' \cup {0}
    BY <2>1 DEF CursorInv
  <2>3. \A s \in SessionIds : \A x \in markers'[s] : x.id <= Cardinality(markers'[s])
    BY <1>2 DEF CursorInv
  <2>4. \A k \in Compactors : compacting'[k] # None =>
          \A m \in loaded'[k] : m.id > Cursor(compacting[k])'
    <3>1. \A k \in Compactors : compacting[k] # None =>
            \A m \in loaded[k] : m.id > Cursor(compacting[k])
      BY DEF CursorInv
    <3>2. \A k \in Compactors : Cursor(compacting[k])' = Cursor(compacting[k])
      BY <1>2 DEF Cursor, Latest, Before
    <3> QED
      BY <1>2, <3>1, <3>2
  <2> QED
    BY <1>2, <2>1, <2>2, <2>3, <2>4 DEF CursorInv
<1>3. CASE UNCHANGED vars
  BY <1>2, <1>3 DEF vars, treeVars, compactVars, historyVars
<1>4. ASSUME NEW s \in SessionIds \ sessions, NEW p \in sessions,
             \/ CreateSubagentSession(s, p)
             \/ \E m \in messages : ForkSession(s, p, m)
      PROVE  CursorInv'
  BY <1>2, <1>4 DEF CreateSubagentSession, ForkSession, CreateSession, compactVars
<1>5. ASSUME NEW w \in Writers,
             \/ \E s \in sessions : NewMessageID(w, s)
             \/ StampMessage(w) \/ InsertMessage(w) \/ RecordUsage(w)
      PROVE  CursorInv'
  BY <1>2, <1>5
     DEF NewMessageID, StampMessage, InsertMessage, RecordUsage, compactVars,
         historyVars, treeVars
<1>6. ASSUME UNCHANGED <<markers, summarised, sessions, messages>>,
             \A k \in Compactors : compacting'[k] # None =>
               \A m \in loaded'[k] : m.id > Cursor(compacting'[k]),
             \A j, k \in Compactors :
               compacting'[j] # None /\ compacting'[j] = compacting'[k] => j = k
      PROVE  CursorInv'
  <2>1. /\ \A s : Cursor(s)' = Cursor(s)
        /\ Ids(messages) = Ids(messages)'
    BY <1>1, <1>6 DEF Ids
  <2>2. \A k \in Compactors : Cursor(compacting[k])' = Cursor(compacting'[k])
    BY <1>6 DEF Cursor, Latest, Before
  <2> QED
    BY <1>6, <2>1, <2>2 DEF CursorInv
<1>7. ASSUME NEW k \in Compactors, NEW s \in sessions, CompactLoads(k, s)
      PROVE  CursorInv'
  <2>1. /\ compacting'[k] = s /\ loaded'[k] = MessagesSinceLatestMarker(s)
        /\ \A j \in Compactors : compacting[j] # s
        /\ \A j \in Compactors \ {k} :
             compacting'[j] = compacting[j] /\ loaded'[j] = loaded[j]
    BY <1>7 DEF CompactLoads, LockFree, Typed
  <2>2. \A m \in MessagesSinceLatestMarker(s) : m.id > Cursor(s)
    BY DEF MessagesSinceLatestMarker, AfterCursor
  <2>3. \A j \in Compactors : compacting'[j] # None =>
          \A m \in loaded'[j] : m.id > Cursor(compacting'[j])
    BY <2>1, <2>2 DEF CursorInv
  <2>4. \A i, j \in Compactors :
          compacting'[i] # None /\ compacting'[i] = compacting'[j] => i = j
    BY <2>1 DEF CursorInv
  <2> QED
    BY <1>6, <1>7, <2>3, <2>4 DEF CompactLoads, treeVars, historyVars
<1>8. ASSUME NEW k \in Compactors, CompactReturns(k)
      PROVE  /\ compacting'[k] = None /\ loaded'[k] = {}
             /\ \A j \in Compactors \ {k} :
                  compacting'[j] = compacting[j] /\ loaded'[j] = loaded[j]
  BY <1>8 DEF CompactReturns, Typed
<1>9. ASSUME NEW k \in Compactors, CompactFails(k)
      PROVE  CursorInv'
  <2>1. \A j \in Compactors : compacting'[j] # None =>
          \A m \in loaded'[j] : m.id > Cursor(compacting'[j])
    BY <1>8, <1>9 DEF CompactFails, CursorInv
  <2>2. \A i, j \in Compactors :
          compacting'[i] # None /\ compacting'[i] = compacting'[j] => i = j
    BY <1>8, <1>9 DEF CompactFails, CursorInv
  <2> QED
    BY <1>6, <1>9, <2>1, <2>2 DEF CompactFails, treeVars, historyVars
<1>10. CASE Crash
  <2>1. \A k \in Compactors : compacting'[k] = None
    BY <1>10 DEF Crash
  <2> QED
    BY <1>6, <1>10, <2>1 DEF Crash, treeVars, historyVars
<1>11. ASSUME NEW k \in Compactors, AddCompactionMarker(k)
       PROVE  CursorInv'
  <2>1. PICK s \in SessionIds : s = compacting[k] /\ s # None
    BY <1>11 DEF AddCompactionMarker, Typed
  <2>2. /\ s \in sessions
        /\ Cursor(s)' = Latest(loaded[k]).id /\ Latest(loaded[k]) \in loaded[k]
        /\ \A t \in SessionIds \ {s} : Cursor(t)' = Cursor(t)
        /\ \A t \in SessionIds : \A x \in markers'[t] : x.id <= Cardinality(markers'[t])
    BY <1>11, <2>1, CursorMoves
  <2>3. Ids(messages)' = Ids(messages) /\ sessions' = sessions
    BY <1>11 DEF AddCompactionMarker, Ids, treeVars
  <2>4. \A t \in SessionIds : Cursor(t)' \in Ids(messages)' \cup {0}
    <3>1. Latest(loaded[k]).id \in Ids(messages)
      BY <2>2 DEF Typed, Ids
    <3> QED
      BY <2>2, <2>3, <3>1 DEF CursorInv
  <2>5. ASSUME NEW j \in Compactors, compacting'[j] # None, NEW m \in loaded'[j]
        PROVE  m.id > Cursor(compacting[j])'
    <3>1. j # k /\ compacting'[j] = compacting[j] /\ loaded'[j] = loaded[j]
      BY <1>8, <1>11, <2>5 DEF AddCompactionMarker
    <3>2. PICK t \in SessionIds : t = compacting[j]
      BY <2>5, <3>1 DEF Typed
    <3>3. t # s
      BY <2>1, <3>1, <3>2 DEF CursorInv
    <3>4. Cursor(compacting[j])' = Cursor(t)'
      BY <3>1, <3>2 DEF Cursor, Latest, Before
    <3> QED
      BY <2>2, <2>5, <3>1, <3>2, <3>3, <3>4 DEF CursorInv
  <2>6. \A i, j \in Compactors :
          compacting'[i] # None /\ compacting'[i] = compacting'[j] => i = j
    BY <1>8, <1>11 DEF AddCompactionMarker, CursorInv
  <2>7. \A t \in SessionIds \ sessions' : markers'[t] = {} /\ summarised'[t] = {}
    <3>1. /\ \A t \in SessionIds \ {s} : markers'[t] = markers[t]
          /\ \A t \in SessionIds \ {s} : summarised'[t] = summarised[t]
      BY <1>11, <2>1 DEF AddCompactionMarker, Typed
    <3> QED
      BY <2>2, <2>3, <3>1 DEF CursorInv
  <2> QED
    BY <2>2, <2>4, <2>5, <2>6, <2>7 DEF CursorInv
<1> QED
  BY <1>3, <1>4, <1>5, <1>7, <1>9, <1>10, <1>11 DEF Next

-----------------------------------------------------------------------------
(* Totals.                                                                 *)

(* A session and what it descends from.                                    *)
Kin(par, s) == {Line(par, s)[d] : d \in DOMAIN Line(par, s)} \ {None}

(* A session is its own kin, and its kin are sessions.                     *)
LEMMA KinAre ==
  ASSUME NEW S, S \subseteq SessionIds, NEW par \in [SessionIds -> S \cup {None}],
         NEW s \in S
  PROVE  Kin(par, s) \subseteq S /\ s \in Kin(par, s)
<1> DEFINE c == Line(par, s)
           N == Cardinality(SessionIds)
<1>1. Iterates(c, N, S \cup {None}, Onward(par, S), s)
  BY LineSteps
<1>2. N \in Nat
  BY FiniteAssumption, FS_CardinalityType
<1> HIDE DEF c, N
<1>3. DOMAIN c = 0..N /\ c[0] = s /\ 0 \in 0..N /\ \A d \in 0..N : c[d] \in S \cup {None}
  BY <1>1, <1>2 DEF Iterates
<1>4. s # None
  BY RootAssumption
<1> QED
  BY <1>3, <1>4 DEF Kin, c

Spent(s) == {m \in messages : s \in Kin(parent, m.session)}
InHand(s) == {w \in Writers : /\ writer[w] = "propagate"
                              /\ s \in Kin(parent, row[w].session)}

TotalInv ==
  /\ IsFiniteSet(messages)
  /\ \A s \in SessionIds \ sessions : total[s] = 0
  /\ \A s \in sessions :
       total[s] + Cardinality(InHand(s)) <= Cardinality(Spent(s))

(* The numbers compared are numbers.                                       *)
LEMMA TotalTypes ==
  ASSUME Typed, TotalInv, NEW s \in SessionIds
  PROVE  /\ total[s] \in Nat
         /\ IsFiniteSet(InHand(s)) /\ Cardinality(InHand(s)) \in Nat
         /\ IsFiniteSet(Spent(s)) /\ Cardinality(Spent(s)) \in Nat
<1>1. InHand(s) \subseteq Writers /\ Spent(s) \subseteq messages
  BY DEF InHand, Spent
<1>2. IsFiniteSet(InHand(s)) /\ IsFiniteSet(Spent(s))
  BY <1>1, FiniteAssumption, FS_Subset DEF TotalInv
<1> QED
  BY <1>2, FS_CardinalityType DEF Typed

(* What a step may do to the books of one session.                         *)
LEMMA BooksKept ==
  ASSUME NEW H, NEW H2, NEW P, NEW P2, NEW t \in Nat, NEW t2 \in Nat,
         IsFiniteSet(H), IsFiniteSet(P),
         t + Cardinality(H) <= Cardinality(P),
         \/ H2 \subseteq H /\ P2 = P /\ t2 = t
         \/ \E w : w \in H /\ H2 = H \ {w} /\ P2 = P /\ t2 = t + 1
         \/ \E w, m : m \notin P /\ H2 = H \cup {w} /\ P2 = P \cup {m} /\ t2 = t
  PROVE  t2 + Cardinality(H2) <= Cardinality(P2)
<1>0. Cardinality(H) \in Nat /\ Cardinality(P) \in Nat
  BY FS_CardinalityType
<1>1. CASE H2 \subseteq H /\ P2 = P /\ t2 = t
  <2>1. Cardinality(H2) \in Nat /\ Cardinality(H2) <= Cardinality(H)
    BY <1>1, FS_Subset, FS_CardinalityType
  <2> QED
    BY <1>0, <1>1, <2>1
<1>2. CASE \E w : w \in H /\ H2 = H \ {w} /\ P2 = P /\ t2 = t + 1
  <2>1. Cardinality(H2) = Cardinality(H) - 1
    BY <1>2, FS_RemoveElement
  <2> QED
    BY <1>0, <1>2, <2>1
<1>3. CASE \E w, m : m \notin P /\ H2 = H \cup {w} /\ P2 = P \cup {m} /\ t2 = t
  <2>1. PICK w, m : m \notin P /\ H2 = H \cup {w} /\ P2 = P \cup {m} /\ t2 = t
    BY <1>3
  <2>2. Cardinality(P2) = Cardinality(P) + 1
    BY <2>1, FS_AddElement
  <2>3. \/ Cardinality(H2) = Cardinality(H) + 1
        \/ Cardinality(H2) = Cardinality(H)
    <3>1. CASE w \in H
      <4>1. H2 = H
        BY <2>1, <3>1
      <4> QED
        BY <4>1
    <3>2. CASE w \notin H
      BY <2>1, <3>2, FS_AddElement
    <3> QED
      BY <3>1, <3>2
  <2> QED
    BY <1>0, <2>1, <2>2, <2>3
<1> QED
  BY <1>1, <1>2, <1>3

(* The books balance after every step.                                     *)
LEMMA TotalStep == Typed /\ RowInv /\ TotalInv /\ [Next]_vars => TotalInv'
<1> SUFFICES ASSUME Typed, RowInv, TotalInv, [Next]_vars PROVE TotalInv'
  OBVIOUS
<1>1. ASSUME NEW s \in SessionIds
      PROVE  /\ total[s] \in Nat
             /\ IsFiniteSet(InHand(s)) /\ Cardinality(InHand(s)) \in Nat
             /\ IsFiniteSet(Spent(s)) /\ Cardinality(Spent(s)) \in Nat
  BY TotalTypes
<1>2. ASSUME UNCHANGED <<sessions, parent, total, messages>>,
             \A w \in Writers : writer'[w] = "propagate" =>
               writer[w] = "propagate" /\ row'[w] = row[w]
      PROVE  TotalInv'
  <2>1. ASSUME NEW s \in sessions
        PROVE  total'[s] + Cardinality(InHand(s)') <= Cardinality(Spent(s)')
    <3>1. InHand(s)' \subseteq InHand(s)
      BY <1>2 DEF InHand, Kin, Line
    <3>2. Spent(s)' = Spent(s)
      BY <1>2 DEF Spent, Kin, Line
    <3>3. total'[s] = total[s] /\ s \in SessionIds
      BY <1>2 DEF Typed
    <3>4. total[s] + Cardinality(InHand(s)) <= Cardinality(Spent(s))
      BY DEF TotalInv
    <3> QED
      BY <1>1, <3>1, <3>2, <3>3, <3>4, BooksKept
  <2> QED
    BY <1>2, <2>1 DEF TotalInv
<1>3. CASE UNCHANGED vars
  BY <1>2, <1>3 DEF vars, treeVars, writeVars
<1>4. ASSUME NEW w \in Writers, NEW s \in sessions, NewMessageID(w, s)
      PROVE  TotalInv'
  BY <1>2, <1>4 DEF NewMessageID, treeVars, Typed
<1>5. ASSUME NEW w \in Writers, StampMessage(w)
      PROVE  TotalInv'
  BY <1>2, <1>5 DEF StampMessage, treeVars, Typed
<1>6. ASSUME NEW k \in Compactors,
             \/ \E s \in sessions : CompactLoads(k, s)
             \/ AddCompactionMarker(k) \/ CompactFails(k)
      PROVE  TotalInv'
  BY <1>2, <1>6
     DEF CompactLoads, AddCompactionMarker, CompactFails, treeVars, writeVars
<1>7. CASE Crash
  BY <1>2, <1>7 DEF Crash, treeVars
<1>8. ASSUME NEW x \in SessionIds \ sessions, NEW p \in sessions, NEW f,
             CreateSession(x, p, f)
      PROVE  TotalInv'
  <2>1. UNCHANGED <<total, messages, writer, row>> /\ sessions' = sessions \cup {x}
    BY <1>8 DEF CreateSession, writeVars
  <2>2. /\ parent' \in [SessionIds -> sessions' \cup {None}]
        /\ \A s \in sessions : parent'[s] = parent[s]
    BY <1>8 DEF CreateSession, Typed
  <2>3. /\ sessions \subseteq sessions' /\ sessions' \subseteq SessionIds
        /\ parent \in [SessionIds -> sessions \cup {None}]
    BY <2>1 DEF Typed
  <2>4. ASSUME NEW s \in sessions
        PROVE  Kin(parent', s) = Kin(parent, s) /\ Kin(parent, s) \subseteq sessions
    <3>1. Line(parent', s) = Line(parent, s)
      BY <2>2, <2>3, LineFrame
    <3>2. Kin(parent', s) = Kin(parent, s)
      BY <3>1 DEF Kin
    <3> QED
      BY <2>3, <3>2, KinAre
  <2>5. /\ \A m \in messages : m.session \in sessions
        /\ \A w \in Writers : writer[w] = "propagate" => row[w].session \in sessions
    BY DEF Typed, RowInv, Rows
  <2>6. ASSUME NEW s \in sessions'
        PROVE  /\ Spent(s)' = Spent(s) /\ InHand(s)' = InHand(s)
               /\ s \notin sessions => Spent(s) = {} /\ InHand(s) = {}
    <3>1. /\ Spent(s)' = {m \in messages : s \in Kin(parent', m.session)}
          /\ InHand(s)' = {w \in Writers : /\ writer[w] = "propagate"
                                            /\ s \in Kin(parent', row[w].session)}
      BY <2>1 DEF Spent, InHand, Kin, Line
    <3>2. Spent(s)' = Spent(s) /\ InHand(s)' = InHand(s)
      BY <2>4, <2>5, <3>1 DEF Spent, InHand
    <3>3. s \notin sessions => Spent(s) = {} /\ InHand(s) = {}
      BY <2>4, <2>5 DEF Spent, InHand
    <3> QED
      BY <3>2, <3>3
  <2>7. ASSUME NEW s \in sessions'
        PROVE  total'[s] + Cardinality(InHand(s)') <= Cardinality(Spent(s)')
    <3>1. CASE s \in sessions
      <4>1. total[s] + Cardinality(InHand(s)) <= Cardinality(Spent(s))
        BY <3>1 DEF TotalInv
      <4> QED
        BY <2>1, <2>6, <4>1
    <3>2. CASE s \notin sessions
      <4>1. s \in SessionIds \ sessions
        BY <2>3, <3>2
      <4>2. total[s] = 0
        BY <4>1 DEF TotalInv
      <4>3. Cardinality(InHand(s)') = 0 /\ Cardinality(Spent(s)') = 0
        BY <2>6, <3>2, FS_EmptySet
      <4> QED
        BY <2>1, <4>2, <4>3
    <3> QED
      BY <3>1, <3>2
  <2> QED
    BY <2>1, <2>7 DEF TotalInv
<1>9. ASSUME NEW x \in SessionIds \ sessions, NEW p \in sessions,
             \/ CreateSubagentSession(x, p)
             \/ \E m \in messages : ForkSession(x, p, m)
      PROVE  TotalInv'
  BY <1>8, <1>9 DEF CreateSubagentSession, ForkSession
<1>10. ASSUME NEW w \in Writers, InsertMessage(w)
       PROVE  TotalInv'
  <2>1. UNCHANGED <<sessions, parent, total>> /\ writer[w] = "insert"
    BY <1>10 DEF InsertMessage, treeVars
  <2>2. CASE /\ messages' = messages
             /\ writer' = [writer EXCEPT ![w] = "idle"]
             /\ row' = [row EXCEPT ![w] = NoRow]
    BY <1>2, <2>1, <2>2 DEF Typed
  <2>3. CASE /\ messages' = messages \cup {row[w]}
             /\ writer' = [writer EXCEPT ![w] = "propagate"]
             /\ row' = row
    <3>1. row[w] \notin messages
      BY <2>1 DEF RowInv, Ids
    <3>2. /\ writer'[w] = "propagate"
          /\ \A v \in Writers \ {w} : writer'[v] = writer[v]
      BY <2>3 DEF Typed
    <3>3. ASSUME NEW s \in sessions
          PROVE  total'[s] + Cardinality(InHand(s)') <= Cardinality(Spent(s)')
      <4>1. /\ InHand(s)' = {v \in Writers : /\ writer'[v] = "propagate"
                                             /\ s \in Kin(parent, row[v].session)}
            /\ Spent(s)' = {m \in messages' : s \in Kin(parent, m.session)}
        BY <2>1, <2>3 DEF InHand, Spent, Kin, Line
      <4>2. CASE s \in Kin(parent, row[w].session)
        <5>1. /\ InHand(s)' = InHand(s) \cup {w}
              /\ Spent(s)' = Spent(s) \cup {row[w]}
              /\ row[w] \notin Spent(s)
          BY <2>3, <3>1, <3>2, <4>1, <4>2 DEF InHand, Spent
        <5>2. total[s] + Cardinality(InHand(s)) <= Cardinality(Spent(s))
          BY DEF TotalInv
        <5>3. s \in SessionIds /\ total'[s] = total[s]
          BY <2>1 DEF Typed
        <5> QED
          BY <1>1, <5>1, <5>2, <5>3, BooksKept
      <4>3. CASE s \notin Kin(parent, row[w].session)
        <5>1. InHand(s)' = InHand(s) /\ Spent(s)' = Spent(s)
          BY <2>3, <3>2, <4>1, <4>3 DEF InHand, Spent
        <5>2. total[s] + Cardinality(InHand(s)) <= Cardinality(Spent(s))
          BY DEF TotalInv
        <5> QED
          BY <2>1, <5>1, <5>2
      <4> QED
        BY <4>2, <4>3
    <3>4. IsFiniteSet(messages')
      BY <2>3, FS_AddElement DEF TotalInv
    <3> QED
      BY <2>1, <3>3, <3>4 DEF TotalInv
  <2> QED
    BY <1>10, <2>2, <2>3 DEF InsertMessage
<1>11. ASSUME NEW w \in Writers, RecordUsage(w)
       PROVE  TotalInv'
  <2>1. /\ UNCHANGED <<sessions, parent, messages>> /\ writer[w] = "propagate"
        /\ writer'[w] = "idle"
        /\ \A v \in Writers \ {w} : writer'[v] = writer[v] /\ row'[v] = row[v]
    BY <1>11 DEF RecordUsage, treeVars, Typed
  <2> DEFINE x == row[w].session
  <2>2. x \in sessions
    BY <2>1 DEF RowInv, Rows
  <2>3. Kin(parent, x) \subseteq sessions /\ x \in Kin(parent, x)
    BY <2>2, KinAre DEF Typed
  <2>4. PICK S \in SUBSET Kin(parent, x) : Charge(S)
    <3>1. Charged(x) = Kin(parent, x)
      BY LineageIs DEF Charged, Kin
    <3>2. Charge(Kin(parent, x)) \/ Charge({x}) \/ UNCHANGED total
      BY <1>11, <3>1 DEF RecordUsage, UpdateSessionTotals
    <3>3. UNCHANGED total => Charge({})
      BY DEF Charge, Typed
    <3> QED
      BY <2>3, <3>2, <3>3
  <2>5. \A s \in SessionIds : total'[s] = IF s \in S THEN total[s] + 1 ELSE total[s]
    BY <2>4 DEF Charge
  <2>6. ASSUME NEW s \in sessions
        PROVE  total'[s] + Cardinality(InHand(s)') <= Cardinality(Spent(s)')
    <3>0. \A t : Kin(parent, t)' = Kin(parent, t)
      BY <2>1 DEF Kin, Line
    <3>1. InHand(s)' = InHand(s) \ {w} /\ Spent(s)' = Spent(s)
      <4>1. Spent(s)' = Spent(s)
        BY <2>1, <3>0 DEF Spent
      <4>2. ASSUME NEW v \in Writers
            PROVE  v \in InHand(s)' <=> v \in InHand(s) /\ v # w
        BY <2>1, <3>0, <4>2 DEF InHand
      <4> QED
        BY <4>1, <4>2 DEF InHand
    <3>2. s \in SessionIds /\ total[s] + Cardinality(InHand(s)) <= Cardinality(Spent(s))
      BY DEF Typed, TotalInv
    <3>3. CASE s \in S
      <4>1. w \in InHand(s)
        BY <2>1, <2>4, <3>3 DEF InHand
      <4> QED
        BY <1>1, <2>5, <3>1, <3>2, <3>3, <4>1, BooksKept
    <3>4. CASE s \notin S
      <4>1. total'[s] = total[s] /\ InHand(s)' \subseteq InHand(s)
        BY <2>5, <3>1, <3>2, <3>4
      <4>2. /\ Cardinality(InHand(s)') \in Nat
            /\ Cardinality(InHand(s)') <= Cardinality(InHand(s))
        BY <1>1, <3>2, <4>1, FS_Subset, FS_CardinalityType
      <4> QED
        BY <1>1, <3>1, <3>2, <4>1, <4>2
    <3> QED
      BY <3>3, <3>4
  <2>7. \A s \in SessionIds \ sessions' : total'[s] = 0
    BY <2>1, <2>3, <2>4, <2>5 DEF TotalInv
  <2> QED
    BY <2>1, <2>6, <2>7 DEF TotalInv
<1> QED
  BY <1>3, <1>4, <1>5, <1>6, <1>7, <1>9, <1>10, <1>11 DEF Next

(* The invariant is the property.                                          *)
LEMMA TotalsMean == Typed /\ RowInv /\ TotalInv => TotalsAddUp
<1> SUFFICES ASSUME Typed, RowInv, TotalInv, NEW s \in sessions
             PROVE  LET above == [t \in sessions |-> Lineage(t)]
                        spent == {m \in messages : s \in above[m.session]}
                        inHand == {w \in Writers : /\ writer[w] = "propagate"
                                                   /\ s \in above[row[w].session]}
                    IN total[s] + Cardinality(inHand) <= Cardinality(spent)
  BY DEF TotalsAddUp
<1> DEFINE above == [t \in sessions |-> Lineage(t)]
           spent == {m \in messages : s \in above[m.session]}
           inHand == {w \in Writers : /\ writer[w] = "propagate"
                                      /\ s \in above[row[w].session]}
<1>1. \A t \in sessions : above[t] = Kin(parent, t)
  BY LineageIs DEF Kin
<1>2. /\ \A m \in messages : m.session \in sessions
      /\ \A w \in Writers : writer[w] = "propagate" => row[w].session \in sessions
  BY DEF Typed, RowInv, Rows
<1> HIDE DEF above
<1>3. spent = Spent(s) /\ inHand = InHand(s)
  BY <1>1, <1>2 DEF Spent, InHand
<1>4. total[s] + Cardinality(inHand) <= Cardinality(spent)
  BY <1>3 DEF TotalInv
<1> QED
  BY <1>4 DEF above

(* The first state is in order.                                            *)
LEMMA StoreInit == Init => IdsInv /\ CursorInv /\ TotalInv
<1> SUFFICES ASSUME Init PROVE IdsInv /\ CursorInv /\ TotalInv
  OBVIOUS
<1>1. IdsInv
  BY FS_EmptySet DEF Init, IdsInv, RowInv, LoadInv
<1>2. CursorInv
  BY DEF Init, CursorInv, Cursor, Ids
<1>3. TotalInv
  <2>1. ASSUME NEW s \in sessions
        PROVE  total[s] + Cardinality(InHand(s)) <= Cardinality(Spent(s))
    <3>1. InHand(s) = {} /\ Spent(s) = {} /\ total[s] = 0
      BY <2>1, RootAssumption DEF Init, InHand, Spent
    <3> QED
      BY <3>1, FS_EmptySet
  <2> QED
    BY <2>1, FS_EmptySet DEF Init, TotalInv
<1> QED
  BY <1>1, <1>2, <1>3

-----------------------------------------------------------------------------
StoreInv == Typed /\ IdsInv /\ CursorInv /\ TotalInv

(* Every step keeps the invariant.                                         *)
LEMMA StoreStep == StoreInv /\ [Next]_vars => StoreInv'
<1>1. StoreInv /\ [Next]_vars => Typed' /\ RowInv' /\ LoadInv' /\ CursorInv' /\ TotalInv'
  BY TypeStep, RowStep, LoadStep, CursorStep, TotalStep DEF StoreInv, IdsInv
<1> QED
  BY <1>1 DEF StoreInv, IdsInv

(* Rows, markers, locks and totals are in order in every state, however    *)
(* many writers and compactors there are and whatever fails.               *)
THEOREM StoreInvariant == Spec => []StoreInv
<1>1. Init => StoreInv
  BY TypeInit, StoreInit DEF StoreInv
<1> QED
  BY <1>1, StoreStep, PTL DEF Spec

(* The state has its types; a total is at most the number of messages.     *)
THEOREM TypeCorrect == Spec => []TypeOK
<1>1. StoreInv => TypeOK
  <2> SUFFICES ASSUME StoreInv PROVE TypeOK
    OBVIOUS
  <2> USE DEF StoreInv
  <2>1. lastID \in 0..MaxMessages /\ clock \in 0..MaxClock /\ MaxMessages \in Nat
    BY BoundsAssumption DEF Typed
  <2>2. /\ 1..lastID \subseteq 1..MaxMessages /\ 0..lastID \subseteq 0..MaxMessages
        /\ 0..clock \subseteq 0..MaxClock
    BY <2>1, BoundsAssumption
  <2>3. messages \subseteq Messages /\ row \in [Writers -> Messages \cup {NoRow}]
    <3>1. Rows \subseteq Messages
      BY <2>2 DEF Rows, Messages, Typed
    <3> QED
      BY <3>1 DEF Typed
  <2>4. markers \in [SessionIds -> SUBSET [id : Nat, at : 0..MaxClock,
                                          before : 1..MaxMessages]]
    <3>1. Marks \subseteq [id : Nat, at : 0..MaxClock, before : 1..MaxMessages]
      BY <2>2 DEF Marks
    <3> QED
      BY <3>1 DEF Typed
  <2>5. IsFiniteSet(messages) /\ Cardinality(messages) <= MaxMessages
    <3> DEFINE f == [m \in messages |-> m.id]
    <3>1. f \in Injection(messages, 1..MaxMessages)
      BY <2>3 DEF Injection, IsInjective, IdsInv, RowInv, Messages
    <3>2. IsFiniteSet(1..MaxMessages) /\ Cardinality(1..MaxMessages) = MaxMessages
      BY <2>1, FS_Interval
    <3> HIDE DEF f
    <3> QED
      BY <3>1, <3>2, FS_Injection
  <2>6. \A s \in SessionIds : total[s] \in 0..MaxMessages
    <3> SUFFICES ASSUME NEW s \in SessionIds PROVE total[s] \in 0..MaxMessages
      OBVIOUS
    <3>1. total[s] \in Nat /\ Cardinality(InHand(s)) \in Nat /\ Cardinality(Spent(s)) \in Nat
      BY TotalTypes
    <3>2. CASE s \in sessions
      <4>1. Cardinality(Spent(s)) <= Cardinality(messages) /\ Cardinality(messages) \in Nat
        BY <2>5, FS_Subset, FS_CardinalityType DEF Spent
      <4>2. total[s] + Cardinality(InHand(s)) <= Cardinality(Spent(s))
        BY <3>2 DEF TotalInv
      <4> QED
        BY <2>1, <2>5, <3>1, <4>1, <4>2
    <3>3. CASE s \notin sessions
      BY <2>1, <3>3 DEF TotalInv
    <3> QED
      BY <3>2, <3>3
  <2>7. /\ total \in [SessionIds -> 0..MaxMessages]
        /\ fork \in [SessionIds -> 0..MaxMessages]
    BY <2>2, <2>6 DEF Typed
  <2> QED
    BY <2>1, <2>3, <2>4, <2>7 DEF Typed, TypeOK
<1> QED
  BY <1>1, StoreInvariant, PTL

(* Accounting (recordUsage, PropagateTotals and its fallback): no message  *)
(* is counted twice in a session's total or in that of a session above it. *)
THEOREM TotalsNeverOvercount == Spec => []TotalsAddUp
<1>1. StoreInv => TotalsAddUp
  BY TotalsMean DEF StoreInv, IdsInv
<1> QED
  BY <1>1, StoreInvariant, PTL

(* Compaction (Compact, AddCompactionMarker): the start of a session's     *)
(* context only moves forward, whatever the clock does not show and however*)
(* many compactors there are.                                              *)
THEOREM ContextMovesForward == Spec => CursorNeverGoesBack
<1>1. StoreInv /\ [Next]_vars => [\A s \in SessionIds : Cursor(s) <= Cursor(s)']_vars
  <2> SUFFICES ASSUME StoreInv, [Next]_vars, NEW s \in SessionIds
               PROVE  Cursor(s) <= Cursor(s)'
    OBVIOUS
  <2> USE DEF StoreInv
  <2>1. Cursor(s) \in Nat
    <3>1. Cursor(s) \in 0..lastID
      BY CursorType
    <3> QED
      BY <3>1, BoundsAssumption DEF Typed
  <2>2. CASE UNCHANGED markers
    <3>1. Cursor(s)' = Cursor(s)
      BY <2>2 DEF Cursor, Latest, Before
    <3> QED
      BY <2>1, <3>1
  <2>3. ASSUME NEW k \in Compactors, AddCompactionMarker(k)
        PROVE  Cursor(s) <= Cursor(s)'
    <3>1. PICK t \in SessionIds : t = compacting[k]
      BY <2>3 DEF AddCompactionMarker, Typed
    <3>2. /\ Cursor(t)' = Latest(loaded[k]).id /\ Latest(loaded[k]) \in loaded[k]
          /\ Cursor(t) < Latest(loaded[k]).id
          /\ \A x \in SessionIds \ {t} : Cursor(x)' = Cursor(x)
      BY <2>3, <3>1, CursorMoves
    <3>3. Latest(loaded[k]).id \in Nat
      BY <3>2 DEF Typed, Rows
    <3>4. CASE s = t
      BY <2>1, <3>2, <3>3, <3>4
    <3>5. CASE s # t
      BY <2>1, <3>2, <3>5
    <3> QED
      BY <3>4, <3>5
  <2>4. UNCHANGED markers \/ \E k \in Compactors : AddCompactionMarker(k)
    BY DEF Next, CreateSubagentSession, ForkSession, CreateSession, NewMessageID,
           StampMessage, InsertMessage, RecordUsage, CompactLoads, CompactFails,
           Crash, vars
  <2> QED
    BY <2>2, <2>3, <2>4
<1> QED
  BY <1>1, StoreInvariant, PTL DEF Spec, CursorNeverGoesBack

-----------------------------------------------------------------------------
(* What a session shows.                                                   *)
Vis(msgs, par, frk, s, n) ==
  {m \in msgs : \E a \in {Forks(par, frk, s, n)[d] : d \in 0..n} : UpToCutoff(m, a)}

(* VisibleWithin, now and after a step, is what the tree makes of it.      *)
LEMMA VisibleIs ==
  ASSUME NEW s, NEW n
  PROVE  /\ VisibleWithin(s, n) = Vis(messages, parent, fork, s, n)
         /\ VisibleWithin(s, n)' = Vis(messages', parent', fork', s, n)
BY ForkChainIs DEF VisibleWithin, ForkAncestors, Vis, UpToCutoff

(* A new session leaves the chains, and what shows, of the others alone.   *)
LEMMA ForkFrame ==
  ASSUME NEW S, NEW par, NEW frk, Tree(S, par, frk),
         NEW S2, NEW par2, NEW frk2, Tree(S2, par2, frk2),
         S \subseteq S2, \A x \in S : par2[x] = par[x] /\ frk2[x] = frk[x],
         NEW s \in S, NEW n \in Nat
  PROVE  Forks(par2, frk2, s, n) = Forks(par, frk, s, n)
<1> DEFINE c == Forks(par, frk, s, n)
           e == Forks(par2, frk2, s, n)
           A2 == Ancestors(S2)
           g2 == Climb(par2, frk2, S2)
<1>1. Iterates(e, n, A2, g2, Itself(s))
  BY ForkSteps
<1>2. /\ c \in [0..n -> Ancestors(S)] /\ c[0] = Itself(s)
      /\ \A d \in 1..n : c[d] = Above(par, frk, c[d - 1])
  BY ForkLinks
<1>3. \A a \in Ancestors(S) : a \in A2 /\ g2[a] = Above(par, frk, a)
  <2>1. ASSUME NEW a \in Ancestors(S)
        PROVE  a \in A2 /\ Above(par2, frk2, a) = Above(par, frk, a)
    BY DEF Ancestors, Above
  <2> QED
    BY <2>1, ClimbType
<1> HIDE DEF c, e, A2, g2
<1>4. Iterates(c, n, A2, g2, Itself(s))
  <2>1. \A d \in 1..n : d - 1 \in 0..n
    OBVIOUS
  <2>2. c = [d \in 0..n |-> c[d]]
    BY <1>2
  <2>3. c \in [0..n -> A2]
    BY <1>2, <1>3, <2>2
  <2> QED
    BY <1>2, <1>3, <2>1, <2>3 DEF Iterates
<1>5. c = e
  BY <1>1, <1>4, IterationUnique
<1> QED
  BY <1>5 DEF c, e

(* The same for what shows.                                                *)
LEMMA VisFrame ==
  ASSUME NEW S, NEW par, NEW frk, Tree(S, par, frk),
         NEW S2, NEW par2, NEW frk2, Tree(S2, par2, frk2),
         S \subseteq S2, \A x \in S : par2[x] = par[x] /\ frk2[x] = frk[x],
         NEW s \in S, NEW n \in Nat, NEW msgs
  PROVE  Vis(msgs, par2, frk2, s, n) = Vis(msgs, par, frk, s, n)
BY ForkFrame DEF Vis

(* The sessions there are make a tree.                                     *)
LEMMA TreeIs ==
  ASSUME Typed
  PROVE  Tree(sessions, parent, fork)
<1>1. 0..lastID \subseteq Nat
  BY BoundsAssumption DEF Typed
<1> QED
  BY <1>1 DEF Typed, Tree

(* What the other sessions show when one is added.                         *)
LEMMA CreateKeeps ==
  ASSUME Typed, NEW x \in SessionIds \ sessions, NEW p \in sessions,
         NEW f \in 0..lastID, CreateSession(x, p, f), NEW s \in sessions, NEW n \in Nat
  PROVE  /\ Tree(sessions', parent', fork')
         /\ Forks(parent', fork', s, n) = Forks(parent, fork, s, n)
         /\ Vis(messages', parent', fork', s, n) = Vis(messages, parent, fork, s, n)
<1>1. Tree(sessions, parent, fork)
  BY TreeIs
<1>2. /\ sessions' = sessions \cup {x} /\ messages' = messages
      /\ parent' = [parent EXCEPT ![x] = p] /\ fork' = [fork EXCEPT ![x] = f]
  BY DEF CreateSession
<1>3. f \in Nat
  BY BoundsAssumption DEF Typed
<1>4. Tree(sessions', parent', fork')
  BY <1>1, <1>2, <1>3 DEF Tree
<1>5. \A y \in sessions : parent'[y] = parent[y] /\ fork'[y] = fork[y]
  BY <1>2 DEF Typed
<1>6. sessions \subseteq sessions'
  BY <1>2
<1>7. Forks(parent', fork', s, n) = Forks(parent, fork, s, n)
  BY <1>1, <1>4, <1>5, <1>6, ForkFrame
<1>8. Vis(messages, parent', fork', s, n) = Vis(messages, parent, fork, s, n)
  BY <1>1, <1>4, <1>5, <1>6, VisFrame
<1> QED
  BY <1>2, <1>4, <1>7, <1>8

(* Where the chain ends, it stays ended.                                   *)
LEMMA ForkEnds ==
  ASSUME NEW S, NEW par, NEW frk, Tree(S, par, frk), NEW s \in S,
         NEW n \in Nat, NEW k \in 0..n,
         \/ Forks(par, frk, s, n)[k].session = None
         \/ frk[Forks(par, frk, s, n)[k].session] = 0
  PROVE  \A d \in (k + 1)..n : Forks(par, frk, s, n)[d] = NoAncestor
<1> DEFINE c == Forks(par, frk, s, n)
           T == {d \in (k + 1)..n : c[d] # NoAncestor}
<1>1. \A d \in 1..n : c[d] = Above(par, frk, c[d - 1])
  BY ForkLinks
<1>2. c[k].session = None \/ frk[c[k].session] = 0
  OBVIOUS
<1> HIDE DEF c
<1> SUFFICES ASSUME T # {} PROVE FALSE
  BY DEF c
<1>3. PICK b \in T : \A d \in T : b <= d
  <2>1. T \subseteq Nat
    OBVIOUS
  <2> QED
    BY <2>1, Least
<1>4. b \in 1..n /\ (b - 1 = k \/ b - 1 \in (k + 1)..n) /\ b - 1 \notin T
  BY <1>3
<1>5. c[b - 1].session = None \/ frk[c[b - 1].session] = 0
  BY <1>2, <1>4 DEF NoAncestor
<1>6. c[b] = NoAncestor
  BY <1>1, <1>4, <1>5 DEF Above
<1> QED
  BY <1>6

(* A fork's chain is its parent's, one further up.                         *)
LEMMA ForkShift ==
  ASSUME NEW S, NEW par, NEW frk, Tree(S, par, frk), NEW x \in S, NEW p \in S,
         par[x] = p, frk[x] # 0, NEW n \in Nat \ {0}
  PROVE  /\ Forks(par, frk, x, n)[1] = [session |-> p, cutoff |-> frk[x]]
         /\ \A d \in 1..(n - 1) :
              Forks(par, frk, x, n)[d + 1] = Forks(par, frk, p, n)[d]
<1> DEFINE c == Forks(par, frk, x, n)
           e == Forks(par, frk, p, n)
           T == {d \in 1..(n - 1) : c[d + 1] # e[d]}
<1>1. /\ c[0] = Itself(x) /\ \A d \in 1..n : c[d] = Above(par, frk, c[d - 1])
      /\ e[0] = Itself(p) /\ \A d \in 1..n : e[d] = Above(par, frk, e[d - 1])
  BY ForkLinks
<1>2. x # None /\ p # None
  BY RootAssumption DEF Tree
<1> HIDE DEF c, e
<1>3. c[1] = [session |-> p, cutoff |-> frk[x]]
  <2>1. c[1] = Above(par, frk, Itself(x))
    BY <1>1
  <2> QED
    BY <1>2, <2>1 DEF Above, Itself
<1>4. T = {}
  <2> SUFFICES ASSUME T # {} PROVE FALSE
    OBVIOUS
  <2>1. PICK b \in T : \A d \in T : b <= d
    <3>1. T \subseteq Nat
      OBVIOUS
    <3> QED
      BY <3>1, Least
  <2>2. b \in 1..n /\ b + 1 \in 1..n /\ (b + 1) - 1 = b
    BY <2>1
  <2>3. c[b + 1] = Above(par, frk, c[b]) /\ e[b] = Above(par, frk, e[b - 1])
    BY <1>1, <2>2
  <2>4. CASE b = 1
    <3>1. c[b].session = e[b - 1].session
      BY <1>1, <1>3, <2>4 DEF Itself
    <3> QED
      BY <2>1, <2>3, <3>1 DEF Above
  <2>5. CASE b # 1
    <3>1. b - 1 \in 1..(n - 1) /\ b - 1 \notin T /\ (b - 1) + 1 = b
      BY <2>1, <2>5
    <3>2. c[b] = e[b - 1]
      BY <3>1
    <3> QED
      BY <2>1, <2>3, <3>2
  <2> QED
    BY <2>4, <2>5
<1> QED
  BY <1>3, <1>4 DEF c, e

(* A session that is created shows no more than its parent, as its parent  *)
(* shows it already.                                                       *)
LEMMA NewcomerSees ==
  ASSUME Typed, NEW x \in SessionIds \ sessions, NEW p \in sessions,
         NEW f \in 0..lastID, CreateSession(x, p, f), NEW n \in Nat
  PROVE  Vis(messages', parent', fork', x, n) \subseteq
           Vis(messages, parent, fork, p, n)
<1> DEFINE c == Forks(parent', fork', x, n)
           e == Forks(parent, fork, p, n)
<1>1. /\ Tree(sessions', parent', fork') /\ Forks(parent', fork', p, n) = e
      /\ Tree(sessions, parent, fork)
  BY CreateKeeps, TreeIs
<1>2. /\ x \in sessions' /\ p \in sessions' /\ parent'[x] = p /\ fork'[x] = f
      /\ messages' = messages
  BY DEF CreateSession, Typed
<1>3. \A m \in messages : m.session # x /\ m.session # None
  BY RootAssumption DEF Typed, Rows
<1>4. c[0] = Itself(x) /\ e[0] = Itself(p)
  BY <1>1, <1>2, ForkLinks
<1>5. ASSUME NEW m \in messages, NEW d \in 0..n, UpToCutoff(m, c[d])
      PROVE  \E b \in 0..n : UpToCutoff(m, e[b])
  <2>1. d # 0
    BY <1>3, <1>4, <1>5 DEF UpToCutoff, Itself
  <2>2. c[d] # NoAncestor
    BY <1>3, <1>5 DEF UpToCutoff, NoAncestor
  <2>3. f # 0
    <3> SUFFICES ASSUME f = 0 PROVE FALSE
      OBVIOUS
    <3>1. fork'[c[0].session] = 0 /\ 0 \in 0..n
      BY <1>2, <1>4 DEF Itself
    <3>2. d \in (0 + 1)..n
      BY <2>1
    <3>3. \A k \in (0 + 1)..n : c[k] = NoAncestor
      BY <1>1, <1>2, <3>1, ForkEnds
    <3> QED
      BY <2>2, <3>2, <3>3
  <2>4. n \in Nat \ {0}
    BY <2>1
  <2>5. /\ c[1] = [session |-> p, cutoff |-> f]
        /\ \A k \in 1..(n - 1) : c[k + 1] = e[k]
    <3>1. /\ c[1] = [session |-> p, cutoff |-> fork'[x]]
          /\ \A k \in 1..(n - 1) : c[k + 1] = Forks(parent', fork', p, n)[k]
      BY <1>1, <1>2, <2>3, <2>4, ForkShift
    <3> QED
      BY <1>1, <1>2, <3>1
  <2> HIDE DEF c, e
  <2>6. CASE d = 1
    <3>1. UpToCutoff(m, e[0]) /\ 0 \in 0..n
      BY <1>4, <1>5, <2>5, <2>6 DEF UpToCutoff, Itself
    <3> QED
      BY <3>1
  <2>7. CASE d # 1
    <3>1. d - 1 \in 1..(n - 1) /\ d - 1 \in 0..n /\ (d - 1) + 1 = d
      BY <2>1, <2>7
    <3> QED
      BY <1>5, <2>5, <3>1
  <2> QED
    BY <2>6, <2>7
<1> QED
  BY <1>2, <1>5 DEF Vis

-----------------------------------------------------------------------------
(* What Compact and a request see of a session.                            *)
Seen(s) == Vis(messages, parent, fork, s, MaxForkDepth)

(* An insert adds one row to what some sessions show.  Unless it came late *)
(* there, its id is the greatest the session shows.                        *)
LEMMA Inserted ==
  ASSUME Typed, RowInv, NEW w \in Writers, InsertMessage(w), messages' # messages
  PROVE  /\ writer[w] = "insert" /\ row[w] \in Rows /\ row[w].id \notin Ids(messages)
         /\ messages' = messages \cup {row[w]}
         /\ row' = row /\ writer' = [writer EXCEPT ![w] = "propagate"]
         /\ \A s \in SessionIds : late[s] \subseteq late'[s]
         /\ \A s \in sessions : row[w] \in Seen(s)' /\ row[w].id \notin late'[s] =>
              \A n \in Seen(s) : n.id < row[w].id
         /\ \A s \in sessions : row[w] \in Seen(s)' /\ (\E n \in Seen(s) : row[w].id < n.id)
              => row[w].id \in late'[s]
<1> DEFINE r == row[w]
<1>1. /\ writer[w] = "insert" /\ messages' = messages \cup {r}
      /\ late' = [s \in SessionIds |->
           IF ArrivesLate(r, s) THEN late[s] \cup {r.id} ELSE late[s]]
      /\ row' = row /\ writer' = [writer EXCEPT ![w] = "propagate"]
      /\ UNCHANGED treeVars
  BY DEF InsertMessage
<1>2. r \in Rows /\ r.id \notin Ids(messages)
  BY <1>1 DEF RowInv
<1> HIDE DEF r
<1>3. \A s \in SessionIds : late[s] \subseteq late'[s]
  BY <1>1
<1>4. ASSUME NEW s \in sessions, r \in Seen(s)'
      PROVE  ArrivesLate(r, s) <=> \E n \in Seen(s) : r.id < n.id
  <2>1. MessagesForSession(s) = Seen(s)
    BY VisibleIs DEF MessagesForSession, Seen
  <2>2. Seen(s)' = {m \in messages' : \E a \in ForkAncestors(s, MaxForkDepth) : UpToCutoff(m, a)}
    <3>1. ForkAncestors(s, MaxForkDepth) =
            {Forks(parent, fork, s, MaxForkDepth)[d] : d \in 0..MaxForkDepth}
      BY ForkChainIs DEF ForkAncestors
    <3>2. Seen(s)' = {m \in messages' :
            \E a \in {Forks(parent, fork, s, MaxForkDepth)[d] : d \in 0..MaxForkDepth} :
              UpToCutoff(m, a)}
      BY <1>1 DEF Seen, Vis, UpToCutoff, Forks, Above, treeVars
    <3> QED
      BY <3>1, <3>2
  <2>3. \E a \in ForkAncestors(s, MaxForkDepth) : UpToCutoff(r, a)
    BY <1>4, <2>2
  <2> QED
    BY <2>1, <2>3 DEF ArrivesLate
<1>5. ASSUME NEW s \in sessions, r \in Seen(s)', r.id \notin late'[s], NEW n \in Seen(s)
      PROVE  n.id < r.id
  <2>1. s \in SessionIds
    BY DEF Typed
  <2>2. ~(r.id < n.id)
    BY <1>1, <1>4, <1>5, <2>1
  <2>3. n \in messages
    BY DEF Seen, Vis
  <2>4. n.id \in Int /\ r.id \in Int /\ n.id # r.id
    BY <1>2, <2>3 DEF Typed, Rows, Ids
  <2> QED
    BY <2>2, <2>4
<1>6. ASSUME NEW s \in sessions, r \in Seen(s)', \E n \in Seen(s) : r.id < n.id
      PROVE  r.id \in late'[s]
  BY <1>1, <1>4, <1>6 DEF Typed
<1> QED
  BY <1>1, <1>2, <1>3, <1>5, <1>6 DEF r

(* The cursor is at a message the session shows.  Up to it everything is   *)
(* summarised but what came late; what is summarised and beyond it has an  *)
(* id and a time that disagree with another's.  A compactor has in hand    *)
(* all the session shows between the cursor and the greatest id it loaded, *)
(* but what came late.                                                     *)
SentInv ==
  /\ \A s \in sessions : Cursor(s) \in Ids(Seen(s)) \cup {0}
  /\ \A s \in sessions : \A m \in Seen(s) :
       m.id <= Cursor(s) /\ m.id \notin late[s] => m.id \in summarised[s]
  /\ \A s \in sessions : \A m \in Seen(s) :
       m.id \in summarised[s] /\ m.id > Cursor(s) =>
         \E n \in Seen(s) : n.id < m.id /\ m.at < n.at
  /\ \A k \in Compactors : \A s \in sessions : compacting[k] = s =>
       /\ loaded[k] \subseteq Seen(s)
       /\ \A m \in Seen(s) : m.id > Cursor(s) /\ m.id \notin late[s] =>
            m \in loaded[k] \/ \A n \in loaded[k] : n.id < m.id

(* Nothing is forgotten and nothing sent twice after any step.             *)
LEMMA SentStep ==
  Typed /\ IdsInv /\ CursorInv /\ SentInv /\ [Next]_vars => SentInv'
<1> SUFFICES ASSUME Typed, IdsInv, CursorInv, SentInv, [Next]_vars
             PROVE  SentInv'
  OBVIOUS
<1> DEFINE Depth == MaxForkDepth
<1>0. Depth \in Nat
  BY DepthAssumption
<1>1. ASSUME UNCHANGED markers, NEW s PROVE Cursor(s)' = Cursor(s)
  BY <1>1 DEF Cursor, Latest, Before
<1>2. ASSUME UNCHANGED <<treeVars, messages, markers, summarised, late>>,
             \A k \in Compactors : compacting'[k] # None =>
               compacting'[k] = compacting[k] /\ loaded'[k] = loaded[k]
      PROVE  SentInv'
  <2>1. /\ \A s : Cursor(s)' = Cursor(s)
        /\ \A s : Seen(s)' = Seen(s)
        /\ sessions' = sessions
    BY <1>1, <1>2 DEF Seen, Vis, Forks, Above, UpToCutoff, treeVars
  <2>2. \A k \in Compactors : \A s \in sessions : compacting'[k] = s =>
          compacting[k] = s /\ loaded'[k] = loaded[k]
    BY <1>2, RootAssumption DEF Typed
  <2>3. \A s : Ids(Seen(s))' = Ids(Seen(s))
    BY <2>1 DEF Ids
  <2> QED
    BY <1>2, <2>1, <2>2, <2>3 DEF SentInv
<1>3. CASE UNCHANGED vars
  BY <1>2, <1>3 DEF vars, compactVars, historyVars
<1>4. ASSUME NEW w \in Writers,
             \/ \E s \in sessions : NewMessageID(w, s)
             \/ StampMessage(w) \/ RecordUsage(w)
      PROVE  SentInv'
  BY <1>2, <1>4 DEF NewMessageID, StampMessage, RecordUsage, compactVars, historyVars
<1>5. ASSUME NEW k \in Compactors, CompactFails(k)
      PROVE  SentInv'
  <2>1. \A j \in Compactors : compacting'[j] # None =>
          compacting'[j] = compacting[j] /\ loaded'[j] = loaded[j]
    BY <1>5 DEF CompactFails, CompactReturns, Typed
  <2> QED
    BY <1>2, <1>5, <2>1 DEF CompactFails, historyVars
<1>6. CASE Crash
  <2>1. \A k \in Compactors : compacting'[k] = None
    BY <1>6 DEF Crash
  <2> QED
    BY <1>2, <1>6, <2>1 DEF Crash, historyVars
<1>7. ASSUME \A s \in sessions' :
               Cursor(s)' = 0 \/ \E m \in Seen(s)' : m.id = Cursor(s)',
             \A s \in sessions' : \A m \in Seen(s)' :
               m.id <= Cursor(s)' /\ m.id \notin late'[s] => m.id \in summarised'[s],
             \A s \in sessions' : \A m \in Seen(s)' :
               m.id \in summarised'[s] /\ m.id > Cursor(s)' =>
                 \E n \in Seen(s)' : n.id < m.id /\ m.at < n.at,
             \A k \in Compactors : \A s \in sessions' : compacting'[k] = s =>
               /\ loaded'[k] \subseteq Seen(s)'
               /\ \A m \in Seen(s)' : m.id > Cursor(s)' /\ m.id \notin late'[s] =>
                    m \in loaded'[k] \/ \A n \in loaded'[k] : n.id < m.id
      PROVE  SentInv'
  <2>1. \A s \in sessions' : Cursor(s)' \in Ids(Seen(s))' \cup {0}
    BY <1>7 DEF Ids
  <2> QED
    BY <1>7, <2>1 DEF SentInv
<1>8. /\ \A s \in sessions : Cursor(s) = 0 \/ \E m \in Seen(s) : m.id = Cursor(s)
      /\ \A s \in sessions : \A m \in Seen(s) :
           m.id <= Cursor(s) /\ m.id \notin late[s] => m.id \in summarised[s]
      /\ \A s \in sessions : \A m \in Seen(s) :
           m.id \in summarised[s] /\ m.id > Cursor(s) =>
             \E n \in Seen(s) : n.id < m.id /\ m.at < n.at
      /\ \A k \in Compactors : \A s \in sessions : compacting[k] = s =>
           /\ loaded[k] \subseteq Seen(s)
           /\ \A m \in Seen(s) : m.id > Cursor(s) /\ m.id \notin late[s] =>
                m \in loaded[k] \/ \A n \in loaded[k] : n.id < m.id
      /\ compacting \in [Compactors -> sessions \cup {None}]
      /\ sessions \subseteq SessionIds
  BY DEF SentInv, Typed, Ids
<1>9. \A s : Seen(s) \subseteq messages
  BY DEF Seen, Vis
<1>10. \A m \in messages : m.id \in Nat /\ m.id > 0 /\ m.at \in Nat
  <2>1. \A m \in messages : m.id \in 1..lastID /\ m.at \in 0..clock
    BY DEF Typed, Rows
  <2> QED
    BY <2>1, BoundsAssumption DEF Typed
<1>11. \A s \in SessionIds : Cursor(s) \in Nat
  <2>1. \A s \in SessionIds : Cursor(s) \in 0..lastID
    BY CursorType
  <2> QED
    BY <2>1, BoundsAssumption DEF Typed
<1>12. ASSUME NEW x \in SessionIds \ sessions, NEW p \in sessions,
              NEW f \in 0..lastID, CreateSession(x, p, f)
       PROVE  SentInv'
  <2>1. /\ sessions' = sessions \cup {x} /\ messages' = messages /\ markers' = markers
        /\ compacting' = compacting /\ loaded' = loaded
        /\ summarised' = summarised /\ late' = late
    BY <1>12 DEF CreateSession, compactVars
  <2>2. \A s : Cursor(s)' = Cursor(s)
    BY <1>1, <2>1
  <2>3. \A s \in sessions : Seen(s)' = Seen(s)
    <3>1. ASSUME NEW s \in sessions
          PROVE  Vis(messages', parent', fork', s, Depth) = Vis(messages, parent, fork, s, Depth)
      BY <1>0, <1>12, CreateKeeps
    <3>2. \A s : Seen(s)' = Vis(messages', parent', fork', s, Depth)
      BY DEF Seen, Vis, Forks, Above, UpToCutoff
    <3> QED
      BY <3>1, <3>2 DEF Seen
  <2>4. /\ Cursor(x) = 0
        /\ \A m \in Seen(x)' : m.id \notin summarised[x] /\ ~(m.id <= Cursor(x))
    <3>1. summarised[x] = {} /\ Cursor(x) = 0
      BY DEF CursorInv, Cursor
    <3>2. Seen(x)' \subseteq messages
      BY <2>1 DEF Seen, Vis
    <3> QED
      BY <1>10, <3>1, <3>2
  <2>5. \A s \in sessions' : \A m \in Seen(s)' :
          m.id <= Cursor(s)' /\ m.id \notin late'[s] => m.id \in summarised'[s]
    BY <1>8, <2>1, <2>2, <2>3, <2>4
  <2>6. \A k \in Compactors : compacting[k] # x
    BY <1>8, RootAssumption
  <2>7. \A k \in Compactors : \A s \in sessions' : compacting'[k] = s =>
          /\ loaded'[k] \subseteq Seen(s)'
          /\ \A m \in Seen(s)' : m.id > Cursor(s)' /\ m.id \notin late'[s] =>
               m \in loaded'[k] \/ \A n \in loaded'[k] : n.id < m.id
    BY <1>8, <2>1, <2>2, <2>3, <2>6
  <2>8. \A s \in sessions' :
          Cursor(s)' = 0 \/ \E m \in Seen(s)' : m.id = Cursor(s)'
    BY <1>8, <2>1, <2>2, <2>3, <2>4
  <2>9. \A s \in sessions' : \A m \in Seen(s)' :
          m.id \in summarised'[s] /\ m.id > Cursor(s)' =>
            \E n \in Seen(s)' : n.id < m.id /\ m.at < n.at
    BY <1>8, <2>1, <2>2, <2>3, <2>4
  <2> QED
    BY <1>7, <2>5, <2>7, <2>8, <2>9
<1>13. ASSUME NEW x \in SessionIds \ sessions, NEW p \in sessions,
              \/ CreateSubagentSession(x, p)
              \/ \E m \in messages : ForkSession(x, p, m)
       PROVE  SentInv'
  <2>1. 0 \in 0..lastID /\ \A m \in messages : m.id \in 0..lastID
    BY BoundsAssumption DEF Typed, Rows
  <2> QED
    BY <1>12, <1>13, <2>1 DEF CreateSubagentSession, ForkSession
<1>14. ASSUME NEW w \in Writers, InsertMessage(w)
       PROVE  SentInv'
  <2>1. UNCHANGED <<treeVars, markers, summarised, compacting, loaded>>
    BY <1>14 DEF InsertMessage, compactVars
  <2>2. CASE messages' = messages /\ late' = late
    BY <1>2, <2>1, <2>2
  <2>3. CASE messages' # messages
    <3> DEFINE r == row[w]
    <3>1. /\ r \in Rows /\ r.id \notin Ids(messages) /\ messages' = messages \cup {r}
          /\ \A s \in SessionIds : late[s] \subseteq late'[s]
          /\ \A s \in sessions : r \in Seen(s)' /\ r.id \notin late'[s] =>
               \A n \in Seen(s) : n.id < r.id
      BY <1>14, <2>3, Inserted DEF IdsInv
    <3>2. \A s : Seen(s)' = {m \in messages' :
            \E a \in {Forks(parent, fork, s, Depth)[d] : d \in 0..Depth} : UpToCutoff(m, a)}
      BY <2>1 DEF Seen, Vis, Forks, Above, UpToCutoff, treeVars
    <3> HIDE DEF r
    <3>3. \A s : Seen(s) \subseteq Seen(s)' /\ Seen(s)' \subseteq Seen(s) \cup {r}
      BY <3>1, <3>2 DEF Seen, Vis
    <3>4. \A s : Cursor(s)' = Cursor(s)
      BY <1>1, <2>1
    <3>5. /\ sessions' = sessions /\ summarised' = summarised
          /\ compacting' = compacting /\ loaded' = loaded
      BY <2>1 DEF treeVars
    <3>6. r.id \in Nat /\ r.id > 0 /\ \A s \in sessions : r.id \notin summarised[s]
      <4>1. r.id \in 1..lastID /\ lastID \in Nat
        BY <3>1, BoundsAssumption DEF Rows, Typed
      <4>2. \A s \in sessions : summarised[s] \subseteq Ids(messages)
        BY DEF Typed
      <4> QED
        BY <3>1, <4>1, <4>2
    <3>7. ASSUME NEW s \in sessions, r \in Seen(s)', r.id \notin late'[s]
          PROVE  Cursor(s) < r.id
      <4>1. \A n \in Seen(s) : n.id < r.id
        BY <3>1, <3>7
      <4> QED
        BY <1>8, <3>6, <4>1
    <3>8. ASSUME NEW s \in sessions, NEW m \in Seen(s)', m.id <= Cursor(s), m.id \notin late'[s]
          PROVE  m.id \in summarised[s]
      <4>1. CASE m \in Seen(s)
        BY <1>8, <3>1, <3>8, <4>1
      <4>2. CASE m = r
        BY <1>8, <1>11, <3>6, <3>7, <3>8, <4>2
      <4> QED
        BY <3>3, <4>1, <4>2
    <3>9. ASSUME NEW s \in sessions, NEW m \in Seen(s)', m.id \in summarised[s], m.id > Cursor(s)
          PROVE  \E n \in Seen(s)' : n.id < m.id /\ m.at < n.at
      <4>1. m \in Seen(s)
        BY <3>3, <3>6, <3>9
      <4> QED
        BY <1>8, <3>3, <3>9, <4>1
    <3>10. ASSUME NEW k \in Compactors, NEW s \in sessions, compacting[k] = s
           PROVE  /\ loaded[k] \subseteq Seen(s)'
                  /\ \A m \in Seen(s)' : m.id > Cursor(s) /\ m.id \notin late'[s] =>
                       m \in loaded[k] \/ \A n \in loaded[k] : n.id < m.id
      <4>1. loaded[k] \subseteq Seen(s) /\ loaded[k] \subseteq Seen(s)'
        BY <1>8, <3>3, <3>10
      <4>2. ASSUME NEW m \in Seen(s)', m.id > Cursor(s), m.id \notin late'[s]
            PROVE  m \in loaded[k] \/ \A n \in loaded[k] : n.id < m.id
        <5>1. CASE m \in Seen(s)
          BY <1>8, <3>1, <3>10, <4>2, <5>1
        <5>2. CASE m = r
          BY <3>1, <4>1, <4>2, <5>2
        <5> QED
          BY <3>3, <5>1, <5>2
      <4> QED
        BY <4>1, <4>2
    <3>11. \A s \in sessions' :
             Cursor(s)' = 0 \/ \E m \in Seen(s)' : m.id = Cursor(s)'
      BY <1>8, <3>3, <3>4, <3>5
    <3>12. \A s \in sessions' : \A m \in Seen(s)' :
             m.id <= Cursor(s)' /\ m.id \notin late'[s] => m.id \in summarised'[s]
      BY <3>4, <3>5, <3>8
    <3>13. \A s \in sessions' : \A m \in Seen(s)' :
             m.id \in summarised'[s] /\ m.id > Cursor(s)' =>
               \E n \in Seen(s)' : n.id < m.id /\ m.at < n.at
      BY <3>4, <3>5, <3>9
    <3>14. \A k \in Compactors : \A s \in sessions' : compacting'[k] = s =>
             /\ loaded'[k] \subseteq Seen(s)'
             /\ \A m \in Seen(s)' : m.id > Cursor(s)' /\ m.id \notin late'[s] =>
                  m \in loaded'[k] \/ \A n \in loaded'[k] : n.id < m.id
      BY <3>4, <3>5, <3>10
    <3> QED
      BY <1>7, <3>11, <3>12, <3>13, <3>14
  <2>4. (messages' = messages /\ late' = late) \/ messages' # messages
    <3>1. row[w].id \notin Ids(messages) => messages \cup {row[w]} # messages
      BY DEF Ids
    <3>2. writer[w] = "insert"
      BY <1>14 DEF InsertMessage
    <3>3. row[w].id \notin Ids(messages)
      BY <3>2 DEF IdsInv, RowInv
    <3> QED
      BY <1>14, <3>1, <3>3 DEF InsertMessage
  <2> QED
    BY <2>2, <2>3, <2>4
<1>15. ASSUME UNCHANGED <<treeVars, messages>>, NEW s PROVE Seen(s)' = Seen(s)
  BY <1>15 DEF Seen, Vis, Forks, Above, UpToCutoff, treeVars
<1>16. ASSUME NEW k \in Compactors, NEW s \in sessions, CompactLoads(k, s)
       PROVE  SentInv'
  <2>1. /\ UNCHANGED <<treeVars, messages, markers, summarised, late>>
        /\ compacting'[k] = s /\ loaded'[k] = MessagesSinceLatestMarker(s)
        /\ \A j \in Compactors \ {k} :
             compacting'[j] = compacting[j] /\ loaded'[j] = loaded[j]
        /\ compacting' \in [Compactors -> SessionIds \cup {None}]
    BY <1>8, <1>16 DEF CompactLoads, historyVars, Typed
  <2>2. /\ \A t : Cursor(t)' = Cursor(t)
        /\ \A t : Seen(t)' = Seen(t)
        /\ sessions' = sessions
    BY <1>1, <1>15, <2>1 DEF treeVars
  <2>3. \A m \in Seen(s) : m.id > Cursor(s) => m \in loaded'[k]
    BY <2>1, VisibleIs
       DEF MessagesSinceLatestMarker, MessagesForSession, AfterCursor, Seen
  <2>4. loaded'[k] \subseteq Seen(s)
    BY <2>1, VisibleIs DEF MessagesSinceLatestMarker, MessagesForSession, Seen
  <2>5. \A t \in sessions' : \A m \in Seen(t)' :
          /\ m.id <= Cursor(t)' /\ m.id \notin late'[t] => m.id \in summarised'[t]
          /\ m.id \in summarised'[t] /\ m.id > Cursor(t)' =>
               \E n \in Seen(t)' : n.id < m.id /\ m.at < n.at
    BY <1>8, <2>1, <2>2
  <2>6. \A t \in sessions' :
          Cursor(t)' = 0 \/ \E m \in Seen(t)' : m.id = Cursor(t)'
    BY <1>8, <2>2
  <2>7. \A j \in Compactors : \A t \in sessions' : compacting'[j] = t =>
          /\ loaded'[j] \subseteq Seen(t)'
          /\ \A m \in Seen(t)' : m.id > Cursor(t)' /\ m.id \notin late'[t] =>
               m \in loaded'[j] \/ \A n \in loaded'[j] : n.id < m.id
    BY <1>8, <2>1, <2>2, <2>3, <2>4
  <2> QED
    BY <1>7, <2>5, <2>6, <2>7
<1>17. ASSUME NEW k \in Compactors, AddCompactionMarker(k)
       PROVE  SentInv'
  <2> DEFINE L == Latest(loaded[k])
  <2>1. PICK s \in SessionIds : s = compacting[k] /\ s # None
    BY <1>17 DEF AddCompactionMarker, Typed
  <2>2. /\ s \in sessions /\ Cursor(s)' = L.id /\ L \in loaded[k] /\ Cursor(s) < L.id
        /\ \A t \in SessionIds \ {s} : Cursor(t)' = Cursor(t)
    BY <1>17, <2>1, CursorMoves
  <2>3. \A n \in loaded[k] \ {L} : Before(n, L)
    BY <2>1, LatestLoaded
  <2>4. loaded[k] \subseteq messages /\ loaded[k] \subseteq Seen(s)
    BY <1>8, <2>1, <2>2 DEF Typed
  <2>5. /\ UNCHANGED <<treeVars, messages>> /\ sessions' = sessions
        /\ compacting'[k] = None /\ late' = late
        /\ \A j \in Compactors \ {k} :
             compacting'[j] = compacting[j] /\ loaded'[j] = loaded[j]
        /\ compacting' \in [Compactors -> SessionIds \cup {None}]
    BY <1>8, <1>17 DEF AddCompactionMarker, CompactReturns, Typed, treeVars
  <2>6. /\ summarised'[s] = summarised[s] \cup Ids(loaded[k])
        /\ \A t \in SessionIds \ {s} : summarised'[t] = summarised[t]
    BY <1>17, <2>1 DEF AddCompactionMarker, Typed
  <2>7. \A t : Seen(t)' = Seen(t)
    BY <1>15, <2>5
  <2> HIDE DEF L
  <2>8. ASSUME NEW m \in Seen(s)
        PROVE  m.id \in Int /\ L.id \in Int /\ Cursor(s) \in Int /\ m \in messages
    BY <1>9, <1>10, <1>11, <2>2, <2>4
  <2>9. ASSUME NEW m \in Seen(s), m.id <= L.id, m.id \notin late[s]
        PROVE  m.id \in summarised'[s]
    <3>1. CASE m.id <= Cursor(s)
      BY <1>8, <2>2, <2>6, <2>9, <3>1
    <3>2. CASE m.id > Cursor(s)
      <4>1. m \in loaded[k] \/ \A n \in loaded[k] : n.id < m.id
        BY <1>8, <2>1, <2>2, <2>9, <3>2
      <4>2. m \in loaded[k]
        BY <2>2, <2>8, <2>9, <4>1
      <4> QED
        BY <2>6, <4>2 DEF Ids
    <3> QED
      BY <2>8, <3>1, <3>2
  <2>10. ASSUME NEW m \in Seen(s), m.id \in summarised'[s], m.id > L.id
         PROVE  \E n \in Seen(s) : n.id < m.id /\ m.at < n.at
    <3>1. CASE m.id \in summarised[s]
      <4>1. m.id > Cursor(s)
        BY <2>2, <2>8, <2>10
      <4> QED
        BY <1>8, <2>2, <3>1, <4>1
    <3>2. CASE m.id \in Ids(loaded[k])
      <4>1. m \in loaded[k]
        BY <2>4, <2>8, <3>2 DEF Ids, IdsInv, RowInv
      <4>2. m # L
        BY <2>8, <2>10
      <4>3. Before(m, L)
        BY <2>3, <4>1, <4>2
      <4>4. m.at < L.at /\ L.id < m.id
        BY <2>8, <2>10, <4>3 DEF Before
      <4> QED
        BY <2>2, <2>4, <4>4
    <3> QED
      BY <2>6, <2>10, <3>1, <3>2
  <2>11. \A t \in sessions' : \A m \in Seen(t)' :
           m.id <= Cursor(t)' /\ m.id \notin late'[t] => m.id \in summarised'[t]
    <3>1. \A m \in Seen(s)' :
            m.id <= Cursor(s)' /\ m.id \notin late'[s] => m.id \in summarised'[s]
      BY <2>2, <2>5, <2>7, <2>9
    <3>2. \A t \in sessions \ {s} : \A m \in Seen(t)' :
            m.id <= Cursor(t)' /\ m.id \notin late'[t] => m.id \in summarised'[t]
      BY <1>8, <2>2, <2>5, <2>6, <2>7
    <3> QED
      BY <2>5, <3>1, <3>2
  <2>12. \A t \in sessions' : \A m \in Seen(t)' :
           m.id \in summarised'[t] /\ m.id > Cursor(t)' =>
             \E n \in Seen(t)' : n.id < m.id /\ m.at < n.at
    <3>1. \A m \in Seen(s)' : m.id \in summarised'[s] /\ m.id > Cursor(s)' =>
            \E n \in Seen(s)' : n.id < m.id /\ m.at < n.at
      BY <2>2, <2>7, <2>10
    <3>2. \A t \in sessions \ {s} : \A m \in Seen(t)' :
            m.id \in summarised'[t] /\ m.id > Cursor(t)' =>
              \E n \in Seen(t)' : n.id < m.id /\ m.at < n.at
      BY <1>8, <2>2, <2>5, <2>6, <2>7
    <3> QED
      BY <2>5, <3>1, <3>2
  <2>13. \A t \in sessions' :
           Cursor(t)' = 0 \/ \E m \in Seen(t)' : m.id = Cursor(t)'
    <3>1. L \in Seen(s)
      BY <2>2, <2>4
    <3> QED
      BY <1>8, <2>2, <2>5, <2>7, <3>1
  <2>14. \A j \in Compactors : \A t \in sessions' : compacting'[j] = t =>
           /\ loaded'[j] \subseteq Seen(t)'
           /\ \A m \in Seen(t)' : m.id > Cursor(t)' /\ m.id \notin late'[t] =>
                m \in loaded'[j] \/ \A n \in loaded'[j] : n.id < m.id
    <3> SUFFICES ASSUME NEW j \in Compactors, NEW t \in sessions, compacting'[j] = t
                 PROVE  /\ loaded'[j] \subseteq Seen(t)
                        /\ \A m \in Seen(t) : m.id > Cursor(t)' /\ m.id \notin late[t] =>
                             m \in loaded'[j] \/ \A n \in loaded'[j] : n.id < m.id
      BY <2>5, <2>7
    <3>1. j # k /\ compacting[j] = t /\ loaded'[j] = loaded[j]
      BY <1>8, <2>5, RootAssumption
    <3>2. t # s /\ t \in SessionIds
      BY <1>8, <2>1, <3>1, RootAssumption DEF CursorInv
    <3> QED
      BY <1>8, <2>2, <3>1, <3>2
  <2> QED
    BY <1>7, <2>11, <2>12, <2>13, <2>14
<1> QED
  BY <1>3, <1>4, <1>5, <1>6, <1>13, <1>14, <1>16, <1>17 DEF Next

(* The invariant is the property.                                          *)
LEMMA SentMeans == Typed /\ CursorInv /\ SentInv => SummarisedOrSent
<1> SUFFICES ASSUME Typed, CursorInv, SentInv, NEW s \in sessions, NEW m \in MessagesForSession(s)
             PROVE  LET sent == Ids(MessagesSinceLatestMarker(s)) IN
                    /\ m.id \notin late[s] => m.id \in summarised[s] \cup sent
                    /\ m.id \in summarised[s] \cap sent =>
                         \E n \in MessagesForSession(s) : n.id < m.id /\ m.at < n.at
  BY DEF SummarisedOrSent
<1> DEFINE sent == Ids(MessagesSinceLatestMarker(s))
<1>1. MessagesForSession(s) = Seen(s)
  BY VisibleIs DEF MessagesForSession, Seen
<1>2. m.id \in sent <=> m.id > Cursor(s)
  BY DEF MessagesSinceLatestMarker, AfterCursor, Ids
<1>3. m.id \in Int /\ Cursor(s) \in Int
  <2>1. Seen(s) \subseteq messages /\ \A n \in messages : n.id \in Int
    BY DEF Seen, Vis, Typed, Rows
  <2>2. Cursor(s) \in 0..lastID
    BY CursorType DEF Typed
  <2> QED
    BY <1>1, <2>1, <2>2
<1> HIDE DEF sent
<1>4. m.id \notin late[s] => m.id \in summarised[s] \cup sent
  BY <1>1, <1>2, <1>3 DEF SentInv
<1>5. m.id \in summarised[s] \cap sent =>
        \E n \in MessagesForSession(s) : n.id < m.id /\ m.at < n.at
  BY <1>1, <1>2 DEF SentInv
<1> QED
  BY <1>4, <1>5 DEF sent

(* The first state is in order.                                            *)
LEMMA SentInit == Init => SentInv
<1> SUFFICES ASSUME Init PROVE SentInv
  OBVIOUS
<1>1. /\ \A s : Seen(s) = {}
      /\ \A s \in sessions : Cursor(s) = 0
  BY RootAssumption DEF Init, Seen, Vis, Cursor
<1>2. \A k \in Compactors : \A s \in sessions : compacting[k] # s
  BY RootAssumption DEF Init
<1> QED
  BY <1>1, <1>2 DEF SentInv

(* Compaction (Compact, MessagesSinceLatestMarker), for any number of      *)
(* goroutines that append: every message a session shows is in a stored    *)
(* summary or is sent, unless it was inserted when the session already     *)
(* showed one of a greater id; and it is in both only if its id and its    *)
(* time disagree with another's.                                           *)
THEOREM NothingForgottenOrRepeated == Spec => []SummarisedOrSent
<1> DEFINE Inv == StoreInv /\ SentInv
<1>1. Init => Inv
  BY TypeInit, StoreInit, SentInit DEF StoreInv
<1>2. Inv /\ [Next]_vars => Inv'
  <2>1. StoreInv /\ [Next]_vars => StoreInv'
    BY StoreStep
  <2>2. Inv /\ [Next]_vars => SentInv'
    BY SentStep DEF StoreInv
  <2> QED
    BY <2>1, <2>2
<1>3. Inv => SummarisedOrSent
  BY SentMeans DEF StoreInv
<1> QED
  <2> HIDE DEF Inv
  <2> QED
    BY <1>1, <1>2, <1>3, PTL DEF Spec

-----------------------------------------------------------------------------
(* Forks of forks.                                                         *)

(* A shorter look up the chain is the beginning of a longer one.           *)
LEMMA ForkPrefix ==
  ASSUME NEW S, NEW par, NEW frk, Tree(S, par, frk), NEW s \in S,
         NEW n \in Nat, NEW m \in Nat, n <= m
  PROVE  \A d \in 0..n : Forks(par, frk, s, n)[d] = Forks(par, frk, s, m)[d]
<1> DEFINE c == Forks(par, frk, s, n)
           e == Forks(par, frk, s, m)
           f == [d \in 0..n |-> e[d]]
           A == Ancestors(S)
           g == Climb(par, frk, S)
<1>1. Iterates(c, n, A, g, Itself(s)) /\ Iterates(e, m, A, g, Itself(s))
  BY ForkSteps
<1>2. 0..n \subseteq 0..m /\ 1..n \subseteq 1..m /\ 0 \in 0..n
      /\ \A d \in 1..n : d \in 0..n /\ d - 1 \in 0..n
  OBVIOUS
<1> HIDE DEF c, e, A, g
<1>3. Iterates(f, n, A, g, Itself(s))
  BY <1>1, <1>2 DEF Iterates
<1>4. c = f
  <2> HIDE DEF f
  <2> QED
    BY <1>1, <1>3, IterationUnique
<1> QED
  BY <1>4 DEF c, e

(* Looking further up than the chain goes shows nothing more.              *)
LEMMA VisBeyond ==
  ASSUME NEW S, NEW par, NEW frk, Tree(S, par, frk), NEW s \in S,
         NEW n \in Nat, NEW m \in Nat, n <= m,
         \A d \in (n + 1)..m : Forks(par, frk, s, m)[d] = NoAncestor,
         NEW msgs, \A r \in msgs : r.session \in S
  PROVE  Vis(msgs, par, frk, s, n) = Vis(msgs, par, frk, s, m)
<1> DEFINE c == Forks(par, frk, s, n)
           e == Forks(par, frk, s, m)
<1>1. \A d \in 0..n : c[d] = e[d]
  BY ForkPrefix
<1>2. \A d \in (n + 1)..m : e[d] = NoAncestor
  OBVIOUS
<1>3. \A d \in 0..m : d \in 0..n \/ d \in (n + 1)..m
  OBVIOUS
<1>4. 0..n \subseteq 0..m
  OBVIOUS
<1>5. \A r \in msgs : ~UpToCutoff(r, NoAncestor)
  BY RootAssumption DEF UpToCutoff, NoAncestor, Tree
<1> HIDE DEF c, e
<1>6. \A r \in msgs : (\E d \in 0..n : UpToCutoff(r, c[d])) <=>
                        (\E d \in 0..m : UpToCutoff(r, e[d]))
  BY <1>1, <1>2, <1>3, <1>4, <1>5
<1>7. /\ Vis(msgs, par, frk, s, n) = {r \in msgs : \E d \in 0..n : UpToCutoff(r, c[d])}
      /\ Vis(msgs, par, frk, s, m) = {r \in msgs : \E d \in 0..m : UpToCutoff(r, e[d])}
  BY DEF Vis, c, e
<1> QED
  BY <1>6, <1>7

-----------------------------------------------------------------------------
(* What a fork inherits.                                                   *)
Everything == Cardinality(SessionIds)
All(s) == Vis(messages, parent, fork, s, Everything)
Inherits(msgs, par, frk, s) ==
  {m \in Vis(msgs, par, frk, s, Everything) : m.session # s}
Inherited(s) == Ids(Inherits(messages, parent, fork, s))

(* The cut-offs of a session's ancestors.                                  *)
Cutoffs(par, frk, s) ==
  {Forks(par, frk, s, Everything)[d].cutoff :
     d \in {k \in 1..Everything : Forks(par, frk, s, Everything)[k].session # None}}

(* Above a fork there are fewer sessions than there are in all.            *)
ChainsEnd == \A s \in sessions :
  Forks(parent, fork, s, Everything)[Cardinality(sessions)].session = None

(* What a fork was to show at the least and at the most.                   *)
Prefix(s) == {i \in atFork[s] : i <= fork[s]}
Allowed(s) ==
  IF \E m \in messages : m.id = fork[s] /\ m.session = parent[s]
  THEN Prefix(s) ELSE atFork[s]

(* The message of every cut-off is inherited, so that a row that is        *)
(* inserted below it comes late; a session's own messages are younger than *)
(* its cut-offs, so that a fork at one of them cuts below those; and a     *)
(* fork shows of others what it was to show.                               *)
ForkInv ==
  /\ ChainsEnd
  /\ \A s \in sessions : Cutoffs(parent, fork, s) \subseteq Inherited(s)
  /\ \A m \in messages : \A c \in Cutoffs(parent, fork, m.session) : c < m.id
  /\ \A w \in Writers : writer[w] \in {"stamp", "insert"} =>
       \A c \in Cutoffs(parent, fork, row[w].session) : c < row[w].id
  /\ \A s \in sessions : fork[s] # 0 => Prefix(s) \subseteq Inherited(s)
  /\ \A s \in sessions : fork[s] # 0 /\ ~TooDeep(s) =>
       Inherited(s) \ late[s] \subseteq Allowed(s)

(* How many sessions there are.                                            *)
LEMMA SessionCount ==
  ASSUME Typed
  PROVE  /\ Everything \in Nat /\ IsFiniteSet(sessions)
         /\ Cardinality(sessions) \in 1..Everything
         /\ \A x \in SessionIds \ sessions :
              /\ Cardinality(sessions \cup {x}) = Cardinality(sessions) + 1
              /\ Cardinality(sessions) < Everything
<1>1. Everything \in Nat
  BY FiniteAssumption, FS_CardinalityType DEF Everything
<1>2. IsFiniteSet(sessions) /\ Cardinality(sessions) <= Everything
  BY FiniteAssumption, FS_Subset DEF Typed, Everything
<1>3. Cardinality(sessions) \in Nat /\ Cardinality(sessions) # 0
  BY <1>2, FS_CardinalityType, FS_EmptySet DEF Typed
<1>4. ASSUME NEW x \in SessionIds \ sessions
      PROVE  /\ Cardinality(sessions \cup {x}) = Cardinality(sessions) + 1
             /\ Cardinality(sessions) < Everything
  <2>1. Cardinality(sessions \cup {x}) = Cardinality(sessions) + 1
    BY <1>2, FS_AddElement
  <2>2. sessions \cup {x} \subseteq SessionIds
    BY DEF Typed
  <2>3. Cardinality(sessions \cup {x}) <= Everything
    BY <2>2, FiniteAssumption, FS_Subset DEF Everything
  <2> QED
    BY <1>1, <1>3, <2>1, <2>3
<1> QED
  BY <1>1, <1>2, <1>3, <1>4

(* Within the depth that is allowed, a session shows everything.           *)
LEMMA ShownWithinDepth ==
  ASSUME Typed, ChainsEnd, NEW s \in sessions, ~TooDeep(s),
         NEW msgs, \A m \in msgs : m.session \in sessions
  PROVE  Vis(msgs, parent, fork, s, MaxForkDepth) = Vis(msgs, parent, fork, s, Everything)
<1> DEFINE D == MaxForkDepth
           N == Everything
           c == Forks(parent, fork, s, D)
           e == Forks(parent, fork, s, N)
           C == Cardinality(sessions)
<1>1. D \in Nat /\ N \in Nat /\ C \in 0..N
  BY DepthAssumption, SessionCount
<1>2. Tree(sessions, parent, fork)
  BY TreeIs
<1>4. c[D].session = None \/ fork[c[D].session] = 0
  <2>1. c[D].session = None \/ parent[c[D].session] = None
    BY ForkChainIs DEF TooDeep
  <2>2. c \in [0..D -> Ancestors(sessions)] /\ D \in 0..D
    BY <1>1, <1>2, ForkLinks
  <2> HIDE DEF c, D
  <2>3. c[D] \in Ancestors(sessions)
    BY <2>2
  <2>4. c[D].session \in SessionIds \cup {None}
    BY <2>3 DEF Ancestors, Typed
  <2> QED
    BY <2>1, <2>4 DEF Typed
<1>5. e[C].session = None
  BY DEF ChainsEnd
<1> HIDE DEF D, N
<1>6. CASE D <= N
  <2>1. D \in 0..D /\ D \in 0..N
    BY <1>1, <1>6
  <2>2. e[D] = c[D]
    BY <1>1, <1>2, <1>6, <2>1, ForkPrefix
  <2>3. e[D].session = None \/ fork[e[D].session] = 0
    BY <1>4, <2>2
  <2>4. \A d \in (D + 1)..N : e[d] = NoAncestor
    BY <1>1, <1>2, <2>1, <2>3, ForkEnds
  <2>5. Vis(msgs, parent, fork, s, D) = Vis(msgs, parent, fork, s, N)
    BY <1>1, <1>2, <1>6, <2>4, VisBeyond
  <2> QED
    BY <2>5 DEF D, N
<1>7. CASE N <= D
  <2>1. C \in 0..N /\ C \in 0..D /\ \A d \in (N + 1)..D : d \in (C + 1)..D
    BY <1>1, <1>7
  <2>2. c[C] = e[C]
    BY <1>1, <1>2, <1>7, <2>1, ForkPrefix
  <2>3. \A d \in (C + 1)..D : c[d] = NoAncestor
    BY <1>1, <1>2, <1>5, <2>1, <2>2, ForkEnds
  <2>4. \A d \in (N + 1)..D : c[d] = NoAncestor
    BY <2>1, <2>3
  <2>5. Vis(msgs, parent, fork, s, N) = Vis(msgs, parent, fork, s, D)
    BY <1>1, <1>2, <1>7, <2>4, VisBeyond
  <2> QED
    BY <2>5 DEF D, N
<1> QED
  BY <1>1, <1>6, <1>7

(* Past the end of the chain there is no ancestor.                         *)
LEMMA ChainBeyond ==
  ASSUME Typed, ChainsEnd, NEW p \in sessions, Cardinality(sessions) < Everything
  PROVE  Forks(parent, fork, p, Everything)[Everything] = NoAncestor
<1> DEFINE N == Everything
           C == Cardinality(sessions)
           e == Forks(parent, fork, p, N)
<1>1. N \in Nat /\ C \in 1..N /\ C < N
  BY SessionCount
<1>2. Tree(sessions, parent, fork) /\ e[C].session = None
  BY TreeIs DEF ChainsEnd
<1> HIDE DEF N, C
<1>3. C \in 0..N /\ N \in (C + 1)..N
  BY <1>1
<1> QED
  BY <1>1, <1>2, <1>3, ForkEnds DEF N, C

(* A fork is at a message its parent showed.  It inherits nothing else     *)
(* than its parent showed; all its parent inherited and, of the parent's   *)
(* own, what is up to the fork message; and its cut-offs are its parent's  *)
(* and the fork message.                                                   *)
LEMMA ForkShows ==
  ASSUME Typed, ForkInv, NEW x \in SessionIds \ sessions,
         NEW p \in sessions, NEW r \in All(p), CreateSession(x, p, r.id)
  PROVE  /\ Inherits(messages', parent', fork', x) \subseteq All(p)
         /\ \A m \in All(p) : m.session # p \/ m.id <= r.id =>
              m \in Inherits(messages', parent', fork', x)
         /\ Cutoffs(parent', fork', x) \subseteq {r.id} \cup Cutoffs(parent, fork, p)
         /\ r.session = p => \A m \in Inherits(messages', parent', fork', x) : m.id <= r.id
<1> DEFINE N == Everything
           c == Forks(parent', fork', x, N)
           e == Forks(parent, fork, p, N)
<1>1. /\ sessions' = sessions \cup {x} /\ messages' = messages
      /\ parent' = [parent EXCEPT ![x] = p] /\ fork' = [fork EXCEPT ![x] = r.id]
  BY DEF CreateSession
<1>2. N \in Nat \ {0} /\ lastID \in Nat /\ Cardinality(sessions) < N
  <2>1. N \in Nat /\ Cardinality(sessions) \in 1..N /\ Cardinality(sessions) < N
    BY SessionCount
  <2> HIDE DEF N
  <2> QED
    BY <2>1, BoundsAssumption DEF Typed
<1>3. /\ \A m \in messages : m.session \in sessions /\ m.id \in 1..lastID
      /\ r \in messages
  BY DEF Typed, Rows, All, Vis
<1>4. /\ \A m \in messages : /\ m.id \in Nat /\ m.id # 0 /\ m.session # None
                             /\ m.session # x
      /\ r.id \in 0..lastID
  BY <1>2, <1>3, RootAssumption DEF Typed
<1>5. Tree(sessions, parent, fork) /\ Tree(sessions', parent', fork')
      /\ Forks(parent', fork', p, N) = e
  BY <1>2, <1>4, TreeIs, CreateKeeps
<1>6. x \in sessions' /\ p \in sessions' /\ parent'[x] = p /\ fork'[x] = r.id
  BY <1>1 DEF Typed
<1>7. /\ c[1] = [session |-> p, cutoff |-> r.id]
      /\ \A d \in 1..(N - 1) : c[d + 1] = e[d]
  <2>1. fork'[x] # 0
    BY <1>3, <1>4, <1>6
  <2> HIDE DEF N
  <2>2. /\ c[1] = [session |-> p, cutoff |-> fork'[x]]
        /\ \A d \in 1..(N - 1) : c[d + 1] = Forks(parent', fork', p, N)[d]
    BY <1>2, <1>5, <1>6, <2>1, ForkShift
  <2> QED
    BY <1>5, <1>6, <2>2
<1>8. c[0] = Itself(x) /\ e[0] = Itself(p)
  BY <1>2, <1>5, <1>6, ForkLinks
<1>9. e[N] = NoAncestor
  BY <1>2, ChainBeyond DEF ForkInv
<1>10. ASSUME NEW d \in 1..N, e[d].session # None
       PROVE  /\ e[d].cutoff \in Nat /\ 0 < e[d].cutoff
              /\ e[d].cutoff \in Cutoffs(parent, fork, p)
              /\ r.session = p => e[d].cutoff < r.id
  <2>1. e[d].cutoff \in Cutoffs(parent, fork, p)
    BY <1>10 DEF Cutoffs
  <2>2. e[d].cutoff \in Inherited(p)
    BY <2>1 DEF ForkInv
  <2>3. \E m \in messages : e[d].cutoff = m.id
    BY <2>2 DEF Inherited, Inherits, Ids, Vis
  <2>4. r.session = p => e[d].cutoff < r.id
    BY <1>3, <2>1 DEF ForkInv
  <2> HIDE DEF e
  <2> QED
    BY <1>4, <2>1, <2>3, <2>4
<1>11. /\ \A d \in 0..N : d = 0 \/ d = 1 \/ (d \in 2..N /\ d - 1 \in 1..(N - 1))
       /\ \A d \in 0..N : d = 0 \/ d \in 1..(N - 1) \/ d = N
       /\ \A d \in 1..(N - 1) : d \in 0..N /\ d \in 1..N /\ d + 1 \in 0..N /\ d + 1 \in 1..N
       /\ \A d \in 2..N : (d - 1) + 1 = d
       /\ 0 \in 0..N /\ 1 \in 0..N /\ 1 \in 1..N
  <2> HIDE DEF N
  <2> QED
    BY <1>2
<1>12. /\ \A m : m \in Inherits(messages', parent', fork', x) <=>
                   m \in messages /\ \E d \in 0..N : UpToCutoff(m, c[d])
       /\ \A m : m \in All(p) <=> m \in messages /\ \E d \in 0..N : UpToCutoff(m, e[d])
  <2>1. Inherits(messages', parent', fork', x) =
          {m \in Vis(messages, parent', fork', x, N) : m.session # x}
    BY <1>1 DEF Inherits
  <2> QED
    BY <1>4, <2>1 DEF Vis, All
<1>13. \A d \in 1..N : c[d].session # None =>
         c[d].cutoff \in {r.id} \cup Cutoffs(parent, fork, p)
  <2> HIDE DEF c, e, N
  <2>1. ASSUME NEW d \in 1..N, c[d].session # None, d # 1
        PROVE  c[d].cutoff \in Cutoffs(parent, fork, p)
    <3>1. d - 1 \in 1..(N - 1) /\ c[d] = e[d - 1] /\ d - 1 \in 1..N
      <4>1. d \in 0..N /\ d # 0
        BY <1>2
      <4>2. d \in 2..N /\ d - 1 \in 1..(N - 1)
        BY <1>11, <2>1, <4>1
      <4> QED
        BY <1>7, <1>11, <4>2
    <3> QED
      BY <1>10, <2>1, <3>1
  <2> QED
    BY <1>7, <2>1
<1>14. Cutoffs(parent', fork', x) \subseteq {r.id} \cup Cutoffs(parent, fork, p)
  BY <1>13 DEF Cutoffs
<1> HIDE DEF c, e, N
<1>15. ASSUME NEW m \in messages, NEW d \in 0..N, UpToCutoff(m, c[d])
       PROVE  /\ \E b \in 0..N : UpToCutoff(m, e[b])
              /\ r.session = p => m.id <= r.id
  <2>1. d # 0
    BY <1>4, <1>8, <1>15 DEF Itself, UpToCutoff
  <2>2. CASE d = 1
    <3>1. UpToCutoff(m, e[0]) /\ m.id <= r.id
      BY <1>3, <1>4, <1>7, <1>8, <1>15, <2>2 DEF Itself, UpToCutoff
    <3> QED
      BY <1>11, <3>1
  <2>3. CASE d \in 2..N /\ d - 1 \in 1..(N - 1)
    <3>1. UpToCutoff(m, e[d - 1]) /\ d - 1 \in 0..N /\ d - 1 \in 1..N
      BY <1>7, <1>11, <1>15, <2>3
    <3>2. e[d - 1].session # None
      BY <1>4, <3>1 DEF UpToCutoff
    <3>3. r.session = p => m.id <= r.id
      BY <1>3, <1>4, <1>10, <3>1, <3>2 DEF UpToCutoff
    <3> QED
      BY <3>1, <3>3
  <2> QED
    BY <1>11, <2>1, <2>2, <2>3
<1>16. ASSUME NEW m \in messages, NEW d \in 0..N, UpToCutoff(m, e[d]),
              m.session # p \/ m.id <= r.id
       PROVE  \E b \in 0..N : UpToCutoff(m, c[b])
  <2>1. d # N
    BY <1>4, <1>9, <1>16 DEF NoAncestor, UpToCutoff
  <2>2. CASE d = 0
    <3>1. m.session = p /\ m.id <= r.id
      BY <1>8, <1>16, <2>2 DEF Itself, UpToCutoff
    <3>2. UpToCutoff(m, c[1])
      BY <1>7, <3>1 DEF UpToCutoff
    <3> QED
      BY <1>11, <3>2
  <2>3. CASE d \in 1..(N - 1)
    BY <1>7, <1>11, <1>16, <2>3
  <2> QED
    BY <1>11, <2>1, <2>2, <2>3
<1>17. \A m \in Inherits(messages', parent', fork', x) :
         m \in All(p) /\ (r.session = p => m.id <= r.id)
  BY <1>12, <1>15
<1>18. \A m \in All(p) : m.session # p \/ m.id <= r.id =>
         m \in Inherits(messages', parent', fork', x)
  BY <1>12, <1>16
<1> QED
  BY <1>14, <1>17, <1>18

(* A session that is there stays as deep as it is.                         *)
LEMMA DepthKept ==
  ASSUME Typed, NEW x \in SessionIds \ sessions, NEW p \in sessions,
         NEW f \in 0..lastID, CreateSession(x, p, f), NEW s \in sessions
  PROVE  TooDeep(s)' <=> TooDeep(s)
<1> DEFINE D == MaxForkDepth
           c == Forks(parent, fork, s, D)
<1>1. D \in Nat /\ D \in 0..D
  BY DepthAssumption
<1>2. Forks(parent', fork', s, D) = c
  <2> HIDE DEF D
  <2> QED
    BY <1>1, CreateKeeps
<1>3. c \in [0..D -> Ancestors(sessions)]
  <2> HIDE DEF D
  <2> QED
    BY <1>1, TreeIs, ForkLinks
<1>4. c[D].session \in sessions \cup {None}
  <2> HIDE DEF c, D
  <2>1. c[D] \in Ancestors(sessions)
    BY <1>1, <1>3
  <2> QED
    BY <2>1 DEF Ancestors
<1>5. \A a \in sessions : parent'[a] = parent[a]
  BY DEF CreateSession, Typed
<1>6. /\ TooDeep(s) <=> c[D].session # None /\ parent[c[D].session] # None
      /\ TooDeep(s)' <=> c[D].session # None /\ parent'[c[D].session] # None
  BY <1>2, ForkChainIs DEF TooDeep
<1> HIDE DEF c, D
<1> QED
  BY <1>4, <1>5, <1>6

(* A row that a session comes to inherit has come late: the message of the *)
(* cut-off is there and has a greater id.                                  *)
LEMMA InheritedLate ==
  ASSUME Typed, RowInv, ForkInv, NEW w \in Writers, InsertMessage(w),
         messages' # messages, NEW s \in sessions
  PROVE  /\ Inherited(s) \subseteq Inherited(s)'
         /\ ~TooDeep(s) => Inherited(s)' \ late'[s] \subseteq Inherited(s) \ late[s]
<1> DEFINE r == row[w]
           N == Everything
           D == MaxForkDepth
           c == Forks(parent, fork, s, N)
<1>1. /\ r \in Rows /\ r.id \notin Ids(messages) /\ messages' = messages \cup {r}
      /\ \A t \in SessionIds : late[t] \subseteq late'[t]
      /\ \A t \in sessions : r \in Seen(t)' /\ (\E n \in Seen(t) : r.id < n.id)
           => r.id \in late'[t]
  BY Inserted
<1>2. UNCHANGED <<sessions, parent, fork>>
  BY DEF InsertMessage, treeVars
<1>3. N \in Nat /\ Tree(sessions, parent, fork) /\ c[0] = Itself(s)
  BY SessionCount, TreeIs, ForkLinks
<1>4. Inherited(s)' = Ids(Inherits(messages', parent, fork, s))
  BY <1>2 DEF Inherited, Ids, Inherits, Vis, Forks, Above, UpToCutoff, Everything
<1>5. Seen(s)' = Vis(messages', parent, fork, s, D)
  BY <1>2 DEF Seen, Vis, Forks, Above, UpToCutoff
<1> HIDE DEF r, N, D
<1>6. Inherits(messages, parent, fork, s) \subseteq Inherits(messages', parent, fork, s)
  BY <1>1 DEF Inherits, Vis
<1>7. ASSUME ~TooDeep(s), NEW m \in Inherits(messages', parent, fork, s),
             m \notin Inherits(messages, parent, fork, s)
      PROVE  m.id \in late'[s]
  <2>1. m = r /\ r.session # s
    BY <1>1, <1>7 DEF Inherits, Vis
  <2>2. PICK d \in 0..N : UpToCutoff(r, c[d])
    BY <1>7, <2>1 DEF Inherits, Vis, c, N
  <2>3. d \in 1..N
    <3>1. d # 0
      BY <1>3, <2>1, <2>2 DEF UpToCutoff, Itself
    <3> QED
      BY <1>3, <3>1
  <2>4. c[d].session # None /\ (c[d].cutoff = 0 \/ r.id <= c[d].cutoff)
    <3>1. r.session # None
      BY <1>1, RootAssumption DEF Rows, Typed
    <3> QED
      BY <2>2, <3>1 DEF UpToCutoff
  <2>5. c[d].cutoff \in Cutoffs(parent, fork, s)
    BY <2>3, <2>4 DEF Cutoffs, c, N
  <2>6. PICK n \in All(s) : n.id = c[d].cutoff
    BY <2>5 DEF ForkInv, Inherited, Inherits, Ids, All
  <2>7. n \in messages /\ n.id \in Nat /\ n.id # 0 /\ r.id \in Nat
    <3>1. n \in messages /\ lastID \in Nat
      BY BoundsAssumption DEF All, Vis, Typed
    <3> QED
      BY <1>1, <3>1 DEF Typed, Rows
  <2>8. r.id < n.id
    <3>1. r.id # n.id
      BY <1>1, <2>7 DEF Ids
    <3> QED
      BY <2>4, <2>6, <2>7, <3>1
  <2>9. n \in Seen(s) /\ r \in Seen(s)'
    <3>1. \A o \in messages' : o.session \in sessions
      BY <1>1 DEF Typed, Rows
    <3>2. /\ Vis(messages, parent, fork, s, D) = Vis(messages, parent, fork, s, N)
          /\ Vis(messages', parent, fork, s, D) = Vis(messages', parent, fork, s, N)
      <4>1. ChainsEnd /\ \A o \in messages : o.session \in sessions
        BY DEF ForkInv, Typed, Rows
      <4> QED
        BY <1>7, <3>1, <4>1, ShownWithinDepth DEF D, N
    <3>3. n \in Vis(messages, parent, fork, s, N)
      BY <2>6 DEF All, N
    <3>4. r \in Vis(messages', parent, fork, s, N)
      BY <1>7, <2>1 DEF Inherits, N
    <3> QED
      BY <1>5, <3>2, <3>3, <3>4 DEF Seen, D
  <2> QED
    BY <1>1, <2>1, <2>8, <2>9
<1>8. Inherited(s) \subseteq Inherited(s)'
  BY <1>4, <1>6 DEF Inherited, Ids
<1>9. ASSUME ~TooDeep(s), NEW i \in Inherited(s)', i \notin late'[s]
      PROVE  i \in Inherited(s) \ late[s]
  <2>1. PICK m \in Inherits(messages', parent, fork, s) : m.id = i
    BY <1>4 DEF Ids
  <2>2. m \in Inherits(messages, parent, fork, s)
    BY <1>7, <1>9, <2>1
  <2>3. i \in Inherited(s)
    BY <2>1, <2>2 DEF Inherited, Ids
  <2> QED
    BY <1>1, <1>9, <2>3 DEF Typed
<1> QED
  BY <1>8, <1>9

(* A fork goes on showing what it was to show.                             *)
LEMMA ForkInvStep == Typed /\ RowInv /\ ForkInv /\ [Next]_vars => ForkInv'
<1> SUFFICES ASSUME Typed, RowInv, ForkInv, [Next]_vars PROVE ForkInv'
  OBVIOUS
<1> DEFINE N == Everything
<1>0. /\ N \in Nat /\ Everything' = N
      /\ \A s : Inherited(s)' = Ids(Inherits(messages', parent', fork', s))
      /\ \A s : Cutoffs(parent, fork, s)' = Cutoffs(parent', fork', s)
  <2>1. N \in Nat /\ Everything' = N
    BY SessionCount DEF Everything
  <2>2. \A s : Inherited(s)' = Ids(Inherits(messages', parent', fork', s))
    BY DEF Inherited, Ids, Inherits, Vis, Forks, Above, UpToCutoff, Everything
  <2>3. \A s : Cutoffs(parent, fork, s)' = Cutoffs(parent', fork', s)
    BY DEF Cutoffs, Forks, Above, Everything
  <2> QED
    BY <2>1, <2>2, <2>3
<1>1. ASSUME UNCHANGED <<treeVars, messages, atFork, late>>,
             \A w \in Writers : writer'[w] \in {"stamp", "insert"} =>
               \A c \in Cutoffs(parent, fork, row'[w].session) : c < row'[w].id
      PROVE  ForkInv'
  <2>1. /\ \A s : Inherited(s)' = Inherited(s)
        /\ \A s : Cutoffs(parent', fork', s) = Cutoffs(parent, fork, s)
        /\ \A s : (TooDeep(s)' <=> TooDeep(s)) /\ Prefix(s)' = Prefix(s)
                  /\ Allowed(s)' = Allowed(s)
        /\ UNCHANGED <<sessions, parent, fork, messages, atFork, late>>
    <3>1. UNCHANGED <<sessions, parent, fork, messages, atFork, late>>
      BY <1>1 DEF treeVars
    <3>2. \A s : TooDeep(s)' <=> TooDeep(s)
      BY <3>1 DEF TooDeep, ForkChain
    <3>3. \A s : Prefix(s)' = Prefix(s) /\ Allowed(s)' = Allowed(s)
      BY <3>1 DEF Prefix, Allowed
    <3> QED
      BY <1>0, <3>1, <3>2, <3>3 DEF Inherited
  <2>2. ChainsEnd'
    BY <1>0, <2>1 DEF ForkInv, ChainsEnd
  <2> QED
    BY <1>0, <1>1, <2>1, <2>2 DEF ForkInv
<1>2. ASSUME UNCHANGED <<treeVars, messages, atFork, late, row>>,
             \A w \in Writers : writer'[w] \in {"stamp", "insert"} => writer'[w] = writer[w]
      PROVE  ForkInv'
  BY <1>1, <1>2 DEF ForkInv
<1>3. CASE UNCHANGED vars
  BY <1>2, <1>3 DEF vars, writeVars, historyVars
<1>4. ASSUME NEW k \in Compactors,
             \/ \E s \in sessions : CompactLoads(k, s)
             \/ AddCompactionMarker(k) \/ CompactFails(k)
      PROVE  ForkInv'
  BY <1>2, <1>4
     DEF CompactLoads, AddCompactionMarker, CompactFails, writeVars, historyVars
<1>5. CASE Crash
  BY <1>1, <1>5 DEF Crash, historyVars
<1>6. ASSUME NEW w \in Writers, RecordUsage(w)
      PROVE  ForkInv'
  <2>1. \A v \in Writers : writer'[v] \in {"stamp", "insert"} =>
          writer'[v] = writer[v] /\ row'[v] = row[v]
    BY <1>6 DEF RecordUsage, Typed
  <2> QED
    BY <1>1, <1>6, <2>1 DEF RecordUsage, historyVars, ForkInv
<1>7. ASSUME NEW w \in Writers, NEW s \in sessions, NewMessageID(w, s)
      PROVE  ForkInv'
  <2>1. /\ row'[w].id = lastID + 1 /\ row'[w].session = s
        /\ \A v \in Writers \ {w} : writer'[v] = writer[v] /\ row'[v] = row[v]
    BY <1>7, NewRow DEF NewMessageID, Typed
  <2>2. \A c \in Cutoffs(parent, fork, s) : c < lastID + 1
    <3>1. Inherited(s) \subseteq Ids(messages)
      BY DEF Inherited, Inherits, Vis, Ids
    <3>2. \A i \in Ids(messages) : i < lastID + 1
      BY BoundsAssumption DEF Typed, Rows, Ids
    <3> QED
      BY <3>1, <3>2 DEF ForkInv
  <2> QED
    BY <1>1, <1>7, <2>1, <2>2 DEF NewMessageID, historyVars, ForkInv
<1>8. ASSUME NEW w \in Writers, StampMessage(w)
      PROVE  ForkInv'
  <2>1. writer[w] = "stamp"
    BY <1>8 DEF StampMessage
  <2>2. /\ row'[w].id = row[w].id /\ row'[w].session = row[w].session
        /\ \A v \in Writers \ {w} : row'[v] = row[v]
    BY <1>8, <2>1, StampedRow DEF RowInv
  <2>3. \A v \in Writers \ {w} : writer'[v] = writer[v]
    BY <1>8 DEF StampMessage, Typed
  <2> QED
    BY <1>1, <1>8, <2>1, <2>2, <2>3 DEF StampMessage, historyVars, ForkInv
<1>9. ASSUME NEW w \in Writers, InsertMessage(w)
      PROVE  ForkInv'
  <2>1. UNCHANGED <<treeVars, atFork>> /\ writer[w] = "insert"
    BY <1>9 DEF InsertMessage
  <2>2. CASE messages' = messages
    <3>1. /\ writer' = [writer EXCEPT ![w] = "idle"] /\ row' = [row EXCEPT ![w] = NoRow]
          /\ late' = late
      BY <1>9, <2>1, <2>2 DEF InsertMessage, RowInv, Ids
    <3> QED
      BY <1>1, <2>1, <2>2, <3>1 DEF Typed, ForkInv
  <2>3. CASE messages' # messages
    <3> DEFINE r == row[w]
    <3>1. /\ r \in Rows /\ r.id \notin Ids(messages) /\ messages' = messages \cup {r}
          /\ row' = row /\ writer' = [writer EXCEPT ![w] = "propagate"]
          /\ \A t \in SessionIds : late[t] \subseteq late'[t]
      BY <1>9, <2>3, Inserted
    <3>2. \A c \in Cutoffs(parent, fork, r.session) : c < r.id
      BY <2>1 DEF ForkInv
    <3> HIDE DEF r
    <3>3. UNCHANGED <<sessions, parent, fork, atFork, row>>
      BY <2>1, <3>1 DEF treeVars
    <3>4. \A s \in sessions : Inherited(s) \subseteq Inherited(s)'
      BY <1>9, <2>3, InheritedLate
    <3>5. \A s \in sessions : ~TooDeep(s) =>
            Inherited(s)' \ late'[s] \subseteq Inherited(s) \ late[s]
      BY <1>9, <2>3, InheritedLate
    <3>6. ChainsEnd'
      BY <1>0, <3>3 DEF ForkInv, ChainsEnd
    <3>7. \A s : (TooDeep(s)' <=> TooDeep(s)) /\ Prefix(s)' = Prefix(s)
      BY <3>3 DEF TooDeep, ForkChain, Prefix
    <3>8. \A s \in sessions : fork[s] # 0 => Allowed(s)' = Allowed(s)
      <4>1. ASSUME NEW s \in sessions, fork[s] # 0 PROVE fork[s] # r.id
        <5>1. fork[s] \in Inherited(s)
          <6> DEFINE c == Forks(parent, fork, s, N)
          <6>1. N \in Nat /\ 1 \in 1..N /\ 0 \in 0..N
            <7>1. N \in Nat /\ Cardinality(sessions) \in 1..N
              BY SessionCount
            <7> HIDE DEF N
            <7> QED
              BY <7>1
          <6>2. c[0] = Itself(s) /\ c[1] = Above(parent, fork, c[1 - 1])
            BY <6>1, TreeIs, ForkLinks
          <6>3. c[1].session = parent[s] /\ c[1].cutoff = fork[s]
            <7>1. s # None
              BY RootAssumption DEF Typed
            <7> HIDE DEF c
            <7> QED
              BY <4>1, <6>2, <7>1 DEF Itself, Above
          <6>4. parent[s] # None
            BY <4>1 DEF Typed
          <6>5. fork[s] \in Cutoffs(parent, fork, s)
            BY <6>1, <6>3, <6>4 DEF Cutoffs
          <6> QED
            BY <6>5 DEF ForkInv
        <5>2. Inherited(s) \subseteq Ids(messages)
          BY DEF Inherited, Inherits, Vis, Ids
        <5> QED
          BY <3>1, <5>1, <5>2
      <4> QED
        BY <3>1, <3>3, <3>7, <4>1 DEF Allowed
    <3>9. \A m \in messages' : \A c \in Cutoffs(parent', fork', m.session) : c < m.id
      BY <3>1, <3>2, <3>3 DEF ForkInv
    <3>10. \A v \in Writers : writer'[v] \in {"stamp", "insert"} =>
             \A c \in Cutoffs(parent', fork', row'[v].session) : c < row'[v].id
      <4>1. \A v \in Writers : writer'[v] = writer[v] \/ writer'[v] = "propagate"
        BY <3>1 DEF Typed
      <4> QED
        BY <3>3, <4>1 DEF ForkInv
    <3>11. \A s \in sessions' : Cutoffs(parent', fork', s) \subseteq Inherited(s)'
      BY <3>3, <3>4 DEF ForkInv
    <3>12. \A s \in sessions' : fork'[s] # 0 => Prefix(s)' \subseteq Inherited(s)'
      BY <3>3, <3>4, <3>7 DEF ForkInv
    <3>13. \A s \in sessions' : fork'[s] # 0 /\ ~TooDeep(s)' =>
             Inherited(s)' \ late'[s] \subseteq Allowed(s)'
      BY <3>3, <3>5, <3>7, <3>8 DEF ForkInv
    <3> QED
      BY <1>0, <3>6, <3>9, <3>10, <3>11, <3>12, <3>13 DEF ForkInv
  <2> QED
    BY <2>2, <2>3
<1>10. ASSUME NEW x \in SessionIds \ sessions, NEW p \in sessions, NEW f \in 0..lastID,
              CreateSession(x, p, f),
              \A s \in sessions : atFork'[s] = atFork[s],
              f # 0 => /\ Cutoffs(parent', fork', x) \subseteq Inherited(x)'
                       /\ Prefix(x)' \subseteq Inherited(x)'
                       /\ Inherited(x)' \subseteq Allowed(x)'
       PROVE  ForkInv'
  <2>1. /\ sessions' = sessions \cup {x} /\ messages' = messages
        /\ writer' = writer /\ row' = row /\ late' = late
        /\ parent'[x] = p /\ fork'[x] = f
        /\ \A s \in sessions : parent'[s] = parent[s] /\ fork'[s] = fork[s]
    BY <1>10 DEF CreateSession, writeVars, Typed
  <2>2. /\ Tree(sessions', parent', fork')
        /\ \A s \in sessions :
             /\ Forks(parent', fork', s, N) = Forks(parent, fork, s, N)
             /\ Vis(messages', parent', fork', s, N) = Vis(messages, parent, fork, s, N)
    <3> HIDE DEF N
    <3> QED
      BY <1>0, <1>10, CreateKeeps
  <2>3. \A s \in sessions :
          /\ Inherited(s)' = Inherited(s)
          /\ Cutoffs(parent', fork', s) = Cutoffs(parent, fork, s)
          /\ TooDeep(s)' <=> TooDeep(s)
          /\ Prefix(s)' = Prefix(s) /\ Allowed(s)' = Allowed(s)
    <3>1. ASSUME NEW s \in sessions PROVE Inherited(s)' = Inherited(s)
      BY <1>0, <2>2 DEF Inherited, Inherits
    <3>2. ASSUME NEW s \in sessions
          PROVE  Cutoffs(parent', fork', s) = Cutoffs(parent, fork, s)
      BY <2>2 DEF Cutoffs
    <3>3. ASSUME NEW s \in sessions PROVE TooDeep(s)' <=> TooDeep(s)
      BY <1>10, DepthKept
    <3>4. ASSUME NEW s \in sessions PROVE Prefix(s)' = Prefix(s) /\ Allowed(s)' = Allowed(s)
      BY <1>10, <2>1 DEF Prefix, Allowed
    <3> QED
      BY <3>1, <3>2, <3>3, <3>4
  <2>4. f = 0 => Cutoffs(parent', fork', x) = {}
    <3> SUFFICES ASSUME f = 0 PROVE Cutoffs(parent', fork', x) = {}
      OBVIOUS
    <3> DEFINE c == Forks(parent', fork', x, N)
    <3>1. x \in sessions' /\ 0 \in 0..N
      BY <1>0, <2>1
    <3>2. c[0] = Itself(x)
      <4> HIDE DEF N
      <4> QED
        BY <1>0, <2>2, <3>1, ForkLinks
    <3>3. fork'[c[0].session] = 0
      BY <2>1, <3>2 DEF Itself
    <3>4. \A d \in (0 + 1)..N : c[d] = NoAncestor
      <4> HIDE DEF N
      <4> QED
        BY <1>0, <2>2, <3>1, <3>3, ForkEnds
    <3>5. \A d \in 1..N : c[d].session = None
      BY <3>4 DEF NoAncestor
    <3> QED
      BY <3>5 DEF Cutoffs
  <2>5. \A m \in messages' : \A c \in Cutoffs(parent', fork', m.session) : c < m.id
    <3>1. \A m \in messages : m.session \in sessions
      BY DEF Typed, Rows
    <3> QED
      BY <2>1, <2>3, <3>1 DEF ForkInv
  <2>6. \A w \in Writers : writer'[w] \in {"stamp", "insert"} =>
          \A c \in Cutoffs(parent', fork', row'[w].session) : c < row'[w].id
    <3>1. \A w \in Writers : writer[w] \in {"stamp", "insert"} => row[w].session \in sessions
      BY DEF RowInv, Rows
    <3> QED
      BY <2>1, <2>3, <3>1 DEF ForkInv
  <2>7. \A s \in sessions' : Cutoffs(parent', fork', s) \subseteq Inherited(s)'
    BY <1>10, <2>1, <2>3, <2>4 DEF ForkInv
  <2>8. \A s \in sessions' : fork'[s] # 0 => Prefix(s)' \subseteq Inherited(s)'
    BY <1>10, <2>1, <2>3 DEF ForkInv
  <2>9. \A s \in sessions' : fork'[s] # 0 /\ ~TooDeep(s)' =>
          Inherited(s)' \ late'[s] \subseteq Allowed(s)'
    BY <1>10, <2>1, <2>3 DEF ForkInv
  <2>10. ASSUME NEW s \in sessions'
         PROVE  Forks(parent', fork', s, N)[Cardinality(sessions')].session = None
    <3> DEFINE C == Cardinality(sessions)
               c == Forks(parent', fork', s, N)
    <3>1. Cardinality(sessions') = C + 1 /\ C + 1 \in 1..N /\ C \in 1..N /\ C \in Nat
      <4>1. C \in 1..N /\ C < N /\ Cardinality(sessions') = C + 1
        BY <2>1, SessionCount
      <4> HIDE DEF N, C
      <4> QED
        BY <1>0, <4>1
    <3>2. CASE s \in sessions
      <4>1. c = Forks(parent, fork, s, N)
        BY <2>2, <3>2
      <4>2. c[C].session = None
        BY <3>2, <4>1 DEF ForkInv, ChainsEnd
      <4> HIDE DEF N, C
      <4>3. C \in 0..N /\ C + 1 \in (C + 1)..N
        BY <1>0, <3>1
      <4>4. c[C + 1] = NoAncestor
        BY <1>0, <2>2, <4>2, <4>3, ForkEnds
      <4> QED
        BY <3>1, <4>4 DEF NoAncestor
    <3>3. CASE s = x /\ f = 0
      <4> HIDE DEF N, C
      <4>1. 0 \in 0..N /\ C + 1 \in (0 + 1)..N
        BY <1>0, <3>1
      <4>2. c[0] = Itself(x)
        BY <1>0, <2>2, <3>3, ForkLinks
      <4>3. fork'[c[0].session] = 0
        BY <2>1, <3>3, <4>2 DEF Itself
      <4>4. c[C + 1] = NoAncestor
        BY <1>0, <2>2, <4>1, <4>3, ForkEnds
      <4> QED
        BY <3>1, <4>4 DEF NoAncestor
    <3>4. CASE s = x /\ f # 0
      <4>1. x \in sessions' /\ p \in sessions' /\ parent'[x] = p /\ fork'[x] # 0
        BY <2>1, <3>4
      <4>2. N \in Nat \ {0} /\ C \in 1..(N - 1)
        <5> HIDE DEF N, C
        <5> QED
          BY <1>0, <3>1
      <4>3. Forks(parent', fork', p, N)[C].session = None
        BY <2>2 DEF ForkInv, ChainsEnd
      <4> HIDE DEF N, C
      <4>4. /\ Forks(parent', fork', x, N)[1] = [session |-> p, cutoff |-> fork'[x]]
            /\ \A d \in 1..(N - 1) :
                 Forks(parent', fork', x, N)[d + 1] = Forks(parent', fork', p, N)[d]
        <5>1. Tree(sessions', parent', fork') /\ N \in Nat \ {0}
          BY <2>2, <4>2
        <5> QED
          BY <4>1, <5>1, ForkShift
      <4> QED
        BY <3>1, <3>4, <4>2, <4>3, <4>4
    <3> QED
      BY <2>1, <3>2, <3>3, <3>4
  <2>11. ChainsEnd'
    BY <1>0, <2>10 DEF ChainsEnd
  <2> QED
    BY <1>0, <2>5, <2>6, <2>7, <2>8, <2>9, <2>11 DEF ForkInv
<1>11. ASSUME NEW x \in SessionIds \ sessions, NEW p \in sessions,
              CreateSubagentSession(x, p)
       PROVE  ForkInv'
  <2>1. 0 \in 0..lastID
    BY BoundsAssumption DEF Typed
  <2> QED
    BY <1>10, <1>11, <2>1 DEF CreateSubagentSession
<1>12. ASSUME NEW x \in SessionIds \ sessions, NEW p \in sessions,
              NEW r \in messages, ForkSession(x, p, r)
       PROVE  ForkInv'
  <2>1. /\ r.id \in 0..lastID /\ r.id # 0 /\ CreateSession(x, p, r.id) /\ r \in All(p)
        /\ atFork'[x] = Ids(All(p))
        /\ \A s \in sessions : atFork'[s] = atFork[s]
        /\ fork'[x] = r.id /\ parent'[x] = p /\ messages' = messages
    <3>1. r.id \in 0..lastID /\ r.id # 0
      BY BoundsAssumption DEF Typed, Rows
    <3>2. VisibleWithin(p, Cardinality(SessionIds)) = All(p)
      BY VisibleIs DEF All, Everything
    <3> QED
      BY <1>12, <3>1, <3>2 DEF ForkSession, CreateSession, Typed
  <2>2. /\ Inherits(messages', parent', fork', x) \subseteq All(p)
        /\ \A m \in All(p) : m.session # p \/ m.id <= r.id =>
             m \in Inherits(messages', parent', fork', x)
        /\ Cutoffs(parent', fork', x) \subseteq {r.id} \cup Cutoffs(parent, fork, p)
        /\ r.session = p => \A m \in Inherits(messages', parent', fork', x) : m.id <= r.id
    BY <2>1, ForkShows
  <2> DEFINE I == Inherits(messages', parent', fork', x)
  <2>3. Inherited(x)' = Ids(I)
    BY <1>0
  <2>4. \A m \in messages : m.id \in Int
    BY DEF Typed, Rows
  <2>5. Cutoffs(parent', fork', x) \subseteq Inherited(x)'
    <3>1. r.id \in Ids(I)
      <4>1. r.id <= r.id
        BY <2>4
      <4> QED
        BY <2>1, <2>2, <4>1 DEF Ids
    <3>2. Cutoffs(parent, fork, p) \subseteq Ids(I)
      <4>1. Inherits(messages, parent, fork, p) \subseteq I
        BY <2>2 DEF Inherits, All
      <4> QED
        BY <4>1 DEF ForkInv, Inherited, Ids
    <3> QED
      BY <2>2, <2>3, <3>1, <3>2
  <2>6. Prefix(x)' \subseteq Inherited(x)'
    <3>1. Prefix(x)' = {i \in Ids(All(p)) : i <= r.id}
      BY <2>1 DEF Prefix
    <3> QED
      BY <2>2, <2>3, <3>1 DEF Ids
  <2>7. Inherited(x)' \subseteq Allowed(x)'
    <3>1. Allowed(x)' = IF \E m \in messages : m.id = r.id /\ m.session = p
                        THEN {i \in Ids(All(p)) : i <= r.id} ELSE Ids(All(p))
      BY <2>1 DEF Allowed, Prefix
    <3>2. (\E m \in messages : m.id = r.id /\ m.session = p) => r.session = p
      BY <1>12 DEF RowInv
    <3>3. Ids(I) \subseteq Ids(All(p))
      BY <2>2 DEF Ids
    <3>4. r.session = p => \A i \in Ids(I) : i <= r.id
      BY <2>2 DEF Ids
    <3> HIDE DEF I
    <3> QED
      BY <2>3, <3>1, <3>2, <3>3, <3>4
  <2> QED
    BY <1>10, <2>1, <2>5, <2>6, <2>7
<1> QED
  BY <1>3, <1>4, <1>5, <1>6, <1>7, <1>8, <1>9, <1>11, <1>12 DEF Next

(* The invariant is the property.                                          *)
LEMMA ForkMeans == Typed /\ ForkInv => ForkInheritsPrefix
<1> SUFFICES ASSUME Typed, ForkInv, NEW s \in sessions, fork[s] # 0, ~TooDeep(s)
             PROVE  LET inherited == Ids({m \in MessagesForSession(s) : m.session # s})
                    IN /\ Prefix(s) \subseteq inherited
                       /\ inherited \ late[s] \subseteq Allowed(s)
  BY DEF ForkInheritsPrefix, Prefix, Allowed
<1>1. MessagesForSession(s) = All(s)
  <2>1. ChainsEnd /\ \A m \in messages : m.session \in sessions
    BY DEF ForkInv, Typed, Rows
  <2>2. Vis(messages, parent, fork, s, MaxForkDepth) = All(s)
    BY <2>1, ShownWithinDepth DEF All
  <2> QED
    BY <2>2, VisibleIs DEF MessagesForSession
<1>2. Inherited(s) = Ids({m \in MessagesForSession(s) : m.session # s})
  BY <1>1 DEF Inherited, Inherits, All
<1> QED
  BY <1>2 DEF ForkInv

(* The first state is in order.                                            *)
LEMMA ForkInit == Init => ForkInv
<1> SUFFICES ASSUME Init PROVE ForkInv
  OBVIOUS
<1>1. Typed
  BY TypeInit
<1>2. Cardinality(sessions) = 1 /\ Everything \in Nat /\ 1 \in 1..Everything
  <2>1. Cardinality(sessions) = 1
    <3>1. Cardinality({} \cup {Root}) = 1
      BY FS_EmptySet, FS_AddElement
    <3>2. {} \cup {Root} = {Root}
      OBVIOUS
    <3> QED
      BY <3>1, <3>2 DEF Init
  <2>2. Everything \in Nat /\ Cardinality(sessions) \in 1..Everything
    BY <1>1, SessionCount
  <2> QED
    BY <2>1, <2>2
<1> DEFINE c == Forks(parent, fork, Root, Everything)
<1>3. \A d \in 1..Everything : c[d] = NoAncestor
  <2>1. Tree(sessions, parent, fork) /\ Root \in sessions
    BY <1>1, TreeIs DEF Init
  <2>2. c[0] = Itself(Root) /\ fork[Root] = 0 /\ 0 \in 0..Everything
    BY <1>2, <2>1, RootAssumption, ForkLinks DEF Init
  <2>3. fork[c[0].session] = 0
    BY <2>2 DEF Itself
  <2>4. \A d \in (0 + 1)..Everything : c[d] = NoAncestor
    BY <1>2, <2>1, <2>2, <2>3, ForkEnds
  <2> QED
    BY <2>4
<1>4. ChainsEnd
  BY <1>2, <1>3 DEF Init, ChainsEnd, NoAncestor
<1>5. Cutoffs(parent, fork, Root) = {}
  BY <1>3 DEF Cutoffs, NoAncestor
<1>6. /\ sessions = {Root} /\ messages = {} /\ fork[Root] = 0
      /\ \A w \in Writers : writer[w] = "idle"
  BY RootAssumption DEF Init
<1> QED
  BY <1>4, <1>5, <1>6 DEF ForkInv

(* Forks (ForkSession, forkChainCTE), for any number of goroutines that    *)
(* append and a fork made at any message the session shows: within the     *)
(* depth the store allows, a fork shows what its parent showed up to the   *)
(* fork message, and nothing that the parent or its parents go on to say   *)
(* but rows that had their ids before.                                     *)
THEOREM ForksKeepTheirPrefix == Spec => []ForkInheritsPrefix
<1> DEFINE Inv == StoreInv /\ ForkInv
<1>1. Init => Inv
  BY TypeInit, StoreInit, ForkInit DEF StoreInv
<1>2. Inv /\ [Next]_vars => Inv'
  <2>1. StoreInv /\ [Next]_vars => StoreInv'
    BY StoreStep
  <2>2. Inv /\ [Next]_vars => ForkInv'
    BY ForkInvStep DEF StoreInv, IdsInv
  <2> QED
    BY <2>1, <2>2
<1>3. Inv => ForkInheritsPrefix
  BY ForkMeans DEF StoreInv
<1> QED
  <2> HIDE DEF Inv
  <2> QED
    BY <1>1, <1>2, <1>3, PTL DEF Spec

-----------------------------------------------------------------------------
(***************************************************************************)
(* The files that several goroutines and processes write.  StateFile comes *)
(* as an instance, for any number of writers, processes and items; its     *)
(* assumptions on the constants are the hypothesis FileConstants.          *)
(*                                                                         *)
(* The types hold whether or not the savers are serialised.  That the file *)
(* holds the last successful save needs OneSaver: any two goroutines that  *)
(* save a file hold the same mutex while they do, as auth's Set and Remove *)
(* of one process do (and as a single goroutine does without any mutex).   *)
(* Two processes, or state's mutators on two goroutines, are outside it.   *)
(***************************************************************************)
CONSTANTS Items, Savers, Procs, ProcOf, Locked, Nobody
VARIABLES path, tmp, content, pc, value, fd, fileMu, saved

File == INSTANCE StateFile WITH Writers <- Savers

(* StateFile's assumptions.                                                *)
FileConstants ==
  /\ ProcOf \in [Savers -> Procs]
  /\ Locked \in BOOLEAN
  /\ Nobody \notin Savers
  /\ IsFiniteSet(Savers)

OneSaver == \A v, w \in Savers : v # w => Locked /\ ProcOf[v] = ProcOf[w]

(* The mutex is only ever taken where there is one.                        *)
FileTyped == File!TypeOK /\ (~Locked => \A q \in Procs : fileMu[q] = Nobody)

-----------------------------------------------------------------------------
(* While the temporary name is unused, a new file finds an inode that no   *)
(* name and no descriptor refers to.                                       *)
LEMMA NewInodeIsFree ==
  ASSUME FileConstants, File!TypeOK, tmp = 0
  PROVE  File!NewInode \in File!Inodes \ {0, path, tmp}
<1> DEFINE fds == {fd[w] : w \in Savers}
<1>1. Cardinality(Savers) \in Nat
  BY FS_CardinalityType DEF FileConstants
<1>2. IsFiniteSet(fds) /\ Cardinality(fds) <= Cardinality(Savers)
  <2>1. fd \in Surjection(Savers, fds)
    BY DEF File!TypeOK, Surjection
  <2> QED
    BY <2>1, FS_Surjection DEF FileConstants
<1>3. /\ IsFiniteSet(fds \cup {path})
      /\ Cardinality(fds \cup {path}) <= Cardinality(Savers) + 1
  <2> HIDE DEF fds
  <2>1. Cardinality(fds) \in Nat
    BY <1>2, FS_CardinalityType
  <2>2. /\ IsFiniteSet(fds \cup {path})
        /\ Cardinality(fds \cup {path})
             = IF path \in fds THEN Cardinality(fds) ELSE Cardinality(fds) + 1
    BY <1>2, FS_AddElement
  <2> QED
    BY <1>1, <1>2, <2>1, <2>2
<1>4. Cardinality(File!Inodes) = Cardinality(Savers) + 2
  <2>1. File!Inodes = 1..(Cardinality(Savers) + 2)
    <3>1. File!Cardinality(Savers) = Cardinality(Savers)
      BY Zenon DEF File!Cardinality, Cardinality
    <3>2. File!Inodes = 1..(File!Cardinality(Savers) + 2)
      BY Zenon DEF File!Inodes
    <3> QED
      BY <3>1, <3>2, Zenon
  <2> QED
    BY <1>1, <2>1, FS_Interval
<1>5. ~(File!Inodes \subseteq fds \cup {path})
  <2> HIDE DEF fds
  <2>1. SUFFICES ASSUME File!Inodes \subseteq fds \cup {path} PROVE FALSE
    OBVIOUS
  <2>2. Cardinality(File!Inodes) <= Cardinality(fds \cup {path})
    BY <1>3, <2>1, FS_Subset
  <2>3. Cardinality(fds \cup {path}) \in Nat
    BY <1>3, FS_CardinalityType
  <2> QED
    BY <1>1, <1>3, <1>4, <2>2, <2>3
<1>6. File!FreeInodes # {}
  <2>1. 0 \notin File!Inodes
    BY <1>1 DEF File!Inodes
  <2> QED
    BY <1>5, <2>1 DEF File!FreeInodes
<1>7. File!NewInode \in File!FreeInodes
  BY <1>6 DEF File!NewInode
<1> QED
  BY <1>1, <1>7 DEF File!FreeInodes, File!Inodes

(* The file Save opens is one of the inodes, and never the saved file      *)
(* itself when the two names differ.                                       *)
LEMMA TmpInodeType ==
  ASSUME FileConstants, File!TypeOK
  PROVE  /\ File!TmpInode \in File!Inodes
         /\ File!TmpInode # 0
         /\ (tmp = 0 \/ tmp # path) => File!TmpInode # path
<1>1. CASE tmp = 0
  BY <1>1, NewInodeIsFree DEF File!TmpInode
<1>2. CASE tmp # 0
  BY <1>2 DEF File!TypeOK, File!TmpInode
<1> QED
  BY <1>1, <1>2

(* The variables have their types at the start.                            *)
LEMMA FileTypeInit ==
  ASSUME FileConstants
  PROVE  File!Init => FileTyped
BY DEF FileConstants, File!Init, FileTyped, File!TypeOK, File!Contents,
       File!Empty, File!Inodes

(* Every step keeps the variables' types, with or without a mutex.         *)
LEMMA FileTypeStep ==
  ASSUME FileConstants
  PROVE  FileTyped /\ [File!Next]_(File!vars) => FileTyped'
<1> USE DEF FileConstants
<1> SUFFICES ASSUME FileTyped, [File!Next]_(File!vars) PROVE FileTyped'
  OBVIOUS
<1> USE DEF FileTyped, File!TypeOK, File!dirVars
<1>a. \A S \in SUBSET Items : File!Empty \in File!Contents /\ File!Garbled \in File!Contents
                              /\ File!Whole(S) \in File!Contents
  BY DEF File!Contents, File!Empty, File!Garbled, File!Whole
<1>1. ASSUME NEW w \in Savers, NEW x \in Items, File!AddItem(w, x)
      PROVE  FileTyped'
  <2>1. File!Loaded \cup {x} \in SUBSET Items
    BY DEF File!Loaded, File!Stored, File!Whole, File!Contents
  <2> QED
    BY <1>1, <2>1 DEF File!AddItem, File!Mutate, File!AcquireMutex
<1>2. ASSUME NEW w \in Savers, NEW x \in Items, File!RemoveItem(w, x)
      PROVE  FileTyped'
  <2>1. File!Loaded \ {x} \in SUBSET Items
    BY DEF File!Loaded, File!Stored, File!Whole, File!Contents
  <2> QED
    BY <1>2, <2>1 DEF File!RemoveItem, File!Mutate, File!AcquireMutex
<1>3. ASSUME NEW w \in Savers, File!Returns(w), pc[w] # "idle",
             UNCHANGED <<path, tmp, content, saved>>
      PROVE  FileTyped'
  BY <1>3 DEF File!Returns, File!ReleaseMutex
<1>4. ASSUME NEW w \in Savers, File!OpenTmp(w) PROVE FileTyped'
  <2>1. CASE pc' = [pc EXCEPT ![w] = "write"] /\ content' = File!Truncated
             /\ tmp' = File!TmpInode /\ fd' = [fd EXCEPT ![w] = File!TmpInode]
             /\ UNCHANGED <<value, fileMu>>
    <3>1. content' \in [File!Inodes -> File!Contents]
      BY <1>a, <2>1 DEF File!Truncated
    <3> QED
      BY <1>4, <2>1, <3>1, TmpInodeType DEF File!OpenTmp
  <2> QED
    BY <1>3, <1>4, <2>1 DEF File!OpenTmp
<1>5. ASSUME NEW w \in Savers, File!WriteTmp(w) PROVE FileTyped'
  <2>1. ASSUME NEW c \in File!Overwritten(content[fd[w]], value[w])
        PROVE  c \in File!Contents
    <3>1. c = File!Whole(value[w]) \/ c = File!Garbled
      BY <2>1, Zenon DEF File!Overwritten
    <3> QED
      BY <1>a, <3>1
  <2>2. content' \in [File!Inodes -> File!Contents]
    BY <1>5, <1>a, <2>1 DEF File!WriteTmp
  <2> QED
    BY <1>5, <2>2 DEF File!WriteTmp
<1>6. ASSUME NEW w \in Savers, File!RenameTmp(w) PROVE FileTyped'
  BY <1>6 DEF File!RenameTmp, File!Returns, File!ReleaseMutex
<1>7. ASSUME NEW w \in Savers, File!Cleanup(w) PROVE FileTyped'
  BY <1>7 DEF File!Cleanup, File!RemovesTmp, File!Returns, File!ReleaseMutex
<1>8. ASSUME NEW q \in Procs, File!Crash(q) PROVE FileTyped'
  <2>1. content' \in [File!Inodes -> File!Contents]
    BY <1>8, <1>a DEF File!Crash
  <2> QED
    BY <1>8, <2>1 DEF File!Crash
<1>9. CASE UNCHANGED File!vars
  BY <1>9 DEF File!vars
<1> QED
  BY <1>1, <1>2, <1>4, <1>5, <1>6, <1>7, <1>8, <1>9 DEF File!Next,
  File!SaveStep

(* TypeOK of every reachable state, for state.json and auth.json alike.    *)
THEOREM FileTypesCorrect ==
  ASSUME FileConstants
  PROVE  File!Spec => []File!TypeOK
<1>1. FileTyped => File!TypeOK
  BY DEF FileTyped
<1> QED
  BY <1>1, FileTypeInit, FileTypeStep, PTL DEF File!Spec

-----------------------------------------------------------------------------
(* A writer in the middle of Set or Remove holds the mutex of its process. *)
MutexHeld ==
  \A w \in Savers : Locked /\ pc[w] # "idle" => fileMu[ProcOf[w]] = w

(* The temporary file is the one the only saver has open, empty before its *)
(* write and whole before its rename; the file itself is another inode and *)
(* holds the last value that a Save returned nil for.                      *)
SaveInv ==
  /\ MutexHeld
  /\ \A w \in Savers :
       /\ pc[w] \in {"write", "rename"} => tmp # 0 /\ fd[w] = tmp
       /\ pc[w] = "write" => content[tmp] = File!Empty
       /\ pc[w] = "rename" => content[tmp] = File!Whole(value[w])
  /\ tmp # 0 => tmp # path
  /\ File!Stored = File!Whole(saved)

FileInv == FileTyped /\ SaveInv

(* Under OneSaver no two writers are between a load and a return.          *)
LEMMA OthersIdle ==
  ASSUME OneSaver, MutexHeld,
         NEW v \in Savers, NEW w \in Savers, v # w, pc[v] # "idle"
  PROVE  pc[w] = "idle"
BY DEF OneSaver, MutexHeld

(* What FileInv is for: the file is whole and holds the last save.         *)
LEMMA InvSaved == SaveInv => File!FileHoldsLastSave
BY DEF SaveInv, File!FileHoldsLastSave, File!FileIsWhole, File!Loaded,
       File!Stored, File!Whole

(* There is no file at the start, and nothing has been saved.              *)
LEMMA SaveInit == File!Init => SaveInv
BY DEF File!Init, SaveInv, MutexHeld, File!Stored

(* Every step of a saver, and a crash at any point, keeps the temporary    *)
(* file the saver's own and the file the last one saved.                   *)
LEMMA SaveStepInv ==
  ASSUME FileConstants, OneSaver, FileTyped, SaveInv, [File!Next]_(File!vars)
  PROVE  SaveInv'
<1> USE DEF FileConstants
<1> USE DEF FileTyped, File!dirVars
<1>1. ASSUME NEW w \in Savers, NEW x \in Items, File!AddItem(w, x)
      PROVE  SaveInv'
  BY <1>1 DEF File!AddItem, File!Mutate, File!AcquireMutex, File!MutexFree,
              SaveInv, MutexHeld,
              File!TypeOK, File!Stored
<1>2. ASSUME NEW w \in Savers, NEW x \in Items, File!RemoveItem(w, x)
      PROVE  SaveInv'
  BY <1>2 DEF File!RemoveItem, File!Mutate, File!AcquireMutex, File!MutexFree,
              SaveInv, MutexHeld,
              File!TypeOK, File!Stored
<1>3. ASSUME NEW w \in Savers, pc[w] # "idle", File!Returns(w)
      PROVE  /\ MutexHeld'
             /\ \A v \in Savers : pc'[v] = "idle"
  <2>1. \A v \in Savers : v # w => pc[v] = "idle"
    BY <1>3, OthersIdle DEF SaveInv
  <2>2. \A v \in Savers : pc'[v] = "idle"
    BY <1>3, <2>1 DEF File!Returns, File!TypeOK
  <2> QED
    BY <2>2 DEF MutexHeld
<1>o. ASSUME NEW w \in Savers, pc[w] # "idle"
      PROVE  \A v \in Savers : pc[v] # "idle" => v = w
  BY <1>o, OthersIdle DEF SaveInv
<1>4. ASSUME NEW w \in Savers, File!OpenTmp(w) PROVE SaveInv'
  <2>1. CASE File!Returns(w) /\ UNCHANGED <<tmp, content>>
    BY <1>3, <1>4, <2>1 DEF File!OpenTmp, SaveInv, File!Stored
  <2>2. CASE /\ tmp' = File!TmpInode
             /\ fd' = [fd EXCEPT ![w] = File!TmpInode]
             /\ content' = File!Truncated
             /\ pc' = [pc EXCEPT ![w] = "write"]
             /\ UNCHANGED <<value, fileMu>>
    <3>1. \A v \in Savers : v # w => pc'[v] = "idle"
      BY <1>4, <1>o, <2>2 DEF File!OpenTmp, File!TypeOK
    <3>2. /\ tmp' # 0 /\ tmp' # path'
          /\ fd'[w] = tmp' /\ pc'[w] = "write"
          /\ content'[tmp'] = File!Empty
          /\ path # 0 => content'[path] = content[path]
      BY <1>4, <2>2, TmpInodeType DEF File!OpenTmp, SaveInv, File!Truncated,
                                      File!TypeOK
    <3>3. MutexHeld'
      BY <1>4, <2>2, <3>1 DEF File!OpenTmp, SaveInv, MutexHeld, File!TypeOK
    <3> QED
      BY <1>4, <3>1, <3>2, <3>3 DEF File!OpenTmp, SaveInv, File!Stored
  <2> QED
    BY <1>4, <2>1, <2>2 DEF File!OpenTmp
<1>5. ASSUME NEW w \in Savers, File!WriteTmp(w) PROVE SaveInv'
  <2>1. /\ \A v \in Savers : v # w => pc'[v] = "idle"
        /\ pc'[w] # "idle" /\ pc'[w] # "write"
        /\ MutexHeld'
    BY <1>5, <1>o DEF File!WriteTmp, SaveInv, MutexHeld, File!TypeOK
  <2>2. fd[w] = tmp /\ tmp # 0 /\ tmp # path /\ content[tmp] = File!Empty
    BY <1>5 DEF File!WriteTmp, SaveInv
  <2>3. path # 0 => content'[path] = content[path]
    BY <1>5, <2>2 DEF File!WriteTmp, File!TypeOK
  <2>4. pc'[w] = "rename" => content'[tmp] = File!Whole(value[w])
    <3>1. File!Overwritten(File!Empty, value[w]) = {File!Whole(value[w])}
      BY DEF File!Overwritten
    <3> QED
      BY <1>5, <2>2, <3>1 DEF File!WriteTmp, File!TypeOK
  <2> QED
    BY <1>5, <2>1, <2>2, <2>3, <2>4 DEF File!WriteTmp, SaveInv, File!Stored
<1>6. ASSUME NEW w \in Savers, File!RenameTmp(w) PROVE SaveInv'
  <2>1. CASE /\ path' = tmp
             /\ tmp' = 0
             /\ saved' = value[w]
             /\ File!Returns(w)
    <3>1. tmp # 0 /\ content[tmp] = File!Whole(value[w])
      BY <1>6 DEF File!RenameTmp, SaveInv
    <3> QED
      BY <1>3, <1>6, <2>1, <3>1 DEF File!RenameTmp, SaveInv, File!Stored
  <2>2. CASE /\ pc' = [pc EXCEPT ![w] = "cleanup"]
             /\ UNCHANGED <<File!dirVars, value, fd, fileMu, saved>>
    BY <1>6, <1>o, <2>2 DEF File!RenameTmp, SaveInv, MutexHeld, File!Stored,
                            File!TypeOK
  <2> QED
    BY <1>6, <2>1, <2>2 DEF File!RenameTmp
<1>7. ASSUME NEW w \in Savers, File!Cleanup(w) PROVE SaveInv'
  BY <1>3, <1>7 DEF File!Cleanup, File!RemovesTmp, SaveInv, File!Stored
<1>8. ASSUME NEW q \in Procs, File!Crash(q) PROVE SaveInv'
  <2>1. \A v \in Savers : pc'[v] = "idle"
    BY <1>8, <1>o DEF File!Crash, File!TypeOK
  <2>2. path # 0 => content'[path] = content[path]
    <3>1. ASSUME NEW v \in Savers, pc[v] = "write" PROVE fd[v] # path
      BY <3>1 DEF SaveInv
    <3> QED
      BY <1>8, <3>1 DEF File!Crash, File!TypeOK
  <2>3. UNCHANGED <<path, tmp, saved>>
    BY <1>8 DEF File!Crash
  <2> QED
    BY <2>1, <2>2, <2>3 DEF SaveInv, MutexHeld, File!Stored
<1>9. CASE UNCHANGED File!vars
  BY <1>9 DEF File!vars, SaveInv, MutexHeld, File!Stored
<1> QED
  BY <1>1, <1>2, <1>4, <1>5, <1>6, <1>7, <1>8, <1>9 DEF File!Next,
  File!SaveStep

(* The file is whole and holds the last value a Save returned nil for, in  *)
(* every reachable state, whatever fails and whenever the process dies.    *)
THEOREM FileHoldsLastSaveAlways ==
  ASSUME FileConstants, OneSaver
  PROVE  File!Spec => []File!FileHoldsLastSave
<1>1. File!Init => FileInv
  BY FileTypeInit, SaveInit DEF FileInv
<1>2. FileInv /\ [File!Next]_(File!vars) => FileInv'
  BY FileTypeStep, SaveStepInv DEF FileInv
<1>3. FileInv => File!FileHoldsLastSave
  BY InvSaved DEF FileInv
<1> QED
  BY <1>1, <1>2, <1>3, PTL DEF File!Spec

-----------------------------------------------------------------------------
(***************************************************************************)
(* The model catalog, as an instance too: every bound on versions and      *)
(* processes, its assumptions a hypothesis.                                *)
(***************************************************************************)
CONSTANTS MaxVersion, MaxStarts, Interval
VARIABLES published, file, starts, snapshot, src, mutex, stage, got, cancelled,
          closePc

Cat == INSTANCE Catalog WITH pc <- stage

(* Catalog's assumptions.                                                  *)
Bounds == MaxVersion \in Nat \ {0} /\ MaxStarts \in Nat

Inside == {"request", "sent", "answered", "save", "unlock"}

(* Whoever is past Lock holds the mutex, ...                               *)
HoldsMutex == \A r \in Cat!Refreshers : stage[r] \in Inside => mutex = r

(* ... nobody runs without a catalog, ...                                  *)
OffUntilLoaded ==
  snapshot = Cat!NotLoaded => \A r \in Cat!Refreshers : stage[r] = "off"

(* ... and nothing here is newer than what the service has published: so   *)
(* the ETag sent is still the snapshot's, and the answer is no older.      *)
InOrder ==
  /\ snapshot <= published /\ file <= published
  /\ \A r \in Cat!Refreshers :
       /\ stage[r] = "sent" => got[r] = snapshot
       /\ stage[r] = "answered" /\ got[r] # Cat!NotModified =>
            got[r] \in snapshot .. published
       /\ stage[r] = "save" => got[r] \in 0 .. published

CatalogInv == Cat!TypeOK /\ HoldsMutex /\ OffUntilLoaded /\ InOrder

(* No refresher replaces the snapshot by an older one.                     *)
NeverBack ==
  snapshot # Cat!NotLoaded /\ snapshot' # Cat!NotLoaded => snapshot' >= snapshot

(* The invariant holds initially.                                          *)
LEMMA InitInv == ASSUME Bounds PROVE Cat!Init => CatalogInv
BY DEF Bounds, Cat!Init, CatalogInv, Cat!TypeOK, HoldsMutex, OffUntilLoaded,
         InOrder, Inside, Cat!Versions, Cat!Missing, Cat!Unreadable,
         Cat!NotLoaded, Cat!NotModified, Cat!Failed, Cat!Nobody,
         Cat!Refreshers, Cat!Goroutines

(* Every step keeps it, and keeps the snapshot from going back.            *)
LEMMA StepInv ==
  ASSUME Bounds, CatalogInv, [Cat!Next]_(Cat!vars)
  PROVE  CatalogInv' /\ NeverBack
<1> USE DEF Bounds, CatalogInv, Cat!TypeOK, HoldsMutex, OffUntilLoaded,
InOrder,
            Inside, NeverBack, Cat!Versions, Cat!Missing, Cat!Unreadable,
            Cat!NotLoaded, Cat!NotModified, Cat!Failed, Cat!Nobody,
            Cat!Refreshers, Cat!Goroutines, Cat!Goto
<1>1. CASE Cat!Publish
  BY <1>1 DEF Cat!Publish
<1>2. CASE Cat!OtherProcess
  BY <1>2 DEF Cat!OtherProcess
<1>3. CASE Cat!Load
  BY <1>3 DEF Cat!Load
<1>4. CASE Cat!Exit
  BY <1>4 DEF Cat!Exit
<1>5. ASSUME NEW r \in Cat!Refreshers, Cat!Fire(r)
      PROVE  CatalogInv' /\ NeverBack
  BY <1>5 DEF Cat!Fire
<1>6. ASSUME NEW r \in Cat!Refreshers, Cat!Lock(r)
      PROVE  CatalogInv' /\ NeverBack
  BY <1>6 DEF Cat!Lock
<1>7. ASSUME NEW r \in Cat!Refreshers, Cat!Request(r)
      PROVE  CatalogInv' /\ NeverBack
  BY <1>7 DEF Cat!Request
<1>8. ASSUME NEW r \in Cat!Refreshers, Cat!Answer(r)
      PROVE  CatalogInv' /\ NeverBack
  BY <1>8 DEF Cat!Answer
<1>9. ASSUME NEW r \in Cat!Refreshers, Cat!RefreshFails(r)
      PROVE  CatalogInv' /\ NeverBack
  BY <1>9 DEF Cat!RefreshFails
<1>10. ASSUME NEW r \in Cat!Refreshers, Cat!Store(r)
      PROVE  CatalogInv' /\ NeverBack
  BY <1>10 DEF Cat!Store
<1>11. ASSUME NEW r \in Cat!Refreshers, Cat!Save(r)
      PROVE  CatalogInv' /\ NeverBack
  BY <1>11 DEF Cat!Save
<1>12. ASSUME NEW r \in Cat!Refreshers, Cat!Unlock(r)
      PROVE  CatalogInv' /\ NeverBack
  BY <1>12 DEF Cat!Unlock
<1>13. CASE Cat!StopTicker
  BY <1>13 DEF Cat!StopTicker
<1>14. CASE Cat!Close
  BY <1>14 DEF Cat!Close
<1>15. CASE Cat!CloseTicker
  BY <1>15 DEF Cat!CloseTicker
<1>16. CASE Cat!CloseReturn
  BY <1>16 DEF Cat!CloseReturn
<1>17. CASE UNCHANGED Cat!vars
  BY <1>17 DEF Cat!vars
<1> QED
  BY <1>1, <1>2, <1>3, <1>4, <1>5, <1>6, <1>7, <1>8, <1>9, <1>10, <1>11,
     <1>12, <1>13, <1>14, <1>15, <1>16, <1>17 DEF Cat!Next, Cat!Refresh

(* CatalogInv holds in every reachable state.                              *)
THEOREM CatalogInvariant ==
  ASSUME Bounds
  PROVE  Cat!Spec => []CatalogInv
<1>1. Cat!Init => CatalogInv
  BY InitInv
<1>2. CatalogInv /\ [Cat!Next]_(Cat!vars) => CatalogInv'
  BY StepInv
<1> QED
  BY <1>1, <1>2, PTL DEF Cat!Spec

(* The variables keep their types.                                         *)
THEOREM CatalogTypes ==
  ASSUME Bounds
  PROVE  Cat!Spec => []Cat!TypeOK
<1>1. CatalogInv => Cat!TypeOK
  BY DEF CatalogInv
<1>2. Cat!Spec => []CatalogInv
  BY CatalogInvariant
<1> QED
  BY <1>1, <1>2, PTL

(* However the three refreshers interleave and whatever other processes do *)
(* to the file, no snapshot in memory is replaced by an older one.         *)
THEOREM SnapshotMonotone ==
  ASSUME Bounds
  PROVE  Cat!Spec => Cat!SnapshotNeverGoesBack
<1>1. CatalogInv /\ [Cat!Next]_(Cat!vars) => [NeverBack]_(Cat!vars)
  BY StepInv
<1>2. Cat!Spec => []CatalogInv
  BY CatalogInvariant
<1> QED
  BY <1>1, <1>2, PTL
     DEF Cat!Spec, Cat!SnapshotNeverGoesBack, NeverBack
=============================================================================
