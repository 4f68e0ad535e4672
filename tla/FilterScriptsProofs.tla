------------------------ MODULE FilterScriptsProofs ------------------------
(***************************************************************************)
(* Proofs about FilterScripts for any number of slots, addresses, files    *)
(* and loads, and callbacks nested to any depth.  The invariant is an      *)
(* operator on the values of the variables, so that reloadfs, which        *)
(* unloads and loads in one step, is two uses of it.                       *)
(***************************************************************************)
EXTENDS FilterScripts, SequenceTheorems, TLAPS

Exits == {"exit", "reload"}

\* A: amx, S: slot, N: name, M: mode, K: stack, L: loads, F: fileOf, X: faults.
Typed(A, S, N, M, K, L, F, X) ==
    /\ A \in [Addrs -> Programs \cup {Free, Zeroed, Wild}]
    /\ S \in [Slots -> Addrs \cup {None}]
    /\ N \in [Slots -> Files \cup {None}]
    /\ M \in Addrs \cup {None}
    /\ K \in Seq(Frame)
    /\ L \in 0 .. MaxLoads
    /\ F \in [Programs -> Files \cup {ModeFile, None}]
    /\ X \in SUBSET {"refused", "self"}

\* A program has one address, and its number was given out.
HeapGood(A, L, X) ==
    /\ \A a \in Addrs : A[a] \in Programs => A[a] <= L
    /\ \A a, b \in Addrs : A[a] \in Programs /\ A[a] = A[b] => a = b
    /\ \A a \in Addrs : A[a] \in {Zeroed, Wild} => "refused" \in X

SlotsGood(A, S, N, M, F) ==
    /\ \A i \in Slots : N[i] # None =>
            /\ S[i] # None
            /\ A[S[i]] \in Programs
            /\ F[A[S[i]]] = N[i]
    /\ \A i \in Slots : S[i] # None => A[S[i]] # Free /\ S[i] # M
    /\ \A i, j \in Slots : S[i] = S[j] /\ S[i] # None => i = j
    /\ M # None => A[M] # Free

\* A script in OnFilterScriptInit is in its slot, which has no name yet.
FrameGood(f, A, S, N, L, F) ==
    /\ f.prog <= L
    /\ f.op \in Exits \cup {"init"} => f.slot \in Slots /\ F[f.prog] \in Files
    /\ f.op = "init" => /\ S[f.slot] = f.addr
                        /\ A[f.addr] = f.prog
                        /\ N[f.slot] = None

\* What is initialised in a slot is not unloaded on top of that.
StackGood(K, A, S, N, L, F) ==
    /\ \A k \in DOMAIN K : FrameGood(K[k], A, S, N, L, F)
    /\ \A j, k \in DOMAIN K :
            j < k /\ K[j].op = "init" /\ K[k].op \in Exits \cup {"init"} => K[k].slot # K[j].slot

\* Unless a script was told to unload itself, every callback's program is
\* there, and one that is unloaded is in its slot and has no other callback
\* below.
CalmGood(K, A, S, X) ==
    "self" \notin X =>
        /\ \A k \in DOMAIN K : A[K[k].addr] = K[k].prog
        /\ \A k \in DOMAIN K : K[k].op \in Exits =>
                /\ S[K[k].slot] = K[k].addr
                /\ \A j \in 1 .. k - 1 : K[j].prog # K[k].prog

Good(A, S, N, M, K, L, F, X) ==
    /\ Typed(A, S, N, M, K, L, F, X)
    /\ HeapGood(A, L, X)
    /\ SlotsGood(A, S, N, M, F)
    /\ StackGood(K, A, S, N, L, F)
    /\ CalmGood(K, A, S, X)

ScriptsInv ==
    /\ Good(amx, slot, name, mode, stack, loads, fileOf, faults)
    /\ count \in Nat
    /\ up \in BOOLEAN

-----------------------------------------------------------------------------
(* The stack. *)

\* The constants that mark something else than a program, an address, a file.
LEMMA Marks ==
    /\ Free \notin Programs /\ Zeroed \notin Programs /\ Wild \notin Programs
    /\ Free # Zeroed /\ Free # Wild
    /\ None \notin Addrs /\ None \notin Files /\ ModeFile \notin Files
    /\ 0 \notin Slots
  BY ScriptsAssumption DEF Free, Zeroed, Wild, Programs, Slots

LEMMA Pushed ==
    ASSUME NEW K \in Seq(Frame), NEW f \in Frame
    PROVE  /\ Append(K, f) \in Seq(Frame)
           /\ DOMAIN Append(K, f) = 1 .. Len(K) + 1
           /\ \A k \in 1 .. Len(K) : Append(K, f)[k] = K[k]
           /\ Append(K, f)[Len(K) + 1] = f
  BY AppendProperties

LEMMA Cut ==
    ASSUME NEW K \in Seq(Frame), K # <<>>
    PROVE  LET C == SubSeq(K, 1, Len(K) - 1)
           IN  /\ C \in Seq(Frame)
               /\ DOMAIN C = 1 .. Len(K) - 1
               /\ DOMAIN K = 1 .. Len(K)
               /\ Len(C) = Len(K) - 1 /\ Len(K) \in Nat \ {0}
               /\ \A k \in DOMAIN C : k \in DOMAIN K /\ C[k] = K[k]
               /\ K[Len(K)] \in Frame
  <1>1. Len(K) \in Nat /\ Len(K) > 0 /\ DOMAIN K = 1 .. Len(K)
    OBVIOUS
  <1>2. SubSeq(K, 1, Len(K) - 1) \in Seq(Frame) /\ Len(SubSeq(K, 1, Len(K) - 1)) = Len(K) - 1
    BY <1>1, SubSeqProperties
  <1>3. \A k \in 1 .. Len(K) - 1 : SubSeq(K, 1, Len(K) - 1)[k] = K[k]
    BY <1>1
  <1> QED
    BY <1>1, <1>2, <1>3

\* A callback returns.
LEMMA CutGood ==
    ASSUME NEW A, NEW S, NEW N, NEW M, NEW K, NEW L, NEW F, NEW X,
           Good(A, S, N, M, K, L, F, X), K # <<>>
    PROVE  Good(A, S, N, M, SubSeq(K, 1, Len(K) - 1), L, F, X)
  <1> DEFINE C == SubSeq(K, 1, Len(K) - 1)
  <1>1. /\ C \in Seq(Frame)
        /\ \A k \in DOMAIN C : k \in DOMAIN K /\ C[k] = K[k]
        /\ DOMAIN C = 1 .. Len(K) - 1 /\ Len(K) \in Nat
    BY Cut DEF Good, Typed
  <1> HIDE DEF C
  <1>2. Typed(A, S, N, M, C, L, F, X)
    BY <1>1 DEF Good, Typed
  <1>3. StackGood(C, A, S, N, L, F)
    BY <1>1 DEF Good, StackGood
  <1>4. CalmGood(C, A, S, X)
    BY <1>1 DEF Good, CalmGood
  <1>5. Good(A, S, N, M, C, L, F, X)
    BY <1>2, <1>3, <1>4 DEF Good
  <1> QED
    BY <1>5 DEF C

\* A callback begins, into a program that is there.  Faults may be noted.
LEMMA PushGood ==
    ASSUME NEW A, NEW S, NEW N, NEW M, NEW K, NEW L, NEW F, NEW X,
           Good(A, S, N, M, K, L, F, X),
           NEW f \in Frame, f.op # "init", f.prog <= L, A[f.addr] = f.prog,
           NEW Y \in SUBSET {"refused", "self"}, X \subseteq Y,
           f.op \in Exits =>
                /\ f.slot \in Slots
                /\ N[f.slot] # None
                /\ S[f.slot] = f.addr
                /\ F[f.prog] \in Files
                /\ "self" \notin Y => \A k \in DOMAIN K : K[k].prog # f.prog
    PROVE  Good(A, S, N, M, Append(K, f), L, F, Y)
  <1> DEFINE C == Append(K, f)
  <1>1. K \in Seq(Frame) /\ Len(K) \in Nat /\ DOMAIN K = 1 .. Len(K)
    BY DEF Good, Typed
  <1>2. /\ C \in Seq(Frame)
        /\ DOMAIN C = 1 .. Len(K) + 1
        /\ \A k \in 1 .. Len(K) : C[k] = K[k]
        /\ C[Len(K) + 1] = f
    BY <1>1, Pushed
  <1> HIDE DEF C
  <1>3. Typed(A, S, N, M, C, L, F, Y)
    BY <1>2 DEF Good, Typed
  <1>4. HeapGood(A, L, Y)
    BY DEF Good, HeapGood
  <1>5. StackGood(C, A, S, N, L, F)
    <2>1. FrameGood(f, A, S, N, L, F)
      BY DEF FrameGood, Exits
    <2>2. \A k \in DOMAIN C : FrameGood(C[k], A, S, N, L, F)
      BY <1>1, <1>2, <2>1 DEF Good, StackGood
    <2>3. ASSUME NEW j \in DOMAIN C, NEW k \in DOMAIN C,
                 j < k, C[j].op = "init", C[k].op \in Exits \cup {"init"}
          PROVE  C[k].slot # C[j].slot
      <3>1. j \in DOMAIN K /\ C[j] = K[j]
        BY <1>1, <1>2, <2>3
      <3>2. CASE k = Len(K) + 1
        <4>1. N[K[j].slot] = None
          BY <2>3, <3>1 DEF Good, StackGood, FrameGood
        <4> QED
          BY <4>1, <3>1, <3>2, <1>2, <2>3
      <3>3. CASE k # Len(K) + 1
        <4>1. k \in DOMAIN K /\ C[k] = K[k]
          BY <1>1, <1>2, <3>3
        <4> QED
          BY <4>1, <3>1, <2>3 DEF Good, StackGood
      <3> QED
        BY <3>2, <3>3
    <2> QED
      BY <2>2, <2>3 DEF StackGood
  <1>6. CalmGood(C, A, S, Y)
    <2> SUFFICES ASSUME "self" \notin Y, NEW k \in DOMAIN C
                 PROVE  /\ A[C[k].addr] = C[k].prog
                        /\ C[k].op \in Exits =>
                             /\ S[C[k].slot] = C[k].addr
                             /\ \A j \in 1 .. k - 1 : C[j].prog # C[k].prog
      BY DEF CalmGood
    <2>1. CASE k = Len(K) + 1
      BY <1>1, <1>2, <2>1
    <2>2. CASE k # Len(K) + 1
      <3>1. k \in DOMAIN K /\ C[k] = K[k] /\ \A j \in 1 .. k - 1 : C[j] = K[j]
        BY <1>1, <1>2, <2>2
      <3> QED
        BY <3>1 DEF Good, CalmGood
    <2> QED
      BY <2>1, <2>2
  <1>7. Good(A, S, N, M, C, L, F, Y)
    BY <1>3, <1>4, <1>5, <1>6 DEF Good
  <1> QED
    BY <1>7 DEF C

-----------------------------------------------------------------------------
(* The slots. *)

\* RemoveFilterScript, when OnFilterScriptExit has returned.
LEMMA FreeGood ==
    ASSUME NEW A, NEW S, NEW N, NEW M, NEW K, NEW L, NEW F, NEW X,
           Good(A, S, N, M, K, L, F, X), K # <<>>,
           NEW i \in Slots, K[Len(K)].op \in Exits, K[Len(K)].slot = i, S[i] # None
    PROVE  Good([A EXCEPT ![S[i]] = Free], [S EXCEPT ![i] = None], [N EXCEPT ![i] = None],
                M, SubSeq(K, 1, Len(K) - 1), L, F, X)
  <1> DEFINE C  == SubSeq(K, 1, Len(K) - 1)
             A1 == [A EXCEPT ![S[i]] = Free]
             S1 == [S EXCEPT ![i] = None]
             N1 == [N EXCEPT ![i] = None]
             T  == K[Len(K)]
  <1>1. /\ S[i] \in Addrs
        /\ A \in [Addrs -> Programs \cup {Free, Zeroed, Wild}]
        /\ S \in [Slots -> Addrs \cup {None}] /\ N \in [Slots -> Files \cup {None}]
        /\ K \in Seq(Frame)
    BY DEF Good, Typed
  <1>2. Good(A, S, N, M, C, L, F, X)
    BY CutGood
  <1>3. /\ DOMAIN C = 1 .. Len(K) - 1 /\ Len(K) \in Nat \ {0}
        /\ \A k \in DOMAIN C : k \in DOMAIN K /\ C[k] = K[k]
        /\ Len(K) \in DOMAIN K
    BY <1>1, Cut
  <1>4. \A k \in DOMAIN C : C[k].op = "init" => C[k].slot # i
    <2> SUFFICES ASSUME NEW k \in DOMAIN C, C[k].op = "init" PROVE C[k].slot # i
      OBVIOUS
    <2>1. k \in DOMAIN K /\ C[k] = K[k] /\ k < Len(K)
      BY <1>3
    <2> QED
      BY <2>1, <1>3 DEF Good, StackGood
  <1>5. "self" \notin X => /\ S[i] = T.addr /\ A[T.addr] = T.prog
                           /\ \A k \in DOMAIN C : C[k].prog # T.prog
    BY <1>3 DEF Good, CalmGood
  <1>6. /\ A1 \in [Addrs -> Programs \cup {Free, Zeroed, Wild}]
        /\ A1[S[i]] = Free /\ \A a \in Addrs : a # S[i] => A1[a] = A[a]
    BY <1>1
  <1>7. /\ S1 \in [Slots -> Addrs \cup {None}] /\ N1 \in [Slots -> Files \cup {None}]
        /\ S1[i] = None /\ N1[i] = None
        /\ \A j \in Slots : j # i => S1[j] = S[j] /\ N1[j] = N[j]
    BY <1>1
  <1>8. \A j \in Slots : j # i /\ S[j] # None => S[j] # S[i] /\ S[j] \in Addrs
    BY <1>1 DEF Good, SlotsGood
  <1>9. M # S[i]
    BY DEF Good, SlotsGood
  <1>a. \A k \in DOMAIN C : C[k].addr \in Addrs
    <2>1. \A k \in DOMAIN C : C[k] \in Frame
      BY <1>1, <1>3
    <2> QED
      BY <2>1 DEF Frame
  <1> HIDE DEF C, A1, S1, N1, T
  <1>10. Typed(A1, S1, N1, M, C, L, F, X)
    BY <1>2, <1>6, <1>7 DEF Good, Typed
  <1>11. HeapGood(A1, L, X)
    BY <1>2, <1>6, Marks DEF Good, HeapGood
  <1>12. SlotsGood(A1, S1, N1, M, F)
    <2>1. \A j \in Slots : N1[j] # None =>
              S1[j] # None /\ A1[S1[j]] \in Programs /\ F[A1[S1[j]]] = N1[j]
      BY <1>2, <1>6, <1>7, <1>8 DEF Good, SlotsGood
    <2>2. \A j \in Slots : S1[j] # None => A1[S1[j]] # Free /\ S1[j] # M
      BY <1>2, <1>6, <1>7, <1>8 DEF Good, SlotsGood
    <2>3. \A j, k \in Slots : S1[j] = S1[k] /\ S1[j] # None => j = k
      BY <1>2, <1>7 DEF Good, SlotsGood
    <2>4. M # None => A1[M] # Free
      BY <1>2, <1>6, <1>9 DEF Good, SlotsGood, Typed
    <2> QED
      BY <2>1, <2>2, <2>3, <2>4 DEF SlotsGood
  <1>13. StackGood(C, A1, S1, N1, L, F)
    <2>1. ASSUME NEW k \in DOMAIN C PROVE FrameGood(C[k], A1, S1, N1, L, F)
      <3>1. FrameGood(C[k], A, S, N, L, F)
        BY <1>2 DEF Good, StackGood
      <3>2. CASE C[k].op = "init"
        <4>1. C[k].slot \in Slots /\ C[k].slot # i /\ S[C[k].slot] = C[k].addr
          BY <3>1, <3>2, <1>4 DEF FrameGood
        <4>2. C[k].addr \in Addrs
          BY <1>a
        <4>3. C[k].addr # S[i]
          BY <4>1, <4>2, <1>8, Marks
        <4> QED
          BY <3>1, <4>1, <4>2, <4>3, <1>6, <1>7 DEF FrameGood
      <3>3. CASE C[k].op # "init"
        BY <3>1, <3>3 DEF FrameGood
      <3> QED
        BY <3>2, <3>3
    <2> QED
      BY <2>1, <1>2 DEF Good, StackGood
  <1>14. CalmGood(C, A1, S1, X)
    <2> SUFFICES ASSUME "self" \notin X, NEW k \in DOMAIN C
                 PROVE  /\ A1[C[k].addr] = C[k].prog
                        /\ C[k].op \in Exits =>
                             /\ S1[C[k].slot] = C[k].addr
                             /\ \A j \in 1 .. k - 1 : C[j].prog # C[k].prog
      BY DEF CalmGood
    <2>1. C[k].addr \in Addrs /\ A[C[k].addr] = C[k].prog
      BY <1>2, <1>a DEF Good, CalmGood
    <2>2. C[k].addr # S[i]
      BY <2>1, <1>5
    <2>3. A1[C[k].addr] = C[k].prog
      BY <2>1, <2>2, <1>6
    <2>4. ASSUME C[k].op \in Exits PROVE S1[C[k].slot] = C[k].addr
      <3>1. C[k].slot \in Slots /\ S[C[k].slot] = C[k].addr
        BY <2>4, <1>2 DEF Good, StackGood, FrameGood, CalmGood
      <3> QED
        BY <3>1, <2>2, <1>7
    <2> QED
      BY <2>3, <2>4, <1>2 DEF Good, CalmGood
  <1>15. Good(A1, S1, N1, M, C, L, F, X)
    BY <1>10, <1>11, <1>12, <1>13, <1>14 DEF Good
  <1> QED
    BY <1>15 DEF A1, S1, N1, C

\* A program is loaded into a free slot, and OnFilterScriptInit begins.
LEMMA LoadGood ==
    ASSUME NEW A, NEW S, NEW N, NEW M, NEW K, NEW L, NEW F, NEW X,
           Good(A, S, N, M, K, L, F, X),
           NEW i \in Slots, S[i] = None, NEW a \in Addrs, A[a] = Free, L < MaxLoads,
           NEW n \in Files
    PROVE  Good([A EXCEPT ![a] = L + 1], [S EXCEPT ![i] = a], N, M,
                Append(K, [op |-> "init", slot |-> i, addr |-> a, prog |-> L + 1]), L + 1,
                [F EXCEPT ![L + 1] = n], X)
  <1> DEFINE A1 == [A EXCEPT ![a] = L + 1]
             S1 == [S EXCEPT ![i] = a]
             F1 == [F EXCEPT ![L + 1] = n]
             f  == [op |-> "init", slot |-> i, addr |-> a, prog |-> L + 1]
             C  == Append(K, f)
  <1>1. L \in Nat /\ L + 1 \in Programs /\ L + 1 \in 0 .. MaxLoads
    BY ScriptsAssumption DEF Good, Typed, Programs
  <1>2. f \in Frame
    BY <1>1 DEF Frame, Ops, Slots
  <1>3. /\ A \in [Addrs -> Programs \cup {Free, Zeroed, Wild}]
        /\ S \in [Slots -> Addrs \cup {None}] /\ N \in [Slots -> Files \cup {None}]
        /\ F \in [Programs -> Files \cup {ModeFile, None}]
        /\ K \in Seq(Frame) /\ Len(K) \in Nat /\ DOMAIN K = 1 .. Len(K)
    BY DEF Good, Typed
  <1>4. /\ C \in Seq(Frame)
        /\ DOMAIN C = 1 .. Len(K) + 1
        /\ \A k \in 1 .. Len(K) : C[k] = K[k]
        /\ C[Len(K) + 1] = f
    BY <1>2, <1>3, Pushed
  <1>5. /\ A1 \in [Addrs -> Programs \cup {Free, Zeroed, Wild}]
        /\ A1[a] = L + 1 /\ \A b \in Addrs : b # a => A1[b] = A[b]
    BY <1>1, <1>3
  <1>6. /\ S1 \in [Slots -> Addrs \cup {None}]
        /\ S1[i] = a /\ \A j \in Slots : j # i => S1[j] = S[j]
    BY <1>3
  <1>7. /\ F1 \in [Programs -> Files \cup {ModeFile, None}]
        /\ F1[L + 1] = n /\ \A p \in Programs : p # L + 1 => F1[p] = F[p]
    BY <1>1, <1>3
  <1>8. \A b \in Addrs : A[b] \in Programs => A[b] # L + 1 /\ A[b] <= L
    BY <1>1 DEF Good, HeapGood, Programs
  <1>9. \A j \in Slots : S[j] # a
    BY Marks DEF Good, SlotsGood
  <1>10. N[i] = None
    BY DEF Good, SlotsGood
  <1>11. \A k \in DOMAIN K : /\ K[k].addr \in Addrs /\ K[k].prog \in Programs
                             /\ K[k].prog <= L /\ K[k].prog # L + 1
    <2> SUFFICES ASSUME NEW k \in DOMAIN K
                 PROVE  /\ K[k].addr \in Addrs /\ K[k].prog \in Programs
                        /\ K[k].prog <= L /\ K[k].prog # L + 1
      OBVIOUS
    <2>1. K[k] \in Frame
      BY <1>3
    <2>2. K[k].addr \in Addrs /\ K[k].prog \in Programs
      BY <2>1 DEF Frame
    <2>3. K[k].prog <= L
      BY DEF Good, StackGood, FrameGood
    <2> QED
      BY <2>2, <2>3, <1>1 DEF Programs
  <1>f. f.op = "init" /\ f.slot = i /\ f.addr = a /\ f.prog = L + 1
    OBVIOUS
  <1> HIDE DEF C, A1, S1, F1, f
  <1>12. Typed(A1, S1, N, M, C, L + 1, F1, X)
    BY <1>1, <1>4, <1>5, <1>6, <1>7 DEF Good, Typed
  <1>13. HeapGood(A1, L + 1, X)
    <2>1. \A b \in Addrs : A1[b] \in Programs => A1[b] <= L + 1
      BY <1>1, <1>5, <1>8 DEF Programs
    <2>2. \A b, c \in Addrs : A1[b] \in Programs /\ A1[b] = A1[c] => b = c
      BY <1>5, <1>8 DEF Good, HeapGood
    <2>3. \A b \in Addrs : A1[b] \in {Zeroed, Wild} => "refused" \in X
      BY <1>1, <1>5, Marks DEF Good, HeapGood
    <2> QED
      BY <2>1, <2>2, <2>3 DEF HeapGood
  <1>14. SlotsGood(A1, S1, N, M, F1)
    <2>1. \A j \in Slots : N[j] # None =>
              S1[j] # None /\ A1[S1[j]] \in Programs /\ F1[A1[S1[j]]] = N[j]
      <3> SUFFICES ASSUME NEW j \in Slots, N[j] # None
                   PROVE  S1[j] # None /\ A1[S1[j]] \in Programs /\ F1[A1[S1[j]]] = N[j]
        OBVIOUS
      <3>1. j # i /\ S[j] # None /\ A[S[j]] \in Programs /\ F[A[S[j]]] = N[j]
        BY <1>10 DEF Good, SlotsGood
      <3>2. S[j] \in Addrs /\ S[j] # a
        BY <3>1, <1>3, <1>9
      <3> QED
        BY <3>1, <3>2, <1>5, <1>6, <1>7, <1>8
    <2>2. \A j \in Slots : S1[j] # None => A1[S1[j]] # Free /\ S1[j] # M
      <3> SUFFICES ASSUME NEW j \in Slots, S1[j] # None PROVE A1[S1[j]] # Free /\ S1[j] # M
        OBVIOUS
      <3>1. CASE j = i
        BY <3>1, <1>1, <1>5, <1>6, Marks DEF Good, SlotsGood
      <3>2. CASE j # i
        BY <3>2, <1>3, <1>5, <1>6, <1>9 DEF Good, SlotsGood
      <3> QED
        BY <3>1, <3>2
    <2>3. \A j, k \in Slots : S1[j] = S1[k] /\ S1[j] # None => j = k
      BY <1>6, <1>9 DEF Good, SlotsGood
    <2>4. M # None => A1[M] # Free
      BY <1>1, <1>5 DEF Good, SlotsGood, Typed
    <2> QED
      BY <2>1, <2>2, <2>3, <2>4 DEF SlotsGood
  <1>15. StackGood(C, A1, S1, N, L + 1, F1)
    <2>1. \A k \in DOMAIN K : K[k].op \in Exits \cup {"init"} => K[k].slot \in Slots
      BY DEF Good, StackGood, FrameGood
    <2>2. \A k \in DOMAIN K : K[k].op = "init" => K[k].slot # i
      <3> SUFFICES ASSUME NEW k \in DOMAIN K, K[k].op = "init" PROVE K[k].slot # i
        OBVIOUS
      <3>1. S[K[k].slot] = K[k].addr
        BY DEF Good, StackGood, FrameGood
      <3> QED
        BY <3>1, <1>11, Marks
    <2>3. ASSUME NEW k \in DOMAIN C PROVE FrameGood(C[k], A1, S1, N, L + 1, F1)
      <3>1. CASE k = Len(K) + 1
        BY <3>1, <1>1, <1>4, <1>5, <1>6, <1>7, <1>10, <1>f DEF FrameGood
      <3>2. CASE k # Len(K) + 1
        <4>1. k \in DOMAIN K /\ C[k] = K[k]
          BY <3>2, <1>3, <1>4
        <4>2. FrameGood(K[k], A, S, N, L, F)
          BY <4>1 DEF Good, StackGood
        <4>3. K[k].prog <= L + 1 /\ F1[K[k].prog] = F[K[k].prog]
          BY <4>1, <1>1, <1>7, <1>11 DEF Programs
        <4>4. ASSUME K[k].op = "init"
              PROVE  S1[K[k].slot] = K[k].addr /\ A1[K[k].addr] = K[k].prog
          <5>1. K[k].slot # i /\ K[k].slot \in Slots /\ S[K[k].slot] = K[k].addr
            BY <4>1, <4>2, <4>4, <2>2 DEF FrameGood
          <5>2. K[k].addr # a /\ K[k].addr \in Addrs
            BY <5>1, <4>1, <1>9, <1>11
          <5> QED
            BY <5>1, <5>2, <4>2, <4>4, <1>5, <1>6 DEF FrameGood
        <4> QED
          BY <4>1, <4>2, <4>3, <4>4 DEF FrameGood
      <3> QED
        BY <3>1, <3>2
    <2>4. ASSUME NEW j \in DOMAIN C, NEW k \in DOMAIN C,
                 j < k, C[j].op = "init", C[k].op \in Exits \cup {"init"}
          PROVE  C[k].slot # C[j].slot
      <3>1. j \in DOMAIN K /\ C[j] = K[j]
        BY <1>3, <1>4, <2>4
      <3>2. CASE k = Len(K) + 1
        BY <3>1, <3>2, <2>2, <2>4, <1>4, <1>f
      <3>3. CASE k # Len(K) + 1
        <4>1. k \in DOMAIN K /\ C[k] = K[k]
          BY <1>3, <1>4, <3>3
        <4> QED
          BY <4>1, <3>1, <2>4 DEF Good, StackGood
      <3> QED
        BY <3>2, <3>3
    <2> QED
      BY <2>3, <2>4 DEF StackGood
  <1>16. CalmGood(C, A1, S1, X)
    <2> SUFFICES ASSUME "self" \notin X, NEW k \in DOMAIN C
                 PROVE  /\ A1[C[k].addr] = C[k].prog
                        /\ C[k].op \in Exits =>
                             /\ S1[C[k].slot] = C[k].addr
                             /\ \A j \in 1 .. k - 1 : C[j].prog # C[k].prog
      BY DEF CalmGood
    <2>1. CASE k = Len(K) + 1
      BY <2>1, <1>4, <1>5, <1>f DEF Exits
    <2>2. CASE k # Len(K) + 1
      <3>1. k \in DOMAIN K /\ C[k] = K[k] /\ \A j \in 1 .. k - 1 : C[j] = K[j]
        BY <1>3, <1>4, <2>2
      <3>2. A[K[k].addr] = K[k].prog
        BY <3>1 DEF Good, CalmGood
      <3>3. A1[K[k].addr] = K[k].prog
        BY <3>1, <3>2, <1>5, <1>11, Marks
      <3>4. ASSUME K[k].op \in Exits PROVE S1[K[k].slot] = K[k].addr
        <4>1. K[k].slot \in Slots /\ S[K[k].slot] = K[k].addr
          BY <3>1, <3>4 DEF Good, StackGood, FrameGood, CalmGood
        <4> QED
          BY <4>1, <3>1, <1>6, <1>11, Marks
      <3> QED
        BY <3>1, <3>3, <3>4 DEF Good, CalmGood
    <2> QED
      BY <2>1, <2>2
  <1>17. Good(A1, S1, N, M, C, L + 1, F1, X)
    BY <1>12, <1>13, <1>14, <1>15, <1>16 DEF Good
  <1> QED
    BY <1>17 DEF A1, S1, F1, C, f

\* An attempt to load is counted.
LEMMA CountGood ==
    ASSUME NEW A, NEW S, NEW N, NEW M, NEW K, NEW L, NEW F, NEW X,
           Good(A, S, N, M, K, L, F, X), L < MaxLoads
    PROVE  Good(A, S, N, M, K, L + 1, F, X)
  <1>1. L \in 0 .. MaxLoads /\ MaxLoads \in Nat /\ K \in Seq(Frame)
    BY ScriptsAssumption DEF Good, Typed
  <1>2. Typed(A, S, N, M, K, L + 1, F, X)
    BY <1>1 DEF Good, Typed
  <1>3. HeapGood(A, L + 1, X)
    BY <1>1 DEF Good, HeapGood, Programs
  <1>4. \A k \in DOMAIN K : K[k].prog \in Programs
    <2>1. \A k \in DOMAIN K : K[k] \in Frame
      BY <1>1
    <2> QED
      BY <2>1 DEF Frame
  <1>5. \A k \in DOMAIN K : FrameGood(K[k], A, S, N, L, F) => FrameGood(K[k], A, S, N, L + 1, F)
    BY <1>1, <1>4 DEF FrameGood, Programs
  <1> QED
    BY <1>2, <1>3, <1>5 DEF Good, StackGood

\* A file is refused, and its zeroed AMX stays.
LEMMA RefusedGood ==
    ASSUME NEW A, NEW S, NEW N, NEW M, NEW K, NEW L, NEW F, NEW X,
           Good(A, S, N, M, K, L, F, X),
           NEW i \in Slots, S[i] = None, NEW a \in Addrs, A[a] = Free
    PROVE  Good([A EXCEPT ![a] = Zeroed], [S EXCEPT ![i] = a], N, M, K, L, F,
                X \cup {"refused"})
  <1> DEFINE A1 == [A EXCEPT ![a] = Zeroed]
             S1 == [S EXCEPT ![i] = a]
             X1 == X \cup {"refused"}
  <1>1. /\ A \in [Addrs -> Programs \cup {Free, Zeroed, Wild}]
        /\ S \in [Slots -> Addrs \cup {None}] /\ K \in Seq(Frame)
        /\ X \in SUBSET {"refused", "self"}
    BY DEF Good, Typed
  <1>2. /\ A1 \in [Addrs -> Programs \cup {Free, Zeroed, Wild}]
        /\ A1[a] = Zeroed /\ \A b \in Addrs : b # a => A1[b] = A[b]
    BY <1>1
  <1>3. /\ S1 \in [Slots -> Addrs \cup {None}]
        /\ S1[i] = a /\ \A j \in Slots : j # i => S1[j] = S[j]
    BY <1>1
  <1>4. /\ X1 \in SUBSET {"refused", "self"}
        /\ "refused" \in X1 /\ ("self" \in X => "self" \in X1)
    BY <1>1
  <1>5. \A j \in Slots : S[j] # a
    BY Marks DEF Good, SlotsGood
  <1>6. N[i] = None
    BY DEF Good, SlotsGood
  <1>7. \A k \in DOMAIN K : K[k].addr \in Addrs /\ K[k].prog \in Programs
    <2>1. \A k \in DOMAIN K : K[k] \in Frame
      BY <1>1
    <2> QED
      BY <2>1 DEF Frame
  <1> HIDE DEF A1, S1, X1
  <1>8. Typed(A1, S1, N, M, K, L, F, X1)
    BY <1>2, <1>3, <1>4 DEF Good, Typed
  <1>9. HeapGood(A1, L, X1)
    BY <1>2, <1>4, Marks DEF Good, HeapGood
  <1>10. SlotsGood(A1, S1, N, M, F)
    <2>1. \A j \in Slots : N[j] # None =>
              S1[j] # None /\ A1[S1[j]] \in Programs /\ F[A1[S1[j]]] = N[j]
      <3> SUFFICES ASSUME NEW j \in Slots, N[j] # None
                   PROVE  S1[j] # None /\ A1[S1[j]] \in Programs /\ F[A1[S1[j]]] = N[j]
        OBVIOUS
      <3>1. j # i /\ S[j] # None /\ A[S[j]] \in Programs /\ F[A[S[j]]] = N[j]
        BY <1>6 DEF Good, SlotsGood
      <3>2. S[j] \in Addrs /\ S[j] # a
        BY <3>1, <1>1, <1>5
      <3> QED
        BY <3>1, <3>2, <1>2, <1>3
    <2>2. \A j \in Slots : S1[j] # None => A1[S1[j]] # Free /\ S1[j] # M
      <3> SUFFICES ASSUME NEW j \in Slots, S1[j] # None PROVE A1[S1[j]] # Free /\ S1[j] # M
        OBVIOUS
      <3>1. CASE j = i
        BY <3>1, <1>2, <1>3, Marks DEF Good, SlotsGood
      <3>2. CASE j # i
        BY <3>2, <1>1, <1>2, <1>3, <1>5 DEF Good, SlotsGood
      <3> QED
        BY <3>1, <3>2
    <2>3. \A j, k \in Slots : S1[j] = S1[k] /\ S1[j] # None => j = k
      BY <1>3, <1>5 DEF Good, SlotsGood
    <2>4. M # None => A1[M] # Free
      BY <1>2, Marks DEF Good, SlotsGood, Typed
    <2> QED
      BY <2>1, <2>2, <2>3, <2>4 DEF SlotsGood
  <1>11. StackGood(K, A1, S1, N, L, F)
    <2>1. ASSUME NEW k \in DOMAIN K PROVE FrameGood(K[k], A1, S1, N, L, F)
      <3>1. FrameGood(K[k], A, S, N, L, F)
        BY DEF Good, StackGood
      <3>2. K[k].op = "init" => K[k].slot # i /\ K[k].addr # a
        BY <3>1, <1>5, <1>7, Marks DEF FrameGood
      <3> QED
        BY <3>1, <3>2, <1>2, <1>3, <1>7 DEF FrameGood
    <2> QED
      BY <2>1 DEF Good, StackGood
  <1>12. CalmGood(K, A1, S1, X1)
    <2> SUFFICES ASSUME "self" \notin X1, NEW k \in DOMAIN K
                 PROVE  /\ A1[K[k].addr] = K[k].prog
                        /\ K[k].op \in Exits =>
                             /\ S1[K[k].slot] = K[k].addr
                             /\ \A j \in 1 .. k - 1 : K[j].prog # K[k].prog
      BY DEF CalmGood
    <2>1. A[K[k].addr] = K[k].prog
      BY <1>4 DEF Good, CalmGood
    <2>2. A1[K[k].addr] = K[k].prog
      BY <2>1, <1>2, <1>7, Marks
    <2>3. ASSUME K[k].op \in Exits PROVE S1[K[k].slot] = K[k].addr
      <3>1. K[k].slot \in Slots /\ S[K[k].slot] = K[k].addr
        BY <2>3, <1>4 DEF Good, StackGood, FrameGood, CalmGood
      <3> QED
        BY <3>1, <1>3, <1>7, Marks
    <2> QED
      BY <2>2, <2>3, <1>4 DEF Good, CalmGood
  <1>13. Good(A1, S1, N, M, K, L, F, X1)
    BY <1>8, <1>9, <1>10, <1>11, <1>12 DEF Good
  <1> QED
    BY <1>13 DEF A1, S1, X1

\* OnFilterScriptInit has returned, and the slot gets its name.
LEMMA NamedGood ==
    ASSUME NEW A, NEW S, NEW N, NEW M, NEW K, NEW L, NEW F, NEW X,
           Good(A, S, N, M, K, L, F, X), K # <<>>, K[Len(K)].op = "init"
    PROVE  Good(A, S, [N EXCEPT ![K[Len(K)].slot] = F[K[Len(K)].prog]], M,
                SubSeq(K, 1, Len(K) - 1), L, F, X)
  <1> DEFINE T  == K[Len(K)]
             C  == SubSeq(K, 1, Len(K) - 1)
             N1 == [N EXCEPT ![T.slot] = F[T.prog]]
  <1>1. /\ N \in [Slots -> Files \cup {None}] /\ K \in Seq(Frame)
        /\ S \in [Slots -> Addrs \cup {None}]
    BY DEF Good, Typed
  <1>2. Good(A, S, N, M, C, L, F, X)
    BY CutGood
  <1>3. /\ DOMAIN C = 1 .. Len(K) - 1 /\ Len(K) \in Nat \ {0}
        /\ \A k \in DOMAIN C : k \in DOMAIN K /\ C[k] = K[k]
        /\ Len(K) \in DOMAIN K /\ T \in Frame
    BY <1>1, Cut
  <1>4. /\ T.slot \in Slots /\ F[T.prog] \in Files
        /\ S[T.slot] = T.addr /\ A[T.addr] = T.prog
    BY <1>3 DEF Good, StackGood, FrameGood
  <1>5. T.addr \in Addrs /\ T.prog \in Programs
    BY <1>3 DEF Frame
  <1>6. \A k \in DOMAIN C : C[k].op = "init" => C[k].slot # T.slot
    <2> SUFFICES ASSUME NEW k \in DOMAIN C, C[k].op = "init" PROVE C[k].slot # T.slot
      OBVIOUS
    <2>1. k \in DOMAIN K /\ C[k] = K[k] /\ k < Len(K)
      BY <1>3
    <2> QED
      BY <2>1, <1>3 DEF Good, StackGood
  <1>7. /\ N1 \in [Slots -> Files \cup {None}]
        /\ N1[T.slot] = F[T.prog] /\ \A j \in Slots : j # T.slot => N1[j] = N[j]
    BY <1>1, <1>4
  <1> HIDE DEF C, N1, T
  <1>8. Typed(A, S, N1, M, C, L, F, X)
    BY <1>2, <1>7 DEF Good, Typed
  <1>9. SlotsGood(A, S, N1, M, F)
    <2>1. \A j \in Slots : N1[j] # None =>
              S[j] # None /\ A[S[j]] \in Programs /\ F[A[S[j]]] = N1[j]
      <3> SUFFICES ASSUME NEW j \in Slots, N1[j] # None
                   PROVE  S[j] # None /\ A[S[j]] \in Programs /\ F[A[S[j]]] = N1[j]
        OBVIOUS
      <3>1. CASE j = T.slot
        BY <3>1, <1>4, <1>5, <1>7, Marks
      <3>2. CASE j # T.slot
        BY <3>2, <1>7 DEF Good, SlotsGood
      <3> QED
        BY <3>1, <3>2
    <2> QED
      BY <2>1 DEF Good, SlotsGood
  <1>10. StackGood(C, A, S, N1, L, F)
    <2>1. ASSUME NEW k \in DOMAIN C PROVE FrameGood(C[k], A, S, N1, L, F)
      BY <1>2, <1>6, <1>7 DEF Good, StackGood, FrameGood
    <2> QED
      BY <2>1, <1>2 DEF Good, StackGood
  <1>11. Good(A, S, N1, M, C, L, F, X)
    BY <1>2, <1>8, <1>9, <1>10 DEF Good
  <1> QED
    BY <1>11 DEF N1, C, T

\* The game mode is freed, with no callback under way.
LEMMA ModeFreedGood ==
    ASSUME NEW A, NEW S, NEW N, NEW M, NEW L, NEW F, NEW X,
           Good(A, S, N, M, <<>>, L, F, X), M # None
    PROVE  Good([A EXCEPT ![M] = Free], S, N, None, <<>>, L, F, X)
  <1> DEFINE A1 == [A EXCEPT ![M] = Free]
  <1>1. /\ A \in [Addrs -> Programs \cup {Free, Zeroed, Wild}] /\ M \in Addrs
        /\ S \in [Slots -> Addrs \cup {None}]
    BY DEF Good, Typed
  <1>2. /\ A1 \in [Addrs -> Programs \cup {Free, Zeroed, Wild}]
        /\ A1[M] = Free /\ \A b \in Addrs : b # M => A1[b] = A[b]
    BY <1>1
  <1> HIDE DEF A1
  <1>3. Typed(A1, S, N, None, <<>>, L, F, X)
    BY <1>2 DEF Good, Typed
  <1>4. HeapGood(A1, L, X)
    BY <1>2, Marks DEF Good, HeapGood
  <1>5. SlotsGood(A1, S, N, None, F)
    <2>1. \A j \in Slots : S[j] # None => S[j] \in Addrs /\ S[j] # M
      BY <1>1 DEF Good, SlotsGood
    <2> QED
      BY <2>1, <1>2 DEF Good, SlotsGood
  <1>6. StackGood(<<>>, A1, S, N, L, F) /\ CalmGood(<<>>, A1, S, X)
    BY DEF StackGood, CalmGood
  <1>7. Good(A1, S, N, None, <<>>, L, F, X)
    BY <1>3, <1>4, <1>5, <1>6 DEF Good
  <1> QED
    BY <1>7 DEF A1

\* The next game mode is loaded.
LEMMA ModeLoadedGood ==
    ASSUME NEW A, NEW S, NEW N, NEW L, NEW F, NEW X,
           Good(A, S, N, None, <<>>, L, F, X),
           NEW a \in Addrs, A[a] = Free, L < MaxLoads
    PROVE  Good([A EXCEPT ![a] = L + 1], S, N, a, <<>>, L + 1,
                [F EXCEPT ![L + 1] = ModeFile], X)
  <1> DEFINE A1 == [A EXCEPT ![a] = L + 1]
             F1 == [F EXCEPT ![L + 1] = ModeFile]
  <1>1. L \in Nat /\ L + 1 \in Programs /\ L + 1 \in 0 .. MaxLoads
    BY ScriptsAssumption DEF Good, Typed, Programs
  <1>2. /\ A \in [Addrs -> Programs \cup {Free, Zeroed, Wild}]
        /\ S \in [Slots -> Addrs \cup {None}]
        /\ F \in [Programs -> Files \cup {ModeFile, None}]
    BY DEF Good, Typed
  <1>3. /\ A1 \in [Addrs -> Programs \cup {Free, Zeroed, Wild}]
        /\ A1[a] = L + 1 /\ \A b \in Addrs : b # a => A1[b] = A[b]
    BY <1>1, <1>2
  <1>4. /\ F1 \in [Programs -> Files \cup {ModeFile, None}]
        /\ \A p \in Programs : p # L + 1 => F1[p] = F[p]
    BY <1>1, <1>2
  <1>5. \A b \in Addrs : A[b] \in Programs => A[b] # L + 1 /\ A[b] <= L
    BY <1>1 DEF Good, HeapGood, Programs
  <1>6. \A j \in Slots : S[j] # a
    BY Marks DEF Good, SlotsGood
  <1> HIDE DEF A1, F1
  <1>7. Typed(A1, S, N, a, <<>>, L + 1, F1, X)
    BY <1>1, <1>3, <1>4 DEF Good, Typed
  <1>8. HeapGood(A1, L + 1, X)
    <2>1. \A b \in Addrs : A1[b] \in Programs => A1[b] <= L + 1
      BY <1>1, <1>3, <1>5 DEF Programs
    <2>2. \A b, c \in Addrs : A1[b] \in Programs /\ A1[b] = A1[c] => b = c
      BY <1>3, <1>5 DEF Good, HeapGood
    <2>3. \A b \in Addrs : A1[b] \in {Zeroed, Wild} => "refused" \in X
      BY <1>1, <1>3, Marks DEF Good, HeapGood
    <2> QED
      BY <2>1, <2>2, <2>3 DEF HeapGood
  <1>9. SlotsGood(A1, S, N, a, F1)
    <2>1. \A j \in Slots : S[j] # None => S[j] \in Addrs /\ A1[S[j]] = A[S[j]]
      BY <1>2, <1>3, <1>6
    <2>2. \A j \in Slots : N[j] # None =>
              S[j] # None /\ A1[S[j]] \in Programs /\ F1[A1[S[j]]] = N[j]
      BY <2>1, <1>4, <1>5 DEF Good, SlotsGood
    <2>3. A1[a] # Free
      BY <1>1, <1>3, Marks
    <2> QED
      BY <2>1, <2>2, <2>3, <1>6 DEF Good, SlotsGood
  <1>10. StackGood(<<>>, A1, S, N, L + 1, F1) /\ CalmGood(<<>>, A1, S, X)
    BY DEF StackGood, CalmGood
  <1>11. Good(A1, S, N, a, <<>>, L + 1, F1, X)
    BY <1>7, <1>8, <1>9, <1>10 DEF Good
  <1> QED
    BY <1>11 DEF A1, F1

\* A game mode that does not load leaves an AMX without a program.
LEMMA ModeFailedGood ==
    ASSUME NEW A, NEW S, NEW N, NEW L, NEW F, NEW X,
           Good(A, S, N, None, <<>>, L, F, X),
           NEW a \in Addrs, A[a] = Free, NEW c \in {Wild, Zeroed}
    PROVE  Good([A EXCEPT ![a] = c], S, N, a, <<>>, L, F, X \cup {"refused"})
  <1> DEFINE A1 == [A EXCEPT ![a] = c]
             X1 == X \cup {"refused"}
  <1>1. /\ A \in [Addrs -> Programs \cup {Free, Zeroed, Wild}]
        /\ S \in [Slots -> Addrs \cup {None}]
        /\ X \in SUBSET {"refused", "self"}
    BY DEF Good, Typed
  <1>2. /\ A1 \in [Addrs -> Programs \cup {Free, Zeroed, Wild}]
        /\ A1[a] = c /\ \A b \in Addrs : b # a => A1[b] = A[b]
    BY <1>1
  <1>3. X1 \in SUBSET {"refused", "self"} /\ "refused" \in X1
    BY <1>1
  <1>4. \A j \in Slots : S[j] # a
    BY Marks DEF Good, SlotsGood
  <1>5. c \notin Programs /\ c # Free
    BY Marks
  <1> HIDE DEF A1, X1
  <1>6. Typed(A1, S, N, a, <<>>, L, F, X1)
    BY <1>2, <1>3 DEF Good, Typed
  <1>7. HeapGood(A1, L, X1)
    BY <1>2, <1>3, <1>5 DEF Good, HeapGood
  <1>8. SlotsGood(A1, S, N, a, F)
    <2>1. \A j \in Slots : S[j] # None => S[j] \in Addrs /\ A1[S[j]] = A[S[j]]
      BY <1>1, <1>2, <1>4
    <2> QED
      BY <2>1, <1>2, <1>4, <1>5 DEF Good, SlotsGood
  <1>9. StackGood(<<>>, A1, S, N, L, F) /\ CalmGood(<<>>, A1, S, X1)
    BY DEF StackGood, CalmGood
  <1>10. Good(A1, S, N, a, <<>>, L, F, X1)
    BY <1>6, <1>7, <1>8, <1>9 DEF Good
  <1> QED
    BY <1>10 DEF A1, X1

-----------------------------------------------------------------------------
(* Steps. *)

LEMMA ScriptsInvInit == ScriptsInit => ScriptsInv
  <1> SUFFICES ASSUME ScriptsInit PROVE ScriptsInv
    OBVIOUS
  <1> DEFINE a == FirstAddr
  <1>1. /\ a \in Addrs
        /\ mode = a /\ amx = [b \in Addrs |-> IF b = a THEN 1 ELSE Free]
    BY ScriptsAssumption DEF ScriptsInit, FirstAddr
  <1> HIDE DEF a
  <1>2. 1 \in Programs /\ 1 \in 0 .. MaxLoads
    BY ScriptsAssumption DEF Programs
  <1>3. /\ slot = [i \in Slots |-> None] /\ name = [i \in Slots |-> None]
        /\ stack = <<>> /\ loads = 1 /\ faults = {}
        /\ fileOf = [p \in Programs |-> IF p = 1 THEN ModeFile ELSE None]
    BY DEF ScriptsInit
  <1>4. Typed(amx, slot, name, mode, stack, loads, fileOf, faults)
    BY <1>1, <1>2, <1>3 DEF Typed
  <1>5. HeapGood(amx, loads, faults)
    BY <1>1, <1>3, Marks DEF HeapGood, Free, Zeroed, Wild
  <1>6. SlotsGood(amx, slot, name, mode, fileOf)
    BY <1>1, <1>2, <1>3, Marks DEF SlotsGood
  <1>7. /\ StackGood(stack, amx, slot, name, loads, fileOf)
        /\ CalmGood(stack, amx, slot, faults)
    BY <1>3 DEF StackGood, CalmGood
  <1> QED
    BY <1>4, <1>5, <1>6, <1>7 DEF ScriptsInit, ScriptsInv, Good

\* The callback that is under way, and the stack below it.
LEMMA TopFrame ==
    ASSUME ScriptsInv, stack # <<>>
    PROVE  /\ Top \in Frame
           /\ Top.addr \in Addrs /\ Top.prog \in Programs /\ Top.prog <= loads
           /\ Len(stack) \in DOMAIN stack
           /\ Good(amx, slot, name, mode, Pop, loads, fileOf, faults)
  <1>1. stack \in Seq(Frame) /\ Good(amx, slot, name, mode, stack, loads, fileOf, faults)
    BY DEF ScriptsInv, Good, Typed
  <1>2. Top \in Frame /\ Len(stack) \in DOMAIN stack
    BY <1>1, Cut DEF Top
  <1>3. Top.prog <= loads
    BY <1>1, <1>2 DEF Good, StackGood, FrameGood, Top
  <1>4. Good(amx, slot, name, mode, Pop, loads, fileOf, faults)
    BY <1>1, CutGood DEF Pop
  <1> QED
    BY <1>2, <1>3, <1>4 DEF Frame

LEMMA CallModeKeeps ==
    ASSUME ScriptsInv, NEW below, CallMode(below),
           Good(amx, slot, name, mode, below, loads, fileOf, faults)
    PROVE  ScriptsInv'
  <1>1. UNCHANGED <<amx, slot, name, count, mode, loads, fileOf, faults, up>>
    BY DEF CallMode
  <1>2. CASE stack' = below
    BY <1>1, <1>2 DEF ScriptsInv
  <1>3. CASE stack' # below
    <2> DEFINE f == [op |-> "mode", slot |-> 0, addr |-> mode, prog |-> amx[mode]]
    <2>1. mode # None /\ amx[mode] \in Programs /\ stack' = Append(below, f)
      BY <1>3 DEF CallMode, Initialised
    <2>2. mode \in Addrs /\ amx[mode] \in Programs /\ amx[mode] <= loads
      BY <2>1 DEF ScriptsInv, Good, Typed, SlotsGood, HeapGood
    <2>3. f \in Frame
      BY <2>2, ScriptsAssumption DEF Frame, Ops
    <2>4. f.op = "mode" /\ f.addr = mode /\ f.prog = amx[mode]
      OBVIOUS
    <2> HIDE DEF f
    <2>5. faults \in SUBSET {"refused", "self"}
      BY DEF ScriptsInv, Good, Typed
    <2>6. Good(amx, slot, name, mode, Append(below, f), loads, fileOf, faults)
      BY <2>2, <2>3, <2>4, <2>5, PushGood DEF Exits
    <2> QED
      BY <1>1, <2>1, <2>6 DEF ScriptsInv
  <1> QED
    BY <1>2, <1>3

LEMMA CallBehindKeeps ==
    ASSUME ScriptsInv, NEW k \in 0 .. MaxScripts, NEW below, CallBehind(k, below),
           Good(amx, slot, name, mode, below, loads, fileOf, faults)
    PROVE  ScriptsInv'
  <1>1. CASE CallMode(below)
    BY <1>1, CallModeKeeps
  <1>2. CASE ~CallMode(below)
    <2>1. PICK i \in k + 1 .. MaxScripts :
            /\ slot[i] # None /\ amx[slot[i]] \in Programs
            /\ stack' = Append(below, [op |-> "event", slot |-> i, addr |-> slot[i],
                                       prog |-> amx[slot[i]]])
            /\ UNCHANGED <<amx, slot, name, count, mode, loads, fileOf, faults, up>>
      BY <1>2 DEF CallBehind
    <2> DEFINE f == [op |-> "event", slot |-> i, addr |-> slot[i], prog |-> amx[slot[i]]]
    <2>2. i \in Slots /\ i \in 0 .. MaxScripts
      BY ScriptsAssumption DEF Slots
    <2>3. slot[i] \in Addrs /\ amx[slot[i]] <= loads
      BY <2>1, <2>2 DEF ScriptsInv, Good, Typed, HeapGood
    <2>4. f \in Frame
      BY <2>1, <2>2, <2>3 DEF Frame, Ops
    <2>5. f.op = "event" /\ f.addr = slot[i] /\ f.prog = amx[slot[i]]
      OBVIOUS
    <2> HIDE DEF f
    <2>6. faults \in SUBSET {"refused", "self"}
      BY DEF ScriptsInv, Good, Typed
    <2>7. Good(amx, slot, name, mode, Append(below, f), loads, fileOf, faults)
      BY <2>3, <2>4, <2>5, <2>6, PushGood DEF Exits
    <2> QED
      BY <2>1, <2>7 DEF ScriptsInv, f
  <1> QED
    BY <1>1, <1>2

LEMMA BeginLoadKeeps ==
    ASSUME ScriptsInv, NEW n \in Files, NEW i \in Slots, NEW a \in Addrs, BeginLoad(n, i, a)
    PROVE  ScriptsInv'
  <1>1. slot[i] = None /\ amx[a] = Free /\ loads < MaxLoads
    BY DEF BeginLoad, SpareSlot, Allocate
  <1>2. Good(amx, slot, name, mode, stack, loads, fileOf, faults)
    BY DEF ScriptsInv
  <1>3. Good([amx EXCEPT ![a] = loads + 1], [slot EXCEPT ![i] = a], name, mode,
             Append(stack, [op |-> "init", slot |-> i, addr |-> a, prog |-> loads + 1]),
             loads + 1, [fileOf EXCEPT ![loads + 1] = n], faults)
    BY <1>1, <1>2, LoadGood
  <1> QED
    BY <1>3 DEF BeginLoad, Allocate, ScriptsInv

LEMMA LoadFailsKeeps ==
    ASSUME ScriptsInv, NEW n \in Files, NEW i \in Slots, NEW a \in Addrs, LoadFails(n, i, a)
    PROVE  ScriptsInv'
  <1>1. slot[i] = None /\ amx[a] = Free /\ loads < MaxLoads
    <2>1. loads \in 0 .. MaxLoads /\ MaxLoads \in Nat
      BY ScriptsAssumption DEF ScriptsInv, Good, Typed
    <2> QED
      BY <2>1 DEF LoadFails, SpareSlot, LoadsLeft
  <1>2. Good(amx, slot, name, mode, stack, loads, fileOf, faults)
    BY DEF ScriptsInv
  <1>3. Good([amx EXCEPT ![a] = Zeroed], [slot EXCEPT ![i] = a], name, mode, stack, loads,
             fileOf, faults \cup {"refused"})
    BY <1>1, <1>2, RefusedGood
  <1>4. Good([amx EXCEPT ![a] = Zeroed], [slot EXCEPT ![i] = a], name, mode, stack, loads + 1,
             fileOf, faults \cup {"refused"})
    BY <1>1, <1>3, CountGood
  <1> QED
    BY <1>4 DEF LoadFails, ScriptsInv

LEMMA EndLoadKeeps ==
    ASSUME ScriptsInv, EndLoad
    PROVE  ScriptsInv'
  <1>1. stack # <<>> /\ stack[Len(stack)].op = "init"
    BY DEF EndLoad, Returns, Top
  <1>2. Good(amx, slot, name, mode, stack, loads, fileOf, faults)
    BY DEF ScriptsInv
  <1>3. Good(amx, slot, [name EXCEPT ![stack[Len(stack)].slot] = fileOf[stack[Len(stack)].prog]],
             mode, SubSeq(stack, 1, Len(stack) - 1), loads, fileOf, faults)
    BY <1>1, <1>2, NamedGood
  <1> QED
    BY <1>3 DEF EndLoad, Top, Pop, ScriptsInv

LEMMA BeginUnloadKeeps ==
    ASSUME ScriptsInv, NEW n \in Files, NEW i \in Slots, NEW op \in Exits, BeginUnload(n, i, op)
    PROVE  ScriptsInv'
  <1> DEFINE p == amx[slot[i]]
             f == [op |-> op, slot |-> i, addr |-> slot[i], prog |-> p]
  <1>1. /\ name[i] = n /\ slot[i] # None /\ stack' = Append(stack, f)
        /\ faults' = IF Running(p) THEN faults \cup {"self"} ELSE faults
        /\ UNCHANGED <<amx, slot, name, count, mode, loads, fileOf, up>>
    BY DEF BeginUnload, Named
  <1>2. name[i] # None
    BY <1>1, Marks
  <1>3. p \in Programs /\ fileOf[p] = n /\ slot[i] \in Addrs
    BY <1>1, <1>2 DEF ScriptsInv, Good, SlotsGood, Typed
  <1>4. p <= loads /\ i \in 0 .. MaxScripts
    BY <1>3, ScriptsAssumption DEF ScriptsInv, Good, HeapGood, Slots
  <1>5. f \in Frame
    BY <1>3, <1>4 DEF Frame, Ops, Exits
  <1>6. f.op = op /\ f.slot = i /\ f.addr = slot[i] /\ f.prog = p
    OBVIOUS
  <1>7. faults \in SUBSET {"refused", "self"}
    BY DEF ScriptsInv, Good, Typed
  <1>8. /\ faults' \in SUBSET {"refused", "self"} /\ faults \subseteq faults'
        /\ "self" \notin faults' => \A k \in DOMAIN stack : stack[k].prog # p
    BY <1>1, <1>7 DEF Running
  <1>9. Good(amx, slot, name, mode, stack, loads, fileOf, faults)
    BY DEF ScriptsInv
  <1> HIDE DEF f, p
  <1>a. f.op # "init"
    BY <1>6 DEF Exits
  <1>10. Good(amx, slot, name, mode, Append(stack, f), loads, fileOf, faults')
    BY <1>1, <1>2, <1>3, <1>4, <1>5, <1>6, <1>8, <1>9, <1>a, PushGood DEF p
  <1> QED
    BY <1>1, <1>10 DEF ScriptsInv

\* The slot of a script that is being unloaded is one.
LEMMA ExitSlot ==
    ASSUME ScriptsInv, Returns("exit") \/ Returns("reload")
    PROVE  /\ stack # <<>> /\ stack[Len(stack)].op \in Exits
           /\ Top.slot \in Slots /\ fileOf[Top.prog] \in Files
  <1>1. stack # <<>> /\ Top.op \in Exits
    BY DEF Returns, Exits
  <1> QED
    BY <1>1, TopFrame DEF ScriptsInv, Good, StackGood, FrameGood, Top

LEMMA EndUnloadKeeps ==
    ASSUME ScriptsInv, EndUnload
    PROVE  ScriptsInv'
  <1>1. /\ stack # <<>> /\ stack[Len(stack)].op \in Exits
        /\ stack[Len(stack)].slot \in Slots
    BY ExitSlot DEF EndUnload, Top
  <1>2. slot[stack[Len(stack)].slot] # None
    BY DEF EndUnload, Top
  <1> DEFINE i == stack[Len(stack)].slot
  <1>3. Good(amx, slot, name, mode, stack, loads, fileOf, faults)
    BY DEF ScriptsInv
  <1>4. Good([amx EXCEPT ![slot[i]] = Free], [slot EXCEPT ![i] = None],
             [name EXCEPT ![i] = None], mode, SubSeq(stack, 1, Len(stack) - 1), loads, fileOf,
             faults)
    BY <1>1, <1>2, <1>3, FreeGood
  <1> QED
    BY <1>4 DEF EndUnload, HeapWithout, PtrsWithout, NamesWithout, Top, Pop, ScriptsInv

LEMMA EndReloadKeeps ==
    ASSUME ScriptsInv, NEW i \in Slots, NEW a \in Addrs, EndReload(i, a)
    PROVE  ScriptsInv'
  <1> DEFINE t == stack[Len(stack)].slot
             n == fileOf[Top.prog]
             A == [amx EXCEPT ![slot[t]] = Free]
             S == [slot EXCEPT ![t] = None]
             N == [name EXCEPT ![t] = None]
  <1>1. /\ stack # <<>> /\ stack[Len(stack)].op \in Exits
        /\ t \in Slots /\ slot[t] # None /\ n \in Files
    BY ExitSlot DEF EndReload, Top
  <1>2. Good(amx, slot, name, mode, stack, loads, fileOf, faults)
    BY DEF ScriptsInv
  <1>3. Good(A, S, N, mode, Pop, loads, fileOf, faults)
    BY <1>1, <1>2, FreeGood DEF Pop
  <1>4. /\ S[i] = None /\ A[a] = Free /\ loads < MaxLoads
        /\ amx' = [A EXCEPT ![a] = loads + 1] /\ slot' = [S EXCEPT ![i] = a] /\ name' = N
        /\ loads' = loads + 1 /\ fileOf' = [fileOf EXCEPT ![loads + 1] = n]
        /\ stack' = Append(Pop, [op |-> "init", slot |-> i, addr |-> a, prog |-> loads + 1])
        /\ UNCHANGED <<count, mode, faults, up>>
    BY DEF EndReload, SpareSlot, Allocate, HeapWithout, PtrsWithout, NamesWithout, Top
  <1> HIDE DEF A, S, N, n, t
  <1>5. Good([A EXCEPT ![a] = loads + 1], [S EXCEPT ![i] = a], N, mode,
             Append(Pop, [op |-> "init", slot |-> i, addr |-> a, prog |-> loads + 1]),
             loads + 1, [fileOf EXCEPT ![loads + 1] = n], faults)
    BY <1>1, <1>3, <1>4, LoadGood
  <1> QED
    BY <1>4, <1>5 DEF ScriptsInv

\* The process dies, and with it the callbacks.
LEMMA CrashKeeps ==
    ASSUME ScriptsInv, Crash
    PROVE  ScriptsInv'
  <1>1. Good(amx, slot, name, mode, <<>>, loads, fileOf, faults)
    BY DEF ScriptsInv, Good, Typed, StackGood, CalmGood
  <1> QED
    BY <1>1 DEF Crash, ScriptsInv

LEMMA CrashesCrash ==
    ASSUME NEW k, CallCrashes(k) \/ ModeCrashes
    PROVE  Crash
  BY DEF CallCrashes, ModeCrashes

LEMMA EventKeeps ==
    ASSUME ScriptsInv, BeginEvent \/ EndEvent \/ EndMode \/ ReturnProgram
    PROVE  ScriptsInv'
  <1>1. CASE BeginEvent
    <2>1. Good(amx, slot, name, mode, stack, loads, fileOf, faults) /\ 0 \in 0 .. MaxScripts
      BY ScriptsAssumption DEF ScriptsInv
    <2>2. CASE CallBehind(0, stack)
      BY <2>1, <2>2, CallBehindKeeps
    <2>3. CASE CallMode(stack)
      BY <2>1, <2>3, CallModeKeeps
    <2>4. CASE CallCrashes(0)
      BY <2>4, CrashKeeps, CrashesCrash
    <2> QED
      BY <1>1, <2>2, <2>3, <2>4 DEF BeginEvent
  <1>2. CASE EndEvent
    <2>1. Good(amx, slot, name, mode, Pop, loads, fileOf, faults) /\ Top.slot \in 0 .. MaxScripts
      BY <1>2, TopFrame DEF EndEvent, Returns, Frame
    <2>2. CASE CallBehind(Top.slot, Pop)
      BY <2>1, <2>2, CallBehindKeeps
    <2>3. CASE CallMode(Pop)
      BY <2>1, <2>3, CallModeKeeps
    <2>4. CASE CallCrashes(Top.slot) \/ ModeCrashes
      BY <2>4, CrashKeeps, CrashesCrash
    <2> QED
      BY <1>2, <2>2, <2>3, <2>4 DEF EndEvent
  <1>3. CASE EndMode \/ ReturnProgram
    <2>1. Good(amx, slot, name, mode, Pop, loads, fileOf, faults)
      BY <1>3, TopFrame DEF EndMode, ReturnProgram, Returns
    <2> QED
      BY <1>3, <2>1 DEF EndMode, ReturnProgram, ScriptsInv
  <1> QED
    BY <1>1, <1>2, <1>3

LEMMA CallProgramKeeps ==
    ASSUME ScriptsInv, NEW a \in Addrs, CallProgram(a)
    PROVE  ScriptsInv'
  <1> DEFINE f == [op |-> "direct", slot |-> 0, addr |-> a, prog |-> amx[a]]
  <1>1. amx[a] \in Programs /\ amx[a] <= loads
    BY DEF CallProgram, ScriptsInv, Good, HeapGood
  <1>2. f \in Frame
    BY <1>1, ScriptsAssumption DEF Frame, Ops
  <1>3. f.op = "direct" /\ f.addr = a /\ f.prog = amx[a]
    OBVIOUS
  <1>4. stack' = Append(stack, f)
    <2>1. stack' = <<f>> /\ stack = <<>>
      BY DEF CallProgram
    <2> HIDE DEF f
    <2> QED
      BY <2>1
  <1> HIDE DEF f
  <1>5. /\ Good(amx, slot, name, mode, stack, loads, fileOf, faults)
        /\ faults \in SUBSET {"refused", "self"}
    BY DEF ScriptsInv, Good, Typed
  <1>6. Good(amx, slot, name, mode, Append(stack, f), loads, fileOf, faults)
    BY <1>1, <1>2, <1>3, <1>5, PushGood DEF Exits
  <1> QED
    BY <1>4, <1>6 DEF CallProgram, ScriptsInv

LEMMA UnloadKeeps ==
    ASSUME ScriptsInv, Unload
    PROVE  ScriptsInv'
  <1>1. Good(amx, slot, name, mode, <<>>, loads, fileOf, faults) /\ mode # None
    BY DEF Unload, ScriptsInv
  <1>2. Good([amx EXCEPT ![mode] = Free], slot, name, None, <<>>, loads, fileOf, faults)
    BY <1>1, ModeFreedGood
  <1> QED
    BY <1>2 DEF Unload, ScriptsInv

LEMMA LoadKeeps ==
    ASSUME ScriptsInv, NEW a \in Addrs, Load(a)
    PROVE  ScriptsInv'
  <1>1. /\ Good(amx, slot, name, None, <<>>, loads, fileOf, faults)
        /\ amx[a] = Free /\ loads < MaxLoads
    BY DEF Load, Allocate, ScriptsInv
  <1>2. Good([amx EXCEPT ![a] = loads + 1], slot, name, a, <<>>, loads + 1,
             [fileOf EXCEPT ![loads + 1] = ModeFile], faults)
    BY <1>1, ModeLoadedGood
  <1> QED
    BY <1>2 DEF Load, Allocate, ScriptsInv

LEMMA LoadModeKeeps ==
    ASSUME ScriptsInv, LoadMode
    PROVE  ScriptsInv'
  <1>1. ASSUME NEW a \in Addrs, NEW c \in {Wild, Zeroed}, LoadModeFails(a, c)
        PROVE  ScriptsInv'
    <2>1. /\ Good(amx, slot, name, None, <<>>, loads, fileOf, faults)
          /\ amx[a] = Free /\ loads < MaxLoads
      BY <1>1 DEF LoadModeFails, ScriptsInv
    <2>2. Good([amx EXCEPT ![a] = c], slot, name, a, <<>>, loads, fileOf,
               faults \cup {"refused"})
      BY <2>1, ModeFailedGood
    <2>3. Good([amx EXCEPT ![a] = c], slot, name, a, <<>>, loads + 1, fileOf,
               faults \cup {"refused"})
      BY <2>1, <2>2, CountGood
    <2> QED
      BY <1>1, <2>3 DEF LoadModeFails, ScriptsInv
  <1> QED
    BY <1>1, LoadKeeps DEF LoadMode

LEMMA ScriptsInvStep == ScriptsInv /\ [ScriptsNext]_scriptVars => ScriptsInv'
  <1> SUFFICES ASSUME ScriptsInv, [ScriptsNext]_scriptVars PROVE ScriptsInv'
    OBVIOUS
  <1>1. CASE Commands
    <2>1. CASE \E n \in Files, i \in Slots, a \in Addrs : BeginLoad(n, i, a)
      BY <2>1, BeginLoadKeeps
    <2>2. CASE \E n \in Files, i \in Slots, a \in Addrs : LoadFails(n, i, a)
      BY <2>2, LoadFailsKeeps
    <2>3. CASE \E n \in Files, i \in Slots, op \in {"exit", "reload"} : BeginUnload(n, i, op)
      BY <2>3, BeginUnloadKeeps DEF Exits
    <2> QED
      BY <1>1, <2>1, <2>2, <2>3 DEF Commands
  <1>2. CASE EndLoad
    BY <1>2, EndLoadKeeps
  <1>3. CASE Unloads
    BY <1>3, EndUnloadKeeps, EndReloadKeeps DEF Unloads
  <1>4. CASE EndUnloadCrashes \/ FreedProgramRuns \/ ThreadCrashes
    BY <1>4, CrashKeeps DEF EndUnloadCrashes, FreedProgramRuns, ThreadCrashes
  <1>5. CASE BeginEvent \/ EndEvent \/ EndMode \/ ReturnProgram
    BY <1>5, EventKeeps
  <1>6. CASE Unload \/ UnloadCrashes
    BY <1>6, UnloadKeeps, CrashKeeps, CrashesCrash DEF UnloadCrashes
  <1>7. CASE LoadMode
    BY <1>7, LoadModeKeeps
  <1>8. CASE \E a \in Addrs : CallProgram(a) \/ CallProgramCrashes(a)
    BY <1>8, CallProgramKeeps, CrashKeeps DEF CallProgramCrashes
  <1>9. CASE UNCHANGED scriptVars
    BY <1>9 DEF scriptVars, ScriptsInv
  <1> QED
    BY <1>1, <1>2, <1>3, <1>4, <1>5, <1>6, <1>7, <1>8, <1>9 DEF ScriptsNext, Return

-----------------------------------------------------------------------------
(* What frees a program, and what kills the process. *)

LEMMA ExitFrees ==
    ASSUME ScriptsInv, Returns("exit") \/ Returns("reload"), slot[Top.slot] # None,
           NEW a \in Addrs, HeapWithout(Top.slot)[a] # amx[a], "self" \notin faults
    PROVE  stack # <<>> /\ Top.op \in Exits /\ Top.prog = amx[a]
  <1>1. /\ Top.slot \in Slots
        /\ slot[Top.slot] \in Addrs
        /\ amx \in [Addrs -> Programs \cup {Free, Zeroed, Wild}]
    <2>1. Top.slot \in Slots
      BY ExitSlot
    <2>2. slot \in [Slots -> Addrs \cup {None}] /\ amx \in [Addrs -> Programs \cup {Free, Zeroed, Wild}]
      BY DEF ScriptsInv, Good, Typed
    <2> QED
      BY <2>1, <2>2
  <1>0. stack # <<>> /\ Top.op \in Exits
    BY DEF Returns, Exits
  <1>2. Len(stack) \in DOMAIN stack
    BY <1>0, Cut DEF ScriptsInv, Good, Typed
  <1>3. slot[Top.slot] = Top.addr /\ amx[Top.addr] = Top.prog
    BY <1>0, <1>2 DEF ScriptsInv, Good, CalmGood, Top
  <1>4. a = slot[Top.slot]
    BY <1>1 DEF HeapWithout
  <1> QED
    BY <1>0, <1>3, <1>4

LEMMA StepFrees ==
    ASSUME ScriptsInv, [ScriptsNext]_scriptVars,
           NEW a \in Addrs, amx[a] \in Programs, amx'[a] # amx[a], "self" \notin faults
    PROVE  \/ a = mode /\ stack = <<>>
           \/ stack # <<>> /\ Top.op \in Exits /\ Top.prog = amx[a]
  <1>0. amx \in [Addrs -> Programs \cup {Free, Zeroed, Wild}]
    BY DEF ScriptsInv, Good, Typed
  <1>1. CASE Commands
    <2>1. ASSUME NEW n \in Files, NEW i \in Slots, NEW b \in Addrs, BeginLoad(n, i, b)
          PROVE  FALSE
      BY <1>0, <2>1, Marks DEF BeginLoad, Allocate
    <2>2. ASSUME NEW n \in Files, NEW i \in Slots, NEW b \in Addrs, LoadFails(n, i, b)
          PROVE  FALSE
      BY <1>0, <2>2, Marks DEF LoadFails
    <2>3. ASSUME NEW n \in Files, NEW i \in Slots, NEW op \in {"exit", "reload"},
                 BeginUnload(n, i, op)
          PROVE  FALSE
      BY <2>3 DEF BeginUnload
    <2> QED
      BY <1>1, <2>1, <2>2, <2>3 DEF Commands
  <1>2. CASE EndUnload
    <2>1. /\ Returns("exit") \/ Returns("reload")
          /\ slot[Top.slot] # None
          /\ amx' = HeapWithout(Top.slot)
      BY <1>2 DEF EndUnload
    <2> QED
      BY <2>1, ExitFrees
  <1>3. ASSUME NEW i \in Slots, NEW b \in Addrs, EndReload(i, b)
        PROVE  stack # <<>> /\ Top.op \in Exits /\ Top.prog = amx[a]
    <2>1. Returns("reload") /\ slot[Top.slot] # None
      BY <1>3 DEF EndReload
    <2>2. /\ HeapWithout(Top.slot)[b] = Free
          /\ amx' = [HeapWithout(Top.slot) EXCEPT ![b] = loads + 1]
      BY <1>3 DEF EndReload, Allocate
    <2>3. HeapWithout(Top.slot) \in [Addrs -> Programs \cup {Free, Zeroed, Wild}]
      BY <1>0 DEF HeapWithout
    <2>4. HeapWithout(Top.slot)[a] # amx[a]
      <3>1. CASE a = b
        BY <3>1, <2>2, Marks
      <3>2. CASE a # b
        BY <3>2, <2>2, <2>3
      <3> QED
        BY <3>1, <3>2
    <2> QED
      BY <2>1, <2>4, ExitFrees
  <1>4. CASE BeginEvent \/ EndEvent
    <2>1. amx' = amx
      BY <1>4 DEF BeginEvent, EndEvent, CallBehind, CallMode, CallCrashes, ModeCrashes, Crash
    <2> QED
      BY <2>1
  <1>5. CASE EndLoad \/ EndMode \/ ReturnProgram
    BY <1>5 DEF EndLoad, EndMode, ReturnProgram
  <1>6. CASE EndUnloadCrashes \/ FreedProgramRuns \/ ThreadCrashes
    BY <1>6 DEF EndUnloadCrashes, FreedProgramRuns, ThreadCrashes, Crash
  <1>b. CASE UnloadCrashes
    BY <1>b DEF UnloadCrashes, ModeCrashes, Crash
  <1>7. CASE Unload
    <2>1. amx' = [amx EXCEPT ![mode] = Free] /\ stack = <<>>
      BY <1>7 DEF Unload
    <2> QED
      BY <2>1, <1>0
  <1>8. CASE LoadMode
    <2>1. ASSUME NEW b \in Addrs, Load(b) PROVE FALSE
      BY <1>0, <2>1, Marks DEF Load, Allocate
    <2>2. ASSUME NEW b \in Addrs, NEW c \in {Wild, Zeroed}, LoadModeFails(b, c) PROVE FALSE
      BY <1>0, <2>2, Marks DEF LoadModeFails
    <2> QED
      BY <1>8, <2>1, <2>2 DEF LoadMode
  <1>9. ASSUME NEW b \in Addrs, CallProgram(b) \/ CallProgramCrashes(b) PROVE FALSE
    BY <1>9 DEF CallProgram, CallProgramCrashes, Crash
  <1>10. CASE UNCHANGED scriptVars
    BY <1>10 DEF scriptVars
  <1> QED
    BY <1>1, <1>2, <1>3, <1>4, <1>5, <1>6, <1>7, <1>8, <1>9, <1>10, <1>b
    DEF ScriptsNext, Return, Unloads

\* The ways to die other than through a kept AMX pointer need a fault.
LEMMA EndUnloadCrashFault ==
    ASSUME ScriptsInv, EndUnloadCrashes
    PROVE  "self" \in faults
  <1>1. stack # <<>> /\ Top.op \in Exits /\ slot[Top.slot] = None
    BY DEF EndUnloadCrashes, Returns, Exits
  <1>2. Len(stack) \in DOMAIN stack /\ Top \in Frame
    BY <1>1, Cut DEF ScriptsInv, Good, Typed, Top
  <1>3. Top.addr \in Addrs
    BY <1>2 DEF Frame
  <1>4. "self" \notin faults => slot[Top.slot] = Top.addr
    BY <1>1, <1>2 DEF ScriptsInv, Good, CalmGood, Top
  <1> QED
    BY <1>1, <1>3, <1>4, Marks

LEMMA FreedProgramFault ==
    ASSUME ScriptsInv, FreedProgramRuns
    PROVE  "self" \in faults
  <1>1. stack # <<>> /\ amx[Top.addr] # Top.prog
    BY DEF FreedProgramRuns, TopAlive
  <1>2. Len(stack) \in DOMAIN stack
    BY <1>1, Cut DEF ScriptsInv, Good, Typed
  <1> QED
    BY <1>1, <1>2 DEF ScriptsInv, Good, CalmGood, Top

LEMMA ModeFault ==
    ASSUME ScriptsInv, ModeCrashes
    PROVE  "refused" \in faults
  <1>1. mode # None /\ amx[mode] \notin Programs
    BY DEF ModeCrashes, Initialised
  <1>2. mode \in Addrs /\ amx[mode] \in Programs \cup {Free, Zeroed, Wild}
    BY <1>1 DEF ScriptsInv, Good, Typed
  <1>3. amx[mode] # Free
    BY <1>1 DEF ScriptsInv, Good, SlotsGood
  <1> QED
    BY <1>1, <1>2, <1>3 DEF ScriptsInv, Good, HeapGood

LEMMA WalkFault ==
    ASSUME ScriptsInv, NEW k \in 0 .. MaxScripts, CallCrashes(k)
    PROVE  "refused" \in faults
  <1>1. CASE ModeCrashes
    BY <1>1, ModeFault
  <1>2. CASE ~ModeCrashes
    <2>1. PICK i \in k + 1 .. MaxScripts : slot[i] # None /\ amx[slot[i]] \notin Programs
      BY <1>2 DEF CallCrashes
    <2>2. i \in Slots
      BY <2>1, ScriptsAssumption DEF Slots
    <2>3. slot[i] \in Addrs /\ amx[slot[i]] \in Programs \cup {Free, Zeroed, Wild}
      BY <2>1, <2>2 DEF ScriptsInv, Good, Typed
    <2>4. amx[slot[i]] # Free
      BY <2>1, <2>2 DEF ScriptsInv, Good, SlotsGood
    <2> QED
      BY <2>1, <2>3, <2>4 DEF ScriptsInv, Good, HeapGood
  <1> QED
    BY <1>1, <1>2

-----------------------------------------------------------------------------
(* Theorems. *)

LEMMA ScriptsInvAlways == ScriptsSpec => []ScriptsInv
  BY ScriptsInvInit, ScriptsInvStep, PTL DEF ScriptsSpec

LEMMA ScriptsInvShows == ScriptsInv => ScriptsTypeOK /\ SlotsInv
  BY DEF ScriptsInv, Good, Typed, ScriptsTypeOK, HeapGood, SlotsGood, SlotsInv, NamesTrue,
         PointersValid

\* Slots, heap, callbacks and history keep their types, however filterscripts
\* load, unload and reload each other in callbacks.
THEOREM ScriptsTypesAlways == ScriptsSpec => []ScriptsTypeOK
  BY ScriptsInvAlways, ScriptsInvShows, PTL

\* Between any two steps of LoadFilterScript and RemoveFilterScript, nested as
\* they may be, a name in a slot is that of the live program in it, no pointer
\* dangles, and no two slots (nor a slot and the game mode) share an AMX.
THEOREM SlotsAlwaysRight == ScriptsSpec => []SlotsInv
  BY ScriptsInvAlways, ScriptsInvShows, PTL

\* No program but the game mode is freed without its own OnFilterScriptExit
\* having just returned, unless a script was told to unload itself.
THEOREM AlwaysExitBeforeFree == ScriptsSpec => ExitBeforeFree
  <1>1. ScriptsInv /\ [ScriptsNext]_scriptVars =>
            [\A a \in Addrs : amx[a] \in Programs /\ amx'[a] # amx[a] =>
                \/ a = mode /\ stack = <<>>
                \/ stack # <<>> /\ Top.op \in {"exit", "reload"} /\ Top.prog = amx[a]
                \/ "self" \in faults]_scriptVars
    BY StepFrees DEF Exits
  <1> QED
    BY <1>1, ScriptsInvAlways, PTL DEF ScriptsSpec, ExitBeforeFree
=============================================================================
