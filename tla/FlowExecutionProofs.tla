------------------------- MODULE FlowExecutionProofs -------------------------
(***************************************************************************)
(* Proofs about FlowExecution, for any dependency graph, any disabled jobs *)
(* and any interleaving of the threads: its type invariant, that a job     *)
(* runs after its dependees, that cancel() reaches every job, and that the *)
(* flows keep the promise of FlowOrder until they are cancelled.           *)
(*                                                                         *)
(* FlowInvariant has what is inductive.  The proof that a step keeps it    *)
(* looks at the step as a thread that takes its first frame and puts       *)
(* others in its place (Moves), and asks for each token who had it and who *)
(* has it now (Passes), for each frame what it knows (Says), and for each  *)
(* object what the step did to it (Effects).                               *)
(***************************************************************************)
EXTENDS FlowInvariant, SequenceTheorems, TLAPS


(* An object is a leaf, a group or a composed flow of a job.                *)
LEMMA ObjectFacts ==
  ASSUME NEW o \in Objects
  PROVE  /\ o = <<o[1], o[2]>> /\ o[2] \in Jobs
         /\ \/ o[1] = "leaf" /\ o = Leaf(o[2])
            \/ o[1] = "group" /\ o[2] \in Dependents /\ o = Group(o[2])
            \/ o[1] = "composed" /\ o[2] \in Dependents /\ o = Composed(o[2])
BY DEF Objects, Leaf, Group, Composed, Dependents

(* Different kinds of objects, callbacks and tokens have different names.   *)
LEMMA Names ==
  ASSUME NEW j \in Jobs, NEW k \in Jobs
  PROVE  /\ Leaf(j) \in Objects /\ Leaf(j)[1] = "leaf" /\ Leaf(j)[2] = j
         /\ Group(j)[1] = "group" /\ Group(j)[2] = j
         /\ Composed(j)[1] = "composed" /\ Composed(j)[2] = j
         /\ j \in Dependents => Group(j) \in Objects /\ Composed(j) \in Objects
         /\ FlowOf(j) \in Objects /\ FlowOf(j)[2] = j
         /\ Leaf(j) # Group(k) /\ Leaf(j) # Composed(k) /\ Group(j) # Composed(k)
         /\ Leaf(j) = Leaf(k) => j = k
         /\ Group(j) = Group(k) => j = k
         /\ Composed(j) = Composed(k) => j = k
         /\ FlowOf(j) = FlowOf(k) => j = k
         /\ FlowOf(j) = Leaf(k) <=> j = k /\ j \notin Dependents
         /\ FlowOf(j) = Composed(k) <=> j = k /\ j \in Dependents
         /\ FlowOf(j) # Group(k)
BY DEF Objects, Leaf, Group, Composed, FlowOf, Dependents

(* Whom a callback belongs to.                                              *)
LEMMA CallbackFacts ==
  /\ \A j \in Dependents :
       /\ DependeeCallback(j) \in TheCallbacks /\ DependerCallback(j) \in TheCallbacks
       /\ GroupCallback(j, 1) \in TheCallbacks
       /\ DependeeCallback(j)[1] = "dependeeCallback" /\ DependeeCallback(j)[2] = j
       /\ DependerCallback(j)[1] = "dependerCallback" /\ DependerCallback(j)[2] = j
       /\ GroupCallback(j, 1)[1] = "groupCallback" /\ GroupCallback(j, 1)[2] = j
       /\ GroupCallback(j, 1)[3] = 1
  /\ RootCallback \in TheCallbacks /\ RootCallback[1] = "rootCallback"
  /\ \A c \in TheCallbacks :
       \/ c = RootCallback
       \/ c[2] \in Dependents /\ c = DependeeCallback(c[2])
       \/ c[2] \in Dependents /\ c = DependerCallback(c[2])
       \/ c[2] \in Dependents /\ c = GroupCallback(c[2], 1)
<1> USE DEF TheCallbacks, DependeeCallback, DependerCallback, GroupCallback, RootCallback
<1>1. \A j \in Dependents :
       /\ DependeeCallback(j) \in TheCallbacks /\ DependerCallback(j) \in TheCallbacks
       /\ GroupCallback(j, 1) \in TheCallbacks
       /\ DependeeCallback(j)[1] = "dependeeCallback" /\ DependeeCallback(j)[2] = j
       /\ DependerCallback(j)[1] = "dependerCallback" /\ DependerCallback(j)[2] = j
       /\ GroupCallback(j, 1)[1] = "groupCallback" /\ GroupCallback(j, 1)[2] = j
       /\ GroupCallback(j, 1)[3] = 1
  OBVIOUS
<1>2. RootCallback \in TheCallbacks /\ RootCallback[1] = "rootCallback"
  OBVIOUS
<1>3. \A c \in TheCallbacks :
       \/ c = RootCallback
       \/ c[2] \in Dependents /\ c = DependeeCallback(c[2])
       \/ c[2] \in Dependents /\ c = DependerCallback(c[2])
       \/ c[2] \in Dependents /\ c = GroupCallback(c[2], 1)
  OBVIOUS
<1> QED BY <1>1, <1>2, <1>3

(* A place is a thread and an index of its stack.                           *)
LEMMA PlaceFacts ==
  /\ \A p \in Places : p = <<p[1], p[2]>> /\ p[1] \in Threads /\ p[2] \in DOMAIN stack[p[1]]
  /\ \A t \in Threads : \A i \in DOMAIN stack[t] : <<t, i>> \in Places /\ FrameAt(<<t, i>>) = stack[t][i]
BY DEF Places, FrameAt

(* Thread t takes its top frame, and v goes on with fs.                     *)
Takes(t, v, fs) ==
  /\ stack[t] # <<>>
  /\ \/ v = t /\ stack' = [stack EXCEPT ![t] = fs \o Tail(@)]
     \/ v # t /\ stack[v] = <<>> /\ stack' = [stack EXCEPT ![t] = Tail(@), ![v] = fs]

Moves(t, v, fs, old) ==
  /\ old \in [Places' -> Places] /\ <<t, 1>> \in Places
  /\ \A p \in Places' :
       IF old[p] = <<t, 1>> THEN \E i \in DOMAIN fs : p = <<v, i>> /\ FrameAt(p)' = fs[i]
       ELSE FrameAt(p)' = FrameAt(old[p]) /\ \A q \in Places' : old[q] = old[p] => q = p

(* Where the frames are when a thread's first frame gave way to others.     *)
LEMMA StackStep ==
  ASSUME stack \in [Threads -> Seq(Frames)], NEW t \in Threads, NEW v \in Threads,
         NEW fs \in Seq(Frames), Takes(t, v, fs)
  PROVE  /\ stack' \in [Threads -> Seq(Frames)]
         /\ \E old : Moves(t, v, fs, old)
<1> DEFINE n == IF v = t THEN Len(fs) ELSE 0
           old == [p \in Places' |->
                     IF p[1] = t THEN IF p[2] <= n THEN <<t, 1>> ELSE <<t, p[2] - n + 1>>
                     ELSE IF p[1] = v THEN <<t, 1>> ELSE p]
<1>1. /\ stack[t] \in Seq(Frames) /\ stack[t] # <<>> /\ Tail(stack[t]) \in Seq(Frames)
      /\ Len(stack[t]) \in Nat /\ Len(Tail(stack[t])) = Len(stack[t]) - 1
      /\ Len(stack[t]) # 0
      /\ \A i \in 1..(Len(stack[t]) - 1) : Tail(stack[t])[i] = stack[t][i + 1]
  BY DEF Takes
<1>2. /\ fs \o Tail(stack[t]) \in Seq(Frames)
      /\ Len(fs \o Tail(stack[t])) = Len(fs) + Len(Tail(stack[t]))
      /\ \A i \in 1..(Len(fs) + Len(Tail(stack[t]))) :
           (fs \o Tail(stack[t]))[i] =
             IF i <= Len(fs) THEN fs[i] ELSE Tail(stack[t])[i - Len(fs)]
  BY <1>1, ConcatProperties
<1>3. stack' \in [Threads -> Seq(Frames)]
  BY <1>1, <1>2 DEF Takes
<1>4. n \in Nat /\ Len(fs) \in Nat
  OBVIOUS
<1>5. \A p \in Places' :
        /\ p = <<p[1], p[2]>> /\ p[1] \in Threads /\ p[2] \in 1..Len(stack'[p[1]])
        /\ FrameAt(p)' = stack'[p[1]][p[2]]
  BY <1>3 DEF Places, FrameAt
<1>6. \A p \in Places :
        /\ p = <<p[1], p[2]>> /\ p[1] \in Threads /\ p[2] \in 1..Len(stack[p[1]])
        /\ FrameAt(p) = stack[p[1]][p[2]]
  BY DEF Places, FrameAt
<1>7. \A u \in Threads : \A i \in 1..Len(stack[u]) : <<u, i>> \in Places
  BY DEF Places
<1>8. Len(stack'[t]) = n + Len(stack[t]) - 1
  BY <1>1, <1>2, <1>4 DEF Takes
<1>9. \A i \in 1..Len(stack'[t]) :
        stack'[t][i] = IF i <= n THEN fs[i] ELSE stack[t][i - n + 1]
  <2>1. CASE v = t
    <3>1. stack'[t] = fs \o Tail(stack[t]) /\ n = Len(fs)
      BY <2>1 DEF Takes
    <3> HIDE DEF n
    <3>2. SUFFICES ASSUME NEW i \in 1..(n + Len(stack[t]) - 1)
                   PROVE  stack'[t][i] = IF i <= n THEN fs[i] ELSE stack[t][i - n + 1]
      BY <1>8
    <3>3. stack'[t][i] = IF i <= n THEN fs[i] ELSE Tail(stack[t])[i - n]
      BY <3>1, <1>1, <1>2, <1>4
    <3>4. CASE i > n
      <4>1. i - n \in 1..(Len(stack[t]) - 1) /\ ~(i <= n)
        BY <3>1, <3>4, <1>4, <1>1
      <4> QED
        BY <3>3, <4>1, <1>1
    <3> QED
      BY <3>1, <3>3, <3>4, <1>4
  <2>2. CASE v # t
    <3>1. stack'[t] = Tail(stack[t]) /\ n = 0
      BY <2>2 DEF Takes
    <3> HIDE DEF n
    <3>2. \A i \in 1..Len(stack'[t]) : ~(i <= n) /\ i - n + 1 = i + 1 /\ i \in 1..(Len(stack[t]) - 1)
      BY <3>1, <1>8, <1>1
    <3> QED
      BY <3>1, <3>2, <1>1
  <2> QED
    BY <2>1, <2>2
<1>10. v # t => stack'[v] = fs
  BY DEF Takes
<1>11. \A u \in Threads \ {t, v} : stack'[u] = stack[u]
  BY DEF Takes
<1>12. \A p \in Places' :
         /\ old[p] \in Places
         /\ old[p] = <<t, 1>> => \E i \in DOMAIN fs : p = <<v, i>> /\ FrameAt(p)' = fs[i]
         /\ old[p] # <<t, 1>> => FrameAt(p)' = FrameAt(old[p])
  <2> TAKE p \in Places'
  <2>1. CASE p[1] = t /\ p[2] <= n
    <3>1. old[p] = <<t, 1>> /\ p = <<t, p[2]>> /\ v = t /\ p[2] \in 1..Len(fs)
      BY <2>1, <1>5, <1>4
    <3> QED
      BY <3>1, <2>1, <1>5, <1>7, <1>1, <1>9
  <2>2. CASE p[1] = t /\ p[2] > n
    <3>1. p[2] - n + 1 \in 2..Len(stack[t]) /\ p[2] \in 1..Len(stack'[t])
      BY <2>2, <1>5, <1>8, <1>4, <1>1
    <3>2. old[p] = <<t, p[2] - n + 1>> /\ ~(p[2] <= n)
      BY <2>2, <3>1, <1>4, <1>5
    <3>3. old[p] \in Places /\ FrameAt(old[p]) = stack[t][p[2] - n + 1] /\ old[p] # <<t, 1>>
      BY <3>1, <3>2, <1>7, <1>1, <1>6 DEF FrameAt
    <3> QED
      BY <3>1, <3>2, <3>3, <2>2, <1>5, <1>9
  <2>3. CASE p[1] # t /\ p[1] = v
    <3>1. old[p] = <<t, 1>> /\ p = <<v, p[2]>> /\ p[2] \in 1..Len(fs)
      BY <2>3, <1>5, <1>10
    <3> QED
      BY <3>1, <2>3, <1>5, <1>7, <1>1, <1>10
  <2>4. CASE p[1] # t /\ p[1] # v
    <3>1. old[p] = p /\ p \in Places /\ FrameAt(p) = stack[p[1]][p[2]]
      BY <2>4, <1>5, <1>7, <1>11 DEF FrameAt
    <3> QED
      BY <3>1, <2>4, <1>5, <1>11
  <2> QED
    BY <2>1, <2>2, <2>3, <2>4, <1>4, <1>5
<1>13. \A p, q \in Places' : old[p] # <<t, 1>> /\ old[q] = old[p] => q = p
  <2> TAKE p, q \in Places'
  <2> HAVE old[p] # <<t, 1>> /\ old[q] = old[p]
  <2>1. p[2] \in Nat /\ q[2] \in Nat /\ p = <<p[1], p[2]>> /\ q = <<q[1], q[2]>>
    BY <1>5
  <2>2. /\ p[1] = t => p[2] > n /\ old[p] = <<t, p[2] - n + 1>>
        /\ q[1] = t => q[2] > n /\ old[q] = <<t, q[2] - n + 1>>
        /\ p[1] # t => old[p] = p
        /\ q[1] # t => old[q] = q
    BY <2>1, <1>4
  <2>3. CASE p[1] = t /\ q[1] = t
    <3>1. p[2] - n + 1 = q[2] - n + 1
      BY <2>2, <2>3
    <3> QED
      BY <3>1, <2>1, <2>3, <1>4
  <2>4. CASE p[1] # t \/ q[1] # t
    BY <2>4, <2>2, <2>1
  <2> QED
    BY <2>3, <2>4
<1>14. <<t, 1>> \in Places
  BY <1>1, <1>7
<1> QED
  <2>1. old \in [Places' -> Places]
    BY <1>12
  <2> HIDE DEF old
  <2>2. Moves(t, v, fs, old)
    BY <2>1, <1>12, <1>13, <1>14 DEF Moves
  <2> QED
    BY <2>2, <1>3

(* What a frame acts on and carries, by its operation.                      *)
LEMMA FrameFacts ==
  ASSUME NEW f \in Frames
  PROVE  /\ f.op = "execute" => f.on \in Objects /\ f.arg \in TheCallbacks /\ f.arg \in Allowed(f.on)
         /\ f.op = "children" => f.on \in Groups /\ f.arg \in Nat \ {0}
         /\ f.op \in {"load", "running", "generated"} => f.on \in Leaves /\ f.arg = 0
         /\ f.op \in {"cancel", "release"} => f.on \in Objects /\ f.arg = 0
         /\ f.op = "callCallbacks" => f.on \in Leaves /\ f.arg \in Lists(f.on) /\ f.arg \in Seq(TheCallbacks)
         /\ f.op = "verdict" =>
              /\ f.on[2] \in Dependents /\ f.on = GroupCallback(f.on[2], 1)
              /\ f.arg \in Lists(Group(f.on[2])) /\ f.arg \in Seq(TheCallbacks)
         /\ f.op = "completed" => f.on \in TheCallbacks /\ f.arg \in Verdicts
         /\ f = [op |-> f.op, on |-> f.on, arg |-> f.arg]
BY DEF Frames, GroupCallback

(* The frames that the actions make are frames.                             *)
LEMMA FramesMade ==
  /\ \A o \in Objects : \A c \in Allowed(o) : c \in TheCallbacks => Execute(o, c) \in Frames
  /\ \A j \in Dependents : \A i \in Nat \ {0} : Children(j, i) \in Frames
  /\ \A j \in Jobs : Load(j) \in Frames /\ Running(j) \in Frames /\ Generated(j) \in Frames
  /\ \A o \in Objects : Cancel(o) \in Frames /\ Release(o) \in Frames
  /\ \A j \in Jobs : \A list \in Lists(Leaf(j)) : list \in Seq(TheCallbacks) => CallCallbacks(j, list) \in Frames
  /\ \A j \in Dependents : \A list \in Lists(Group(j)) :
       list \in Seq(TheCallbacks) => Verdict(GroupCallback(j, 1), list) \in Frames
  /\ \A c \in TheCallbacks : \A s \in Verdicts : Completed(c, s) \in Frames
<1>1. \A o \in Objects : \A c \in Allowed(o) : c \in TheCallbacks => Execute(o, c) \in Frames
  BY DEF Frames, Execute, Frame
<1>2. \A j \in Dependents : \A i \in Nat \ {0} : Children(j, i) \in Frames
  BY DEF Frames, Children, Frame, Groups
<1>3. \A j \in Jobs : Load(j) \in Frames /\ Running(j) \in Frames /\ Generated(j) \in Frames
  BY DEF Frames, Load, Running, Generated, Frame, Leaves
<1>4. \A o \in Objects : Cancel(o) \in Frames /\ Release(o) \in Frames
  BY DEF Frames, Cancel, Release, Frame
<1>5. \A j \in Jobs : \A list \in Lists(Leaf(j)) : list \in Seq(TheCallbacks) => CallCallbacks(j, list) \in Frames
  BY DEF Frames, CallCallbacks, Frame, Leaves
<1>6. \A j \in Dependents : \A list \in Lists(Group(j)) :
       list \in Seq(TheCallbacks) => Verdict(GroupCallback(j, 1), list) \in Frames
  BY DEF Frames, Verdict, Frame, GroupCallback
<1>7. \A c \in TheCallbacks : \A s \in Verdicts : Completed(c, s) \in Frames
  BY DEF Frames, Completed, Frame
<1> QED
  BY <1>1, <1>2, <1>3, <1>4, <1>5, <1>6, <1>7

(* What objects may be given, by their kind.                                *)
LEMMA AllowedFacts ==
  /\ \A o \in Objects : Allowed(o) \subseteq TheCallbacks /\ Lists(o) \subseteq Seq(TheCallbacks)
  /\ \A j \in Jobs : Allowed(FlowOf(j)) = Asked(j)
  /\ \A j \in Dependents : /\ Allowed(Group(j)) = {DependeeCallback(j)}
                           /\ Allowed(Leaf(j)) = {DependerCallback(j)}
                           /\ Allowed(Composed(j)) = Asked(j)
  /\ \A j \in Jobs : \A c \in Asked(j) : \/ c = RootCallback /\ j = Root
                                         \/ c[2] \in Dependents /\ c = GroupCallback(c[2], 1)
  /\ \A j \in Jobs : \A k \in Dependents : GroupCallback(k, 1) \in Asked(j)
  /\ \A o \in Objects : \A list \in Seq(Allowed(o)) : \A i \in DOMAIN list : list[i] \in Allowed(o)
<1> USE ObjectFacts, Names, CallbackFacts
<1>1. \A j \in Jobs : \A c \in Asked(j) : \/ c = RootCallback /\ j = Root
                                          \/ c[2] \in Dependents /\ c = GroupCallback(c[2], 1)
  BY DEF Asked
<1>2. \A j \in Dependents : /\ Allowed(Group(j)) = {DependeeCallback(j)}
                           /\ Allowed(Leaf(j)) = {DependerCallback(j)}
                           /\ Allowed(Composed(j)) = Asked(j)
  BY DEF Allowed, Dependents
<1>3. \A j \in Jobs : Allowed(FlowOf(j)) = Asked(j)
  BY DEF Allowed, FlowOf
<1>4. \A j \in Jobs : \A k \in Dependents : GroupCallback(k, 1) \in Asked(j)
  BY DEF Asked
<1>5. \A o \in Objects : Allowed(o) \subseteq TheCallbacks
  <2>1. \A j \in Jobs : Asked(j) \subseteq TheCallbacks
    BY <1>1
  <2> QED
    BY <2>1, <1>2 DEF Allowed
<1>6. \A o \in Objects : Lists(o) \subseteq Seq(TheCallbacks)
  <2> TAKE o \in Objects
  <2>1. Seq(Allowed(o)) \subseteq Seq(TheCallbacks)
    BY <1>5
  <2> QED
    BY <2>1 DEF Lists
<1>7. \A o \in Objects : \A list \in Seq(Allowed(o)) : \A i \in DOMAIN list : list[i] \in Allowed(o)
  OBVIOUS
<1> QED
  BY <1>1, <1>2, <1>3, <1>4, <1>5, <1>6, <1>7

(* Telling a list of callbacks makes one frame of each.                     *)
LEMMA CompletedAllFacts ==
  ASSUME NEW list \in Seq(TheCallbacks), NEW s \in Verdicts
  PROVE  /\ CompletedAll(list, s) \in Seq(Frames)
         /\ DOMAIN CompletedAll(list, s) = DOMAIN list
         /\ \A i \in DOMAIN list : /\ CompletedAll(list, s)[i] = Completed(list[i], s)
                                   /\ CompletedAll(list, s)[i].op = "completed"
                                   /\ CompletedAll(list, s)[i].on = list[i]
                                   /\ CompletedAll(list, s)[i].arg = s
<1>1. \A i \in DOMAIN list : Completed(list[i], s) \in Frames
  BY FramesMade
<1> QED
  BY <1>1 DEF CompletedAll, Completed, Frame

(* A token stays at one place when at most one new frame carries it, which  *)
(* had it from the frame taken or from an object that gave it up, and when  *)
(* no object gets it but from the frame taken.                              *)
LEMMA TokenStep ==
  ASSUME NEW k, NEW t \in Threads, NEW v \in Threads, NEW fs, NEW old, Moves(t, v, fs, old),
         OneToken(k),
         \A m, n \in DOMAIN fs : Carries(fs[m], k) /\ Carries(fs[n], k) => m = n,
         (\E m \in DOMAIN fs : Carries(fs[m], k)) =>
            Slots(k)' = {} /\ (Carries(FrameAt(<<t, 1>>), k) \/ Slots(k) # {}),
         \/ Slots(k)' \subseteq Slots(k)
         \/ Carries(FrameAt(<<t, 1>>), k) /\ \A s, r \in Slots(k)' : s = r
  PROVE  OneToken(k)'
<1>1. <<t, 1>> \in Places
  BY DEF Moves
<1>2. ASSUME NEW p \in Places', Carries(FrameAt(p)', k), old[p] # <<t, 1>>
      PROVE  /\ Slots(k) = {} /\ old[p] \in Places /\ Carries(FrameAt(old[p]), k)
             /\ \A q \in Places' : old[q] = old[p] => q = p
             /\ ~Carries(FrameAt(<<t, 1>>), k)
  BY <1>2, <1>1 DEF Moves, OneToken
<1>3. ASSUME NEW p \in Places', Carries(FrameAt(p)', k), old[p] = <<t, 1>>
      PROVE  \E i \in DOMAIN fs : p = <<v, i>> /\ Carries(fs[i], k)
  BY <1>3 DEF Moves
<1>4. \A p, q \in Places' : Carries(FrameAt(p)', k) /\ Carries(FrameAt(q)', k) => p = q
  <2> SUFFICES ASSUME NEW p \in Places', NEW q \in Places', Carries(FrameAt(p)', k), Carries(FrameAt(q)', k)
               PROVE  p = q
    OBVIOUS
  <2>1. CASE old[p] = <<t, 1>> /\ old[q] = <<t, 1>>
    BY <2>1, <1>3
  <2>2. CASE old[p] # <<t, 1>> /\ old[q] # <<t, 1>>
    BY <2>2, <1>2 DEF OneToken
  <2>3. CASE old[p] = <<t, 1>> /\ old[q] # <<t, 1>>
    BY <2>3, <1>2, <1>3
  <2>4. CASE old[p] # <<t, 1>> /\ old[q] = <<t, 1>>
    BY <2>4, <1>2, <1>3
  <2> QED
    BY <2>1, <2>2, <2>3, <2>4
<1>5. \A s, r \in Slots(k)' : s = r
  BY DEF OneToken
<1>6. Slots(k)' # {} => \A p \in Places' : ~Carries(FrameAt(p)', k)
  BY <1>2, <1>3
<1>7. /\ (\A p, q \in Places : Carries(FrameAt(p), k) /\ Carries(FrameAt(q), k) => p = q)' <=>
         \A p, q \in Places' : Carries(FrameAt(p)', k) /\ Carries(FrameAt(q)', k) => p = q
      /\ (\A p \in Places : ~Carries(FrameAt(p), k))' <=> \A p \in Places' : ~Carries(FrameAt(p)', k)
  BY DEF Carries
<1> QED
  BY <1>4, <1>5, <1>6, <1>7 DEF OneToken

(* The first frame of a thread, which the thread takes next.                *)
LEMMA TopFacts ==
  ASSUME FlowInv, NEW t \in Threads, stack[t] # <<>>
  PROVE  /\ <<t, 1>> \in Places
         /\ FrameAt(<<t, 1>>) = Head(stack[t]) /\ FrameAt(<<t, 1>>) \in Frames
         /\ FrameAt(<<t, 1>>).on = On(t) /\ FrameAt(<<t, 1>>).arg = Arg(t)
         /\ \A op : Doing(t, op) <=> FrameAt(<<t, 1>>).op = op
         /\ Says(FrameAt(<<t, 1>>))
<1>1. stack[t] \in Seq(Frames) /\ 1 \in DOMAIN stack[t] /\ Head(stack[t]) = stack[t][1]
  BY DEF FlowInv, Shapes
<1> QED
  BY <1>1, PlaceFacts DEF FlowInv, On, Arg, Doing

(* Then() puts frames in the place of the first.                            *)
LEMMA ThenMoves ==
  ASSUME FlowInv, NEW t \in Threads, stack[t] # <<>>, NEW fs \in Seq(Frames), Then(t, fs)
  PROVE  stack' \in [Threads -> Seq(Frames)] /\ \E old : Moves(t, t, fs, old)
<1>1. Takes(t, t, fs)
  BY DEF Takes, Then
<1> QED
  BY <1>1, StackStep DEF FlowInv, Shapes

(* ThenStart() does so, and starts a thread with a frame.                   *)
LEMMA ThenStartMoves ==
  ASSUME FlowInv, NEW t \in Threads, NEW v \in Threads, stack[t] # <<>>, NEW fs \in Seq(Frames),
         ThenStart(t, <<>>, v, fs)
  PROVE  stack' \in [Threads -> Seq(Frames)] /\ \E old : Moves(t, v, fs, old)
<1>1. stack[t] \in Seq(Frames) /\ stack[t] # <<>> /\ Tail(stack[t]) \in Seq(Frames)
      /\ <<>> \o Tail(stack[t]) = Tail(stack[t])
  BY DEF FlowInv, Shapes
<1>2. Takes(t, v, fs)
  BY <1>1 DEF Takes, ThenStart
<1> QED
  BY <1>2, StackStep DEF FlowInv, Shapes

(* The slots of each kind of token, before and after a step.                *)
LEMMA FlowSlots ==
  ASSUME NEW j \in Dependents
  PROVE  /\ \A s : s \in Slots(Flow(j)) <=>
              \/ s = "new" /\ status[Composed(j)] = "READY"
              \/ s = "group" /\ callbacks[Group(j)] # <<>> /\ ~notified[j][1]
              \/ s = "leaf" /\ callbacks[Leaf(j)] # <<>> /\ Pending(j)
              \/ s = "done" /\ status[Composed(j)] \in Finished
         /\ \A s : s \in Slots(Flow(j))' <=>
              \/ s = "new" /\ status'[Composed(j)] = "READY"
              \/ s = "group" /\ callbacks'[Group(j)] # <<>> /\ ~notified'[j][1]
              \/ s = "leaf" /\ callbacks'[Leaf(j)] # <<>> /\ Pending(j)'
              \/ s = "done" /\ status'[Composed(j)] \in Finished
BY DEF Slots, Holds, Flow

(* The right to run a job is with its leaf as long as the leaf has not run. *)
LEMMA WorkerSlots ==
  ASSUME NEW j \in Jobs
  PROVE  /\ \A s : s \in Slots(Worker(j)) <=> s = "new" /\ NotRun(j)
         /\ \A s : s \in Slots(Worker(j))' <=> s = "new" /\ NotRun(j)'
BY DEF Slots, Holds, Worker, NotRun

(* Where the root's caller may wait.                                        *)
LEMMA CallerSlots ==
  /\ \A s : s \in Slots(Caller) <=>
       \/ s = "done" /\ rootTold # <<>>
       \/ /\ s = "flow" /\ RootCallback \in RangeOf(callbacks[FlowOf(Root)])
          /\ IF Root \in Dependents THEN status[Composed(Root)] = "RUNNING" ELSE Pending(Root)
  /\ \A s : s \in Slots(Caller)' <=>
       \/ s = "done" /\ rootTold' # <<>>
       \/ /\ s = "flow" /\ RootCallback \in RangeOf(callbacks'[FlowOf(Root)])
          /\ IF Root \in Dependents THEN status'[Composed(Root)] = "RUNNING" ELSE Pending(Root)'
BY DEF Slots, Holds, Caller

(* Which frames carry a token, by their operation.                          *)
LEMMA CarriesFacts ==
  ASSUME NEW f
  PROVE  /\ \A j \in Jobs : Carries(f, Worker(j)) <=> f.op \in {"load", "running", "generated"} /\ f.on = Leaf(j)
         /\ \A j \in Dependents : Carries(f, Flow(j)) <=>
              \/ f.op = "execute" /\ f.arg \in {DependeeCallback(j), DependerCallback(j)}
              \/ f.op = "completed" /\ f.on \in {DependeeCallback(j), DependerCallback(j)}
              \/ f.op = "callCallbacks" /\ \E i \in DOMAIN f.arg : f.arg[i] \in {DependeeCallback(j), DependerCallback(j)}
         /\ Carries(f, Caller) <=>
              \/ f.op = "execute" /\ f.arg = RootCallback
              \/ f.op = "completed" /\ f.on = RootCallback
              \/ f.op = "callCallbacks" /\ \E i \in DOMAIN f.arg : f.arg[i] = RootCallback
BY DEF Carries, Worker, Flow, Caller, Told

(* A leaf has its list to take as long as it runs or its generated() is to  *)
(* come.                                                                    *)
LEMMA PendingStep ==
  ASSUME NEW j \in Jobs, OneToken(Worker(j)), NEW t \in Threads, NEW v \in Threads, NEW fs, NEW old,
         Moves(t, v, fs, old), Pending(j)', status'[Leaf(j)] # "RUNNING",
         \A i \in DOMAIN fs : ~(fs[i].op = "generated" /\ fs[i].on = Leaf(j))
  PROVE  Pending(j) /\ ~Carries(FrameAt(<<t, 1>>), Worker(j))
<1>1. PICK p \in Places' : (FrameAt(p).op)' = "generated" /\ (FrameAt(p).on)' = Leaf(j)
  BY DEF Pending, Leaf
<1>2. old[p] # <<t, 1>>
  BY <1>1 DEF Moves
<1>3. old[p] \in Places /\ <<t, 1>> \in Places /\ FrameAt(old[p]).op = "generated" /\ FrameAt(old[p]).on = Leaf(j)
  BY <1>1, <1>2 DEF Moves
<1>4. Carries(FrameAt(old[p]), Worker(j))
  BY <1>3, CarriesFacts
<1> QED
  BY <1>2, <1>3, <1>4 DEF Pending, OneToken

-----------------------------------------------------------------------------
(* What no step does.                                                       *)
EndStays(o) ==
  /\ status[o] \in Good => status'[o] \in Good
  /\ status[o] = "FAILED" => status'[o] = "FAILED" \/ cancelling'

LeafEffects(h, j) ==
  /\ EndStays(Leaf(j))
  /\ NotRun(j) => NotRun(j)' \/ cancelling' \/ (h.op = "execute" /\ h.on = Leaf(j))
  /\ status[Leaf(j)] = "RUNNING" =>
       \/ status'[Leaf(j)] = "RUNNING" \/ Carries(h, Worker(j))
       \/ status'[Leaf(j)] = "FAILED" /\ callbacks'[Leaf(j)] = <<>> /\ cancelling'
  /\ status[Leaf(j)] = "FAILED" /\ callbacks[Leaf(j)] = <<>> =>
       \/ Carries(h, Worker(j))
       \/ status'[Leaf(j)] = "FAILED" /\ callbacks'[Leaf(j)] = <<>>
  /\ status[Leaf(j)] = "SUCCEEDED" => status'[Leaf(j)] = "SUCCEEDED" \/ Carries(h, Worker(j))
  /\ status[Leaf(j)] \in Verdicts => status'[Leaf(j)] \in Verdicts

ComposedEffects(j) ==
  /\ EndStays(Composed(j))
  /\ status'[Composed(j)] = "READY" => status[Composed(j)] = "READY"

GroupEffects(h, j) ==
  /\ callbacks[Group(j)] # <<>> => callbacks'[Group(j)] # <<>>
  /\ status[Group(j)] \in Verdicts => status'[Group(j)] \in Verdicts
  /\ status'[Group(j)] = "SUCCEEDED" => status[Group(j)] = "SUCCEEDED" \/ AllGood(j)
  /\ status'[Group(j)] = "FAILED" => status[Group(j)] = "FAILED" \/ SomeFailed(j)
  /\ notified'[j][1] => notified[j][1] \/ status[Group(j)] \in Verdicts
  /\ callbacks'[Group(j)] # <<>> /\ ~notified'[j][1] =>
       \/ callbacks[Group(j)] # <<>> /\ ~notified[j][1]
       \/ h.op = "execute" /\ h.on = Group(j)

Effects(h) ==
  /\ cancelling => cancelling'
  /\ \A j \in Jobs : LeafEffects(h, j)
  /\ \A j \in Dependents : ComposedEffects(j) /\ GroupEffects(h, j)

(* A step keeps the tokens single.                                          *)
Passes(k, h, fs) ==
  /\ \A m, n \in DOMAIN fs : Carries(fs[m], k) /\ Carries(fs[n], k) => m = n
  /\ (\E m \in DOMAIN fs : Carries(fs[m], k)) =>
        Slots(k)' = {} /\ (Carries(h, k) \/ Slots(k) # {})
  /\ \/ Slots(k)' \subseteq Slots(k)
     \/ Carries(h, k) /\ \A s, r \in Slots(k)' : s = r

(* The usual case: what fs carries the top frame carried.                   *)
LEMMA HandsOn ==
  ASSUME NEW k, OneToken(k), NEW t, <<t, 1>> \in Places, NEW fs, NEW h, h = FrameAt(<<t, 1>>),
         \A m, n \in DOMAIN fs : Carries(fs[m], k) /\ Carries(fs[n], k) => m = n,
         \A m \in DOMAIN fs : Carries(fs[m], k) => Carries(h, k),
         Slots(k)' \subseteq Slots(k)
  PROVE  Passes(k, h, fs)
BY DEF Passes, OneToken

(* A step that passes every token on keeps each at one place.               *)
LEMMA TokensKept ==
  ASSUME FlowInv, NEW t \in Threads, NEW v \in Threads, NEW fs, NEW old, Moves(t, v, fs, old),
         NEW h, h = FrameAt(<<t, 1>>), \A k \in Tokens : Passes(k, h, fs)
  PROVE  \A k \in Tokens : OneToken(k)'
BY TokenStep DEF FlowInv, Passes

(* The effects a step may have keep what has ended as it ended.             *)
LEMMA EndsStay ==
  ASSUME NEW h, Effects(h), NEW j \in Jobs
  PROVE  EndStays(Leaf(j)) /\ EndStays(FlowOf(j))
BY DEF Effects, LeafEffects, ComposedEffects, FlowOf

(* A job that ended well stays so; one that failed stays failed.            *)
LEMMA GoodKept ==
  ASSUME NEW h, Effects(h), NEW j \in Dependents
  PROVE  /\ AllGood(j) => AllGood(j)'
         /\ SomeFailed(j) => SomeFailed(j)' \/ cancelling'
<1>1. j \in Jobs /\ RangeOf(Dependees[j]) \subseteq Jobs
  BY FlowConstants DEF RangeOf, Dependents
<1> QED
  BY <1>1, EndsStay DEF EndStays, AllGood, SomeFailed

(* What a frame knows stays true until the frame is taken.                  *)
LEMMA KeptSays ==
  ASSUME FlowInv, NEW t \in Threads, <<t, 1>> \in Places, NEW h \in Frames, h = FrameAt(<<t, 1>>), Effects(h),
         NEW p \in Places, p # <<t, 1>>, NEW g, g = FrameAt(p)
  PROVE  Says(g)'
<1>1. FrameAt(p) \in Frames /\ Says(FrameAt(p))
  BY PlaceFacts DEF FlowInv, Shapes
<1>2. \A k \in Tokens : Carries(FrameAt(p), k) => ~Carries(h, k)
  BY DEF FlowInv, OneToken
<1>3. Says(g) /\ g \in Frames /\ \A k \in Tokens : Carries(g, k) => ~Carries(h, k)
  BY <1>1, <1>2
<1>4. SaysOfDependees(g)'
  <2> SUFFICES ASSUME NEW j \in Dependents
               PROVE  /\ g.op = "completed" /\ g.on = DependeeCallback(j) =>
                           IF g.arg = "SUCCEEDED" THEN AllGood(j)' ELSE SomeFailed(j)' \/ cancelling'
                      /\ g.op \in {"execute", "load"} /\ g.on = Leaf(j) => AllGood(j)'
    BY DEF SaysOfDependees
  <2> QED
    BY <1>3, GoodKept DEF Says, SaysOfDependees, Effects
<1>5. SaysOfTurn(g)'
  <2> SUFFICES ASSUME NEW j \in Dependents,
                      \/ g.op = "completed" /\ g.on = DependeeCallback(j)
                      \/ g.op = "execute" /\ g.on \in {Leaf(j), Group(j)}
               PROVE  NotRun(j)' \/ cancelling'
    BY DEF SaysOfTurn
  <2>1. j \in Jobs /\ Flow(j) \in Tokens
    BY DEF Dependents, Tokens
  <2>2. Carries(g, Flow(j))
    BY <1>3, <2>1, FrameFacts, AllowedFacts, CarriesFacts
  <2>3. ~(h.op = "execute" /\ h.on = Leaf(j))
    <3>1. h.op = "execute" /\ h.on = Leaf(j) => Carries(h, Flow(j))
      BY FrameFacts, AllowedFacts, CarriesFacts
    <3> QED
      BY <3>1, <2>1, <2>2, <1>3
  <2> QED
    BY <1>3, <2>1, <2>3 DEF Says, SaysOfTurn, Effects, LeafEffects
<1>6. SaysOfLeaf(g)'
  <2>1. ASSUME g.op \in {"load", "running", "generated"}
        PROVE  \E j \in Jobs : g.on = Leaf(j) /\ ~Carries(h, Worker(j))
    <3>1. PICK j \in Jobs : g.on = Leaf(j)
      BY <2>1, <1>3, FrameFacts DEF Leaves
    <3>2. Carries(g, Worker(j)) /\ Worker(j) \in Tokens
      BY <2>1, <3>1, CarriesFacts DEF Tokens
    <3> QED
      BY <3>1, <3>2, <1>3
  <2>2. g.op \in {"load", "running"} =>
          \/ status'[g.on] = "RUNNING"
          \/ status'[g.on] = "FAILED" /\ callbacks'[g.on] = <<>> /\ cancelling'
    BY <2>1, <1>3 DEF Says, SaysOfLeaf, Effects, LeafEffects
  <2>3. g.op = "generated" => status'[g.on] = "SUCCEEDED"
    BY <2>1, <1>3 DEF Says, SaysOfLeaf, Effects, LeafEffects
  <2>4. g.op = "callCallbacks" => status'[g.on] \in Verdicts
    <3> SUFFICES ASSUME g.op = "callCallbacks"
                 PROVE  status'[g.on] \in Verdicts
      OBVIOUS
    <3>1. PICK j \in Jobs : g.on = Leaf(j)
      BY <1>3, FrameFacts DEF Leaves
    <3> QED
      BY <3>1, <1>3 DEF Says, SaysOfLeaf, Effects, LeafEffects
  <2> QED
    BY <2>2, <2>3, <2>4 DEF SaysOfLeaf
<1>7. SaysOfVerdict(g)'
  <2>1. \A j \in Jobs : \A o \in {Leaf(j), FlowOf(j)} : \A w :
          Means(status[o], w) => Means(status'[o], w) \/ cancelling'
    BY EndsStay DEF EndStays, Means
  <2>2. Dependents \subseteq Jobs /\ Root \in Jobs /\ (cancelling => cancelling')
    BY FlowConstants DEF Dependents, Effects
  <2> QED
    BY <1>3, <2>1, <2>2 DEF Says, SaysOfVerdict, Means
<1>8. SaysOfList(g)'
  <2> SUFFICES ASSUME g.op = "verdict", g.arg # <<>>
               PROVE  callbacks'[Group(g.on[2])] # <<>>
    BY DEF SaysOfList
  <2>1. g.on[2] \in Dependents
    BY <1>3, FrameFacts
  <2> QED
    BY <2>1, <1>3 DEF Says, SaysOfList, Effects, GroupEffects
<1>9. SaysOfCancel(g)'
  BY <1>3 DEF Says, SaysOfCancel, Effects
<1> QED
  BY <1>4, <1>5, <1>6, <1>7, <1>8, <1>9 DEF Says

(* A step that has the effects a step may have, and passes the tokens on,   *)
(* keeps the invariant, if what its new frames know is true.                *)
LEMMA StepKeeps ==
  ASSUME FlowInv, NEW t \in Threads, NEW v \in Threads, NEW fs, NEW old, Moves(t, v, fs, old),
         NEW h, h = FrameAt(<<t, 1>>),
         Shapes', Effects(h),
         \A k \in Tokens : Passes(k, h, fs),
         \A i \in DOMAIN fs : Says(fs[i])'
  PROVE  FlowInv'
<1>1. <<t, 1>> \in Places /\ h \in Frames /\ Says(h)
  BY PlaceFacts DEF Moves, FlowInv, Shapes
<1>2. \A k \in Tokens : OneToken(k)'
  BY TokensKept
<1>3. \A p \in Places' : \E g : g = FrameAt(p)' /\ Says(g)'
  <2> TAKE p \in Places'
  <2>1. CASE old[p] = <<t, 1>>
    BY <2>1 DEF Moves
  <2>2. CASE old[p] # <<t, 1>>
    <3>1. PICK g : g = FrameAt(old[p])
      OBVIOUS
    <3>2. old[p] \in Places /\ FrameAt(p)' = g
      BY <2>2, <3>1 DEF Moves
    <3>3. Says(g)'
      BY <1>1, <2>2, <3>1, <3>2, KeptSays
    <3> QED
      BY <3>2, <3>3
  <2> QED
    BY <2>1, <2>2
<1>4. (\A p \in Places : Says(FrameAt(p)))'
  BY <1>3
<1>5. GroupsKnow'
  <2> SUFFICES ASSUME NEW j \in Dependents
               PROVE  /\ status'[Group(j)] = "SUCCEEDED" => AllGood(j)'
                      /\ status'[Group(j)] = "FAILED" => SomeFailed(j)' \/ cancelling'
                      /\ notified'[j][1] => status'[Group(j)] \in Verdicts
    BY DEF GroupsKnow
  <2> QED
    BY GoodKept DEF FlowInv, GroupsKnow, Effects, GroupEffects
<1>6. TurnsCome'
  <2> SUFFICES ASSUME NEW j \in Dependents, "new" \in Slots(Flow(j))' \/ "group" \in Slots(Flow(j))'
               PROVE  NotRun(j)' \/ cancelling'
    BY DEF TurnsCome, Slots
  <2>1. j \in Jobs /\ Flow(j) \in Tokens
    BY DEF Dependents, Tokens
  <2>2. CASE h.op = "execute" /\ h.on = Group(j)
    <3>1. NotRun(j) \/ cancelling
      BY <1>1, <2>2 DEF Says, SaysOfTurn
    <3> QED
      BY <2>1, <2>2, <3>1, Names DEF Effects, LeafEffects
  <2>3. CASE "new" \in Slots(Flow(j)) \/ "group" \in Slots(Flow(j))
    <3>1. NotRun(j) \/ cancelling
      BY <2>3 DEF FlowInv, TurnsCome, Slots
    <3>2. ~Carries(h, Flow(j))
      BY <1>1, <2>1, <2>3 DEF FlowInv, OneToken
    <3>3. ~(h.op = "execute" /\ h.on = Leaf(j))
      BY <1>1, <2>1, <3>2, FrameFacts, AllowedFacts, CarriesFacts
    <3> QED
      BY <2>1, <3>1, <3>3 DEF Effects, LeafEffects
  <2>4. \/ h.op = "execute" /\ h.on = Group(j)
        \/ "new" \in Slots(Flow(j)) \/ "group" \in Slots(Flow(j))
    BY FlowSlots DEF Effects, ComposedEffects, GroupEffects
  <2> QED
    BY <2>2, <2>3, <2>4
<1> QED
  BY <1>2, <1>4, <1>5, <1>6 DEF FlowInv

(* The frame that thread t takes.                                           *)
Takes1(t, h, op) ==
  /\ h \in Frames /\ h = FrameAt(<<t, 1>>) /\ <<t, 1>> \in Places /\ stack[t] # <<>>
  /\ h.op = op /\ h.on = On(t) /\ h.arg = Arg(t) /\ Says(h)

(* A thread that takes a step takes its first frame.                        *)
LEMMA TakesTop ==
  ASSUME FlowInv, NEW t \in Threads, NEW op, Doing(t, op)
  PROVE  \E h : Takes1(t, h, op)
<1>1. stack[t] # <<>>
  BY DEF Doing
<1> QED
  BY <1>1, TopFacts DEF Takes1

(* A token that the taken frame carries is nowhere else.                    *)
LEMMA TakenToken ==
  ASSUME FlowInv, NEW t, NEW h, NEW op, Takes1(t, h, op), NEW k \in Tokens, Carries(h, k)
  PROVE  Slots(k) = {}
BY DEF Takes1, FlowInv, OneToken

(* A token is a flow's, a leaf's or the caller's.                           *)
LEMMA TokensAre ==
  /\ \A j \in Dependents : Flow(j) \in Tokens
  /\ \A j \in Jobs : Worker(j) \in Tokens
  /\ Caller \in Tokens
  /\ Dependents \subseteq Jobs /\ Root \in Jobs
  /\ \A k \in Tokens : \/ \E j \in Dependents : k = Flow(j)
                       \/ \E j \in Jobs : k = Worker(j)
                       \/ k = Caller
BY FlowConstants DEF Tokens, Dependents

(* A list stays single when what is added was not in it.                    *)
LEMMA AppendSingle ==
  ASSUME NEW o \in Objects, NEW list \in Lists(o), NEW c \in Allowed(o),
         c[1] = "groupCallback" \/ c \notin RangeOf(list)
  PROVE  Append(list, c) \in Lists(o)
<1>1. list \in Seq(Allowed(o)) /\ Single(list)
  BY DEF Lists
<1>2. Append(list, c) \in Seq(Allowed(o)) /\ Len(Append(list, c)) = Len(list) + 1
      /\ \A i \in 1..(Len(list) + 1) :
           Append(list, c)[i] = IF i = Len(list) + 1 THEN c ELSE list[i]
  BY <1>1, AppendProperties
<1>3. Single(Append(list, c))
  <2>1. SUFFICES ASSUME NEW m \in 1..(Len(list) + 1), NEW n \in 1..(Len(list) + 1),
                        Append(list, c)[m] = Append(list, c)[n],
                        Append(list, c)[m][1] # "groupCallback"
                 PROVE  m = n
    BY <1>1, <1>2 DEF Single
  <2>2. Len(list) \in Nat
    BY <1>1
  <2>3. \A i \in 1..Len(list) : list[i] \in RangeOf(list)
    BY <1>1 DEF RangeOf
  <2>4. CASE m = Len(list) + 1 \/ n = Len(list) + 1
    BY <2>1, <2>2, <2>3, <2>4, <1>2
  <2>5. CASE m # Len(list) + 1 /\ n # Len(list) + 1
    <3>1. m \in 1..Len(list) /\ n \in 1..Len(list) /\ list[m] = list[n] /\ list[m][1] # "groupCallback"
      BY <2>1, <2>2, <2>5, <1>2
    <3> QED
      BY <3>1, <1>1 DEF Single
  <2> QED
    BY <2>4, <2>5
<1> QED
  BY <1>2, <1>3 DEF Lists

(* An object that is asked once more has no such callback yet.              *)
LEMMA Registers ==
  ASSUME FlowInv, NEW t \in Threads, NEW h, Takes1(t, h, "execute"),
         status[h.on] \in {"READY", "RUNNING"}
  PROVE  /\ h.on \in Objects /\ h.arg \in Allowed(h.on)
         /\ h.on[1] = "group" \/ h.on \in {Leaf(j) : j \in Dependents} => callbacks[h.on] = <<>>
         /\ h.arg[1] = "groupCallback" \/ h.arg \notin RangeOf(callbacks[h.on])
         /\ Append(callbacks[h.on], h.arg) \in Lists(h.on)
         /\ Append(callbacks[h.on], h.arg) # <<>>
         /\ RangeOf(Append(callbacks[h.on], h.arg)) = RangeOf(callbacks[h.on]) \cup {h.arg}
<1>1. h \in Frames /\ h.op = "execute" /\ h.on \in Objects /\ h.arg \in Allowed(h.on)
      /\ h.arg \in TheCallbacks /\ h.on[2] \in Jobs
  BY FrameFacts, ObjectFacts DEF Takes1
<1>2. callbacks[h.on] \in Lists(h.on) /\ callbacks[h.on] \in Seq(TheCallbacks)
      /\ (status[h.on] = "READY" => callbacks[h.on] = <<>>)
  BY <1>1 DEF FlowInv, Shapes, ShapeOf
<1>3. h.on[1] = "group" => callbacks[h.on] = <<>>
  <2> SUFFICES ASSUME h.on[1] = "group"
               PROVE  callbacks[h.on] = <<>>
    OBVIOUS
  <2>1. PICK j \in Dependents : h.on = Group(j)
    BY <1>1, ObjectFacts
  <2>2. Carries(h, Flow(j))
    BY <1>1, <2>1, AllowedFacts, CarriesFacts
  <2>3. "group" \notin Slots(Flow(j))
    BY <2>2, TakenToken, TokensAre
  <2>4. ~notified[j][1]
    BY <2>1 DEF FlowInv, GroupsKnow, Verdicts
  <2> QED
    BY <2>1, <2>3, <2>4, FlowSlots
<1>4. h.on \in {Leaf(j) : j \in Dependents} => callbacks[h.on] = <<>>
  <2> SUFFICES ASSUME NEW j \in Dependents, h.on = Leaf(j)
               PROVE  callbacks[h.on] = <<>>
    OBVIOUS
  <2>1. Carries(h, Flow(j))
    BY <1>1, AllowedFacts, CarriesFacts
  <2>2. "leaf" \notin Slots(Flow(j))
    BY <2>1, TakenToken, TokensAre
  <2>3. CASE status[h.on] = "RUNNING"
    BY <2>2, <2>3, FlowSlots DEF Pending
  <2> QED
    BY <2>3, <1>2
<1>5. h.arg = RootCallback => h.arg \notin RangeOf(callbacks[h.on])
  <2> SUFFICES ASSUME h.arg = RootCallback
               PROVE  RootCallback \notin RangeOf(callbacks[h.on])
    OBVIOUS
  <2>1. Carries(h, Caller)
    BY <1>1, CarriesFacts
  <2>2. "flow" \notin Slots(Caller)
    BY <2>1, TakenToken, TokensAre
  <2>3. CASE status[h.on] = "READY"
    BY <2>3, <1>2 DEF RangeOf
  <2>4. CASE status[h.on] = "RUNNING" /\ callbacks[h.on] # <<>>
    <3>1. h.on = FlowOf(Root)
      <4>1. ~(h.on[1] = "group") /\ ~(h.on \in {Leaf(j) : j \in Dependents})
        BY <2>4, <1>3, <1>4
      <4>2. h.on = FlowOf(h.on[2])
        BY <4>1, <1>1, ObjectFacts DEF FlowOf
      <4> QED
        BY <4>2, <1>1, AllowedFacts, CallbackFacts
    <3> QED
      BY <3>1, <2>2, <2>4, CallerSlots DEF Pending, FlowOf
  <2>5. CASE callbacks[h.on] = <<>>
    BY <2>5 DEF RangeOf
  <2> QED
    BY <2>3, <2>4, <2>5
<1>6. h.arg[1] = "groupCallback" \/ h.arg \notin RangeOf(callbacks[h.on])
  <2>1. CASE callbacks[h.on] = <<>>
    BY <2>1 DEF RangeOf
  <2>2. CASE callbacks[h.on] # <<>>
    <3>1. ~(h.on[1] = "group") /\ ~(h.on \in {Leaf(j) : j \in Dependents})
      BY <2>2, <1>3, <1>4
    <3>2. h.on = FlowOf(h.on[2])
      BY <3>1, <1>1, ObjectFacts DEF FlowOf
    <3>3. h.arg \in Asked(h.on[2])
      BY <3>2, <1>1, AllowedFacts
    <3> QED
      BY <3>3, <1>1, <1>5, AllowedFacts, CallbackFacts
  <2> QED
    BY <2>1, <2>2
<1>7. Append(callbacks[h.on], h.arg) \in Lists(h.on)
  BY <1>1, <1>2, <1>6, AppendSingle
<1>8. /\ Append(callbacks[h.on], h.arg) # <<>>
      /\ RangeOf(Append(callbacks[h.on], h.arg)) = RangeOf(callbacks[h.on]) \cup {h.arg}
  <2> DEFINE list == callbacks[h.on]
             new == Append(list, h.arg)
  <2>1. /\ list \in Seq(TheCallbacks) /\ Len(list) \in Nat
        /\ new \in Seq(TheCallbacks) /\ Len(new) = Len(list) + 1
        /\ \A i \in 1..Len(list) : new[i] = list[i]
        /\ new[Len(list) + 1] = h.arg
    BY <1>1, <1>2, AppendProperties
  <2>2. DOMAIN new = 1..(Len(list) + 1) /\ DOMAIN list = 1..Len(list)
    BY <2>1
  <2> HIDE DEF list, new
  <2>3. new # <<>>
    BY <2>1
  <2>4. RangeOf(new) \subseteq RangeOf(list) \cup {h.arg}
    BY <2>1, <2>2 DEF RangeOf
  <2>5. RangeOf(list) \subseteq RangeOf(new)
    BY <2>1, <2>2 DEF RangeOf
  <2>6. h.arg \in RangeOf(new)
    BY <2>1, <2>2 DEF RangeOf
  <2> QED
    BY <2>3, <2>4, <2>5, <2>6 DEF list, new
<1> QED
  BY <1>1, <1>3, <1>4, <1>6, <1>7, <1>8

-----------------------------------------------------------------------------
(* A step that changes at most one object.                                  *)
Only(o) ==
  /\ status' \in [Objects -> Status] /\ callbacks' \in [Objects -> Seq(TheCallbacks)]
  /\ \A x \in Objects \ {o} : status'[x] = status[x] /\ callbacks'[x] = callbacks[x]

(* A step that writes one object keeps the shape of the others.             *)
LEMMA OnlyShapes ==
  ASSUME FlowInv, NEW o \in Objects, Only(o), ShapeOf(o)', notified' = notified,
         stack' \in [Threads -> Seq(Frames)], rootTold' \in Seq(Verdicts), cancelling' \in BOOLEAN
  PROVE  Shapes'
<1>1. \A x \in Objects \ {o} : ShapeOf(x)'
  BY DEF Only, FlowInv, Shapes, ShapeOf
<1> QED
  BY <1>1 DEF Only, FlowInv, Shapes

(* What does not depend on the object that is written stays.                *)
LEMMA Untouched ==
  ASSUME FlowInv, NEW h
  PROVE  /\ \A j \in Jobs :
              /\ status'[Leaf(j)] = status[Leaf(j)] /\ callbacks'[Leaf(j)] = callbacks[Leaf(j)]
              => LeafEffects(h, j)
         /\ \A j \in Dependents : status'[Composed(j)] = status[Composed(j)] => ComposedEffects(j)
         /\ \A j \in Dependents :
              /\ status'[Group(j)] = status[Group(j)] /\ callbacks'[Group(j)] = callbacks[Group(j)]
              /\ notified'[j] = notified[j]
              => GroupEffects(h, j)
BY DEF LeafEffects, ComposedEffects, GroupEffects, EndStays, NotRun

(* The effects of a step that writes one object are those on that object.   *)
LEMMA OnlyEffects ==
  ASSUME FlowInv, NEW h, NEW o \in Objects, Only(o), notified' = notified, cancelling => cancelling',
         \A j \in Jobs : o = Leaf(j) => LeafEffects(h, j),
         \A j \in Dependents : o = Composed(j) => ComposedEffects(j),
         \A j \in Dependents : o = Group(j) => GroupEffects(h, j)
  PROVE  Effects(h)
<1>1. ASSUME NEW j \in Jobs, o # Leaf(j)
      PROVE  LeafEffects(h, j)
  <2>1. status'[Leaf(j)] = status[Leaf(j)] /\ callbacks'[Leaf(j)] = callbacks[Leaf(j)]
    BY <1>1, Names DEF Only
  <2> QED
    BY <2>1, Untouched
<1>2. ASSUME NEW j \in Dependents, o # Composed(j)
      PROVE  ComposedEffects(j)
  <2>1. status'[Composed(j)] = status[Composed(j)]
    BY <1>2, Names, TokensAre DEF Only
  <2> QED
    BY <2>1, Untouched
<1>3. ASSUME NEW j \in Dependents, o # Group(j)
      PROVE  GroupEffects(h, j)
  <2>1. status'[Group(j)] = status[Group(j)] /\ callbacks'[Group(j)] = callbacks[Group(j)]
    BY <1>3, Names, TokensAre DEF Only
  <2> QED
    BY <2>1, Untouched
<1> QED
  BY <1>1, <1>2, <1>3 DEF Effects

(* Tokens that are not about the object.                                    *)
Generates(fs, j) == \E i \in DOMAIN fs : fs[i].op = "generated" /\ fs[i].on = Leaf(j)

(* Another leaf's list is taken no sooner by a step of this leaf.           *)
LEMMA PendingStays ==
  ASSUME FlowInv, NEW j \in Jobs, NEW t \in Threads, NEW v \in Threads, NEW fs, NEW old,
         Moves(t, v, fs, old), Pending(j)', status'[Leaf(j)] = status[Leaf(j)], ~Generates(fs, j)
  PROVE  Pending(j)
<1>1. OneToken(Worker(j))
  BY TokensAre DEF FlowInv
<1>2. CASE status'[Leaf(j)] = "RUNNING"
  BY <1>2 DEF Pending
<1>3. CASE status'[Leaf(j)] # "RUNNING"
  BY <1>1, <1>3, PendingStep DEF Generates
<1> QED
  BY <1>2, <1>3

(* Another job's flow token stays where it was.                             *)
LEMMA OtherFlow ==
  ASSUME FlowInv, NEW j \in Dependents, NEW t \in Threads, NEW v \in Threads, NEW fs, NEW old,
         Moves(t, v, fs, old), NEW h, h = FrameAt(<<t, 1>>),
         status'[Leaf(j)] = status[Leaf(j)], callbacks'[Leaf(j)] = callbacks[Leaf(j)],
         callbacks'[Group(j)] = callbacks[Group(j)], notified'[j] = notified[j],
         status'[Composed(j)] = status[Composed(j)], ~Generates(fs, j),
         \A m, n \in DOMAIN fs : Carries(fs[m], Flow(j)) /\ Carries(fs[n], Flow(j)) => m = n,
         \A m \in DOMAIN fs : Carries(fs[m], Flow(j)) => Carries(h, Flow(j))
  PROVE  Passes(Flow(j), h, fs)
<1>1. j \in Jobs /\ OneToken(Flow(j)) /\ <<t, 1>> \in Places
  BY TokensAre DEF FlowInv, Moves
<1>2. Pending(j)' => Pending(j)
  BY <1>1, PendingStays
<1>3. Slots(Flow(j))' \subseteq Slots(Flow(j))
  BY <1>2, FlowSlots
<1> QED
  BY <1>1, <1>3, HandsOn

(* Another leaf's right stays where it was.                                 *)
LEMMA OtherWorker ==
  ASSUME FlowInv, NEW j \in Jobs, NEW t \in Threads, NEW v \in Threads, NEW fs, NEW old,
         Moves(t, v, fs, old), NEW h, h = FrameAt(<<t, 1>>),
         NotRun(j)' => NotRun(j),
         \A m, n \in DOMAIN fs : Carries(fs[m], Worker(j)) /\ Carries(fs[n], Worker(j)) => m = n,
         \A m \in DOMAIN fs : Carries(fs[m], Worker(j)) => Carries(h, Worker(j))
  PROVE  Passes(Worker(j), h, fs)
<1>1. OneToken(Worker(j)) /\ <<t, 1>> \in Places
  BY TokensAre DEF FlowInv, Moves
<1>2. Slots(Worker(j))' \subseteq Slots(Worker(j))
  BY WorkerSlots
<1> QED
  BY <1>1, <1>2, HandsOn

(* The caller's token stays where it was.                                   *)
LEMMA OtherCaller ==
  ASSUME FlowInv, NEW t \in Threads, NEW v \in Threads, NEW fs, NEW old,
         Moves(t, v, fs, old), NEW h, h = FrameAt(<<t, 1>>),
         status'[FlowOf(Root)] = status[FlowOf(Root)],
         callbacks'[FlowOf(Root)] = callbacks[FlowOf(Root)],
         rootTold' = rootTold, ~Generates(fs, Root),
         \A m, n \in DOMAIN fs : Carries(fs[m], Caller) /\ Carries(fs[n], Caller) => m = n,
         \A m \in DOMAIN fs : Carries(fs[m], Caller) => Carries(h, Caller)
  PROVE  Passes(Caller, h, fs)
<1>1. Root \in Jobs /\ OneToken(Caller) /\ <<t, 1>> \in Places
  BY TokensAre DEF FlowInv, Moves
<1>2. Root \notin Dependents /\ Pending(Root)' => Pending(Root)
  BY <1>1, PendingStays DEF FlowOf
<1>3. Slots(Caller)' \subseteq Slots(Caller)
  BY <1>1, <1>2, CallerSlots DEF FlowOf
<1> QED
  BY <1>1, <1>3, HandsOn

(* execute() of a leaf that is READY.                                       *)
LEMMA ExecuteReadyKeeps ==
  ASSUME FlowInv, NEW t \in Threads, ExecuteReady(t)
  PROVE  FlowInv'
<1>1. PICK h : Takes1(t, h, "execute")
  BY TakesTop DEF ExecuteReady
<1>2. /\ h \in Frames /\ h.op = "execute" /\ h.on \in Objects /\ h.arg \in Allowed(h.on)
      /\ h = FrameAt(<<t, 1>>) /\ <<t, 1>> \in Places /\ stack[t] # <<>> /\ Says(h)
      /\ h.on[2] \in Jobs
  BY <1>1, FrameFacts, ObjectFacts DEF Takes1
<1>3. /\ status[h.on] = "READY" /\ status' = [status EXCEPT ![h.on] = "RUNNING"]
      /\ callbacks' = [callbacks EXCEPT ![h.on] = Append(@, h.arg)]
      /\ Then(t, Body(h.on)) /\ notified' = notified /\ rootTold' = rootTold /\ cancelling' = cancelling
  BY <1>1 DEF ExecuteReady, Takes1, SetStatus
<1>4. PICK f \in Frames :
        /\ Body(h.on) = <<f>>
        /\ h.on[1] = "leaf" => f.op = "load" /\ f.on = h.on
        /\ h.on[1] = "group" => f.op = "children"
        /\ h.on[1] = "composed" => f.op = "execute" /\ f.on = Group(h.on[2])
                                   /\ f.arg = DependeeCallback(h.on[2])
  <2>1. CASE h.on[1] = "leaf"
    BY <2>1, <1>2, ObjectFacts, FramesMade DEF Body, Load, Frame
  <2>2. CASE h.on[1] = "group"
    <3>1. Children(h.on[2], 1) \in Frames
      BY <2>2, <1>2, ObjectFacts, FramesMade
    <3> QED
      BY <2>2, <3>1 DEF Body, Children, Frame
  <2>3. CASE h.on[1] = "composed"
    <3>1. Execute(Group(h.on[2]), DependeeCallback(h.on[2])) \in Frames
      BY <2>3, <1>2, ObjectFacts, Names, FramesMade, AllowedFacts, CallbackFacts
    <3> QED
      BY <2>3, <3>1 DEF Body, Execute, Frame
  <2> QED
    BY <2>1, <2>2, <2>3, <1>2, ObjectFacts
<1>5. <<f>> \in Seq(Frames) /\ DOMAIN <<f>> = {1} /\ <<f>>[1] = f
  OBVIOUS
<1>6. stack' \in [Threads -> Seq(Frames)] /\ \E old : Moves(t, t, <<f>>, old)
  BY <1>2, <1>3, <1>4, <1>5, ThenMoves
<1>7. PICK old : Moves(t, t, <<f>>, old)
  BY <1>6
<1>8. /\ status \in [Objects -> Status] /\ callbacks \in [Objects -> Seq(TheCallbacks)]
      /\ callbacks[h.on] = <<>> /\ rootTold \in Seq(Verdicts) /\ cancelling \in BOOLEAN
  BY <1>2, <1>3 DEF FlowInv, Shapes, ShapeOf
<1>9. /\ Append(callbacks[h.on], h.arg) \in Lists(h.on) /\ Append(callbacks[h.on], h.arg) # <<>>
      /\ RangeOf(Append(callbacks[h.on], h.arg)) = {h.arg}
  <2>1. RangeOf(callbacks[h.on]) = {}
    BY <1>8 DEF RangeOf
  <2> QED
    BY <2>1, <1>1, <1>3, Registers
<1>10. /\ status'[h.on] = "RUNNING" /\ callbacks'[h.on] \in Lists(h.on) /\ callbacks'[h.on] # <<>>
       /\ RangeOf(callbacks'[h.on]) = {h.arg}
  BY <1>2, <1>3, <1>8, <1>9
<1>11. Only(h.on)
  <2>1. Lists(h.on) \subseteq Seq(TheCallbacks)
    BY <1>2, AllowedFacts
  <2> QED
    BY <2>1, <1>2, <1>3, <1>8, <1>9 DEF Only, Status
<1>12. Shapes'
  <2>1. ShapeOf(h.on)'
    BY <1>10 DEF ShapeOf
  <2> QED
    BY <2>1, <1>2, <1>3, <1>6, <1>8, <1>11, OnlyShapes
<1>13. Effects(h)
  <2>1. ASSUME NEW j \in Jobs, h.on = Leaf(j) PROVE LeafEffects(h, j)
    BY <2>1, <1>2, <1>3, <1>10 DEF LeafEffects, EndStays, Good, NotRun, Verdicts
  <2>2. ASSUME NEW j \in Dependents, h.on = Composed(j) PROVE ComposedEffects(j)
    BY <2>2, <1>3, <1>10 DEF ComposedEffects, EndStays, Good
  <2>3. ASSUME NEW j \in Dependents, h.on = Group(j) PROVE GroupEffects(h, j)
    BY <2>3, <1>2, <1>3, <1>10 DEF GroupEffects, Verdicts
  <2> QED
    BY <2>1, <2>2, <2>3, <1>2, <1>3, <1>11, OnlyEffects
<1>14. \A k \in Tokens : Passes(k, h, <<f>>)
  <2>1. \A j \in Jobs : ~Generates(<<f>>, j)
    BY <1>2, <1>4, <1>5, ObjectFacts DEF Generates
  <2>2. ASSUME NEW j \in Dependents PROVE Passes(Flow(j), h, <<f>>)
    <3>1. j \in Jobs /\ (Carries(h, Flow(j)) => Slots(Flow(j)) = {})
      BY <1>1, TakenToken, TokensAre
    <3>2. CASE h.on = Leaf(j)
      <4>1. Carries(h, Flow(j)) /\ ~Carries(f, Flow(j))
        BY <3>1, <3>2, <1>2, <1>4, Names, AllowedFacts, CarriesFacts
      <4>2. /\ callbacks'[Group(j)] = callbacks[Group(j)] /\ notified'[j] = notified[j]
            /\ status'[Composed(j)] = status[Composed(j)]
        BY <3>1, <3>2, <1>3, <1>11, Names DEF Only
      <4>3. \A s \in Slots(Flow(j))' : s = "leaf"
        BY <3>1, <4>1, <4>2, FlowSlots
      <4> QED
        BY <4>1, <4>3, <1>5 DEF Passes
    <3>3. CASE h.on = Group(j)
      <4>1. Carries(h, Flow(j)) /\ ~Carries(f, Flow(j))
        BY <3>1, <3>3, <1>2, <1>4, Names, AllowedFacts, CarriesFacts
      <4>2. /\ callbacks'[Leaf(j)] = callbacks[Leaf(j)] /\ status'[Leaf(j)] = status[Leaf(j)]
            /\ status'[Composed(j)] = status[Composed(j)]
        BY <3>1, <3>3, <1>11, Names DEF Only
      <4>3. Pending(j)' => Pending(j)
        BY <4>2, <3>1, <2>1, <1>7, PendingStays
      <4>4. \A s \in Slots(Flow(j))' : s = "group"
        BY <3>1, <4>1, <4>2, <4>3, FlowSlots
      <4> QED
        BY <4>1, <4>4, <1>5 DEF Passes
    <3>4. CASE h.on = Composed(j)
      <4>1. "new" \in Slots(Flow(j)) /\ \A s \in Slots(Flow(j)) : s = "new"
        BY <3>1, <3>4, <1>3, FlowSlots, TokensAre DEF FlowInv, OneToken
      <4>2. /\ callbacks'[Leaf(j)] = callbacks[Leaf(j)] /\ status'[Leaf(j)] = status[Leaf(j)]
            /\ callbacks'[Group(j)] = callbacks[Group(j)] /\ notified'[j] = notified[j]
        BY <3>1, <3>4, <1>3, <1>11, Names DEF Only
      <4>3. Pending(j)' => Pending(j)
        BY <4>2, <3>1, <2>1, <1>7, PendingStays
      <4>4. Slots(Flow(j))' = {}
        BY <3>4, <4>1, <4>2, <4>3, <1>10, FlowSlots DEF Finished, Good
      <4> QED
        BY <4>1, <4>4, <1>5 DEF Passes
    <3>5. CASE h.on \notin {Leaf(j), Group(j), Composed(j)}
      <4>1. /\ status'[Leaf(j)] = status[Leaf(j)] /\ callbacks'[Leaf(j)] = callbacks[Leaf(j)]
            /\ callbacks'[Group(j)] = callbacks[Group(j)] /\ notified'[j] = notified[j]
            /\ status'[Composed(j)] = status[Composed(j)]
        BY <3>1, <3>5, <1>3, <1>11, Names DEF Only
      <4>2. ~Carries(f, Flow(j))
        BY <3>1, <3>5, <1>2, <1>4, ObjectFacts, CarriesFacts, CallbackFacts
      <4> QED
        BY <4>1, <4>2, <2>1, <3>1, <1>2, <1>5, <1>7, OtherFlow
    <3> QED
      BY <3>2, <3>3, <3>4, <3>5
  <2>3. ASSUME NEW j \in Jobs PROVE Passes(Worker(j), h, <<f>>)
    <3>1. CASE h.on = Leaf(j)
      <4>1. "new" \in Slots(Worker(j)) /\ Slots(Worker(j))' = {}
        BY <3>1, <1>3, <1>10, WorkerSlots DEF NotRun
      <4> QED
        BY <4>1, <1>5 DEF Passes
    <3>2. CASE h.on # Leaf(j)
      <4>1. NotRun(j)' => NotRun(j)
        BY <3>2, <1>11, Names DEF Only, NotRun
      <4>2. ~Carries(f, Worker(j))
        BY <3>2, <1>2, <1>4, ObjectFacts, CarriesFacts
      <4> QED
        BY <4>1, <4>2, <1>2, <1>5, <1>7, OtherWorker
    <3> QED
      BY <3>1, <3>2
  <2>4. Passes(Caller, h, <<f>>)
    <3>1. Root \in Jobs
      BY TokensAre
    <3>2. ~Carries(f, Caller)
      BY <1>2, <1>4, ObjectFacts, CarriesFacts, CallbackFacts
    <3>3. CASE h.on = FlowOf(Root)
      <4>1. "flow" \notin Slots(Caller)
        BY <3>1, <3>3, <1>8, CallerSlots DEF RangeOf
      <4>2. h.arg # RootCallback => Slots(Caller)' \subseteq Slots(Caller)
        BY <3>3, <1>3, <1>10, CallerSlots
      <4>3. h.arg = RootCallback => Carries(h, Caller) /\ \A s, r \in Slots(Caller)' : s = r
        <5>1. h.arg = RootCallback => Carries(h, Caller) /\ Slots(Caller) = {}
          BY <1>1, <1>2, CarriesFacts, TakenToken, TokensAre
        <5> QED
          BY <5>1, <1>3, CallerSlots
      <4> QED
        BY <3>2, <4>2, <4>3, <1>5 DEF Passes
    <3>4. CASE h.on # FlowOf(Root)
      <4>1. status'[FlowOf(Root)] = status[FlowOf(Root)] /\ callbacks'[FlowOf(Root)] = callbacks[FlowOf(Root)]
        BY <3>1, <3>4, <1>11, Names DEF Only
      <4> QED
        BY <4>1, <3>1, <3>2, <2>1, <1>2, <1>3, <1>5, <1>7, OtherCaller
    <3> QED
      BY <3>3, <3>4
  <2> QED
    BY <2>2, <2>3, <2>4, TokensAre
<1>15. \A i \in DOMAIN <<f>> : Says(<<f>>[i])'
  <2>1. CASE h.on[1] = "leaf"
    BY <2>1, <1>2, <1>4, <1>5, <1>10, <1>13, GoodKept DEF Says, SaysOfDependees, SaysOfTurn, SaysOfLeaf, SaysOfVerdict, SaysOfList, SaysOfCancel
  <2>2. CASE h.on[1] = "group"
    BY <2>2, <1>4, <1>5 DEF Says, SaysOfDependees, SaysOfTurn, SaysOfLeaf, SaysOfVerdict, SaysOfList, SaysOfCancel
  <2>3. CASE h.on[1] = "composed"
    <3>1. h.on[2] \in Dependents /\ h.on = Composed(h.on[2]) /\ Flow(h.on[2]) \in Tokens
      BY <2>3, <1>2, ObjectFacts, TokensAre
    <3>2. NotRun(h.on[2]) \/ cancelling
      BY <3>1, <1>3, FlowSlots DEF FlowInv, TurnsCome, Holds, Flow
    <3>3. NotRun(h.on[2])' \/ cancelling'
      BY <3>1, <3>2, <1>2, <1>13, Names DEF Effects, LeafEffects
    <3>4. f.on # Leaf(h.on[2]) /\ \A j \in Dependents : f.on # Leaf(j) /\ (f.on = Group(j) => j = h.on[2])
      BY <2>3, <3>1, <1>4, Names, TokensAre
    <3> QED
      BY <2>3, <3>3, <3>4, <1>4, <1>5 DEF Says, SaysOfDependees, SaysOfTurn, SaysOfLeaf, SaysOfVerdict, SaysOfList, SaysOfCancel
  <2> QED
    BY <2>1, <2>2, <2>3, <1>2, ObjectFacts
<1> QED
  BY <1>2, <1>5, <1>7, <1>12, <1>13, <1>14, <1>15, StepKeeps

(* A step that registers nothing and tells nothing: it may only hand tokens *)
(* on to its new frames.                                                    *)
LEMMA HandsOnAll ==
  ASSUME FlowInv, NEW t \in Threads, NEW v \in Threads, NEW fs, NEW old, Moves(t, v, fs, old),
         NEW h, h = FrameAt(<<t, 1>>),
         callbacks' = callbacks, notified' = notified, rootTold' = rootTold,
         \A j \in Dependents : status'[Composed(j)] = status[Composed(j)],
         \A j \in Jobs : status'[Leaf(j)] = status[Leaf(j)] \/ (~NotRun(j)' /\ status'[Leaf(j)] # "RUNNING"),
         \A j \in Jobs : ~Generates(fs, j),
         \A k \in Tokens : \A m, n \in DOMAIN fs : Carries(fs[m], k) /\ Carries(fs[n], k) => m = n,
         \A k \in Tokens : \A m \in DOMAIN fs : Carries(fs[m], k) => Carries(h, k)
  PROVE  \A k \in Tokens : Passes(k, h, fs)
<1>1. ASSUME NEW j \in Jobs, Pending(j)'
      PROVE  Pending(j)
  <2>1. CASE status'[Leaf(j)] = "RUNNING"
    <3>1. status'[Leaf(j)] = status[Leaf(j)]
      BY <2>1
    <3> QED
      BY <3>1, <1>1, PendingStays
  <2>2. CASE status'[Leaf(j)] # "RUNNING"
    BY <2>2, <1>1, PendingStep, TokensAre DEF Generates, FlowInv
  <2> QED
    BY <2>1, <2>2
<1>2. <<t, 1>> \in Places /\ \A k \in Tokens : OneToken(k)
  BY DEF Moves, FlowInv
<1>3. ASSUME NEW j \in Dependents PROVE Slots(Flow(j))' \subseteq Slots(Flow(j))
  BY <1>1, TokensAre, FlowSlots
<1>4. ASSUME NEW j \in Jobs PROVE Slots(Worker(j))' \subseteq Slots(Worker(j))
  <2>1. NotRun(j)' => NotRun(j)
    BY DEF NotRun
  <2> QED
    BY <2>1, WorkerSlots
<1>5. Slots(Caller)' \subseteq Slots(Caller)
  BY <1>1, TokensAre, CallerSlots
<1>6. \A k \in Tokens : Slots(k)' \subseteq Slots(k)
  BY <1>3, <1>4, <1>5, TokensAre
<1> QED
  BY <1>2, <1>6, HandsOn

(* The objects stay as they are.                                            *)
LEMMA HandsOnKeeps ==
  ASSUME FlowInv, NEW t \in Threads, NEW v \in Threads, NEW fs, NEW op, NEW h, Takes1(t, h, op),
         stack' \in [Threads -> Seq(Frames)] /\ \E old : Moves(t, v, fs, old),
         UNCHANGED <<status, callbacks, notified, rootTold, cancelling>>,
         \A m \in DOMAIN fs : fs[m].op # "generated",
         \A k \in Tokens : \A m, n \in DOMAIN fs : Carries(fs[m], k) /\ Carries(fs[n], k) => m = n,
         \A k \in Tokens : \A m \in DOMAIN fs : Carries(fs[m], k) => Carries(h, k),
         \A m \in DOMAIN fs : Says(fs[m])
  PROVE  FlowInv'
<1>1. PICK old : Moves(t, v, fs, old)
  OBVIOUS
<1>2. h = FrameAt(<<t, 1>>)
  BY DEF Takes1
<1>3. Shapes'
  BY DEF FlowInv, Shapes, ShapeOf
<1>4. Effects(h)
  <2>1. (cancelling => cancelling') /\ \A j \in Jobs : LeafEffects(h, j)
    BY Untouched
  <2>2. \A j \in Dependents : ComposedEffects(j) /\ GroupEffects(h, j)
    BY Untouched
  <2> QED
    BY <2>1, <2>2 DEF Effects
<1>5. \A k \in Tokens : Passes(k, h, fs)
  <2>1. \A j \in Jobs : ~Generates(fs, j)
    BY DEF Generates
  <2>2. /\ callbacks' = callbacks /\ notified' = notified /\ rootTold' = rootTold
        /\ \A j \in Dependents : status'[Composed(j)] = status[Composed(j)]
        /\ \A j \in Jobs : status'[Leaf(j)] = status[Leaf(j)] \/ (~NotRun(j)' /\ status'[Leaf(j)] # "RUNNING")
    OBVIOUS
  <2> QED
    BY <1>1, <1>2, <2>1, <2>2, HandsOnAll
<1>6. \A m \in DOMAIN fs : Says(fs[m])'
  BY <1>4, GoodKept DEF Says, SaysOfDependees, SaysOfTurn, SaysOfLeaf, SaysOfVerdict, SaysOfList, SaysOfCancel,
     AllGood, SomeFailed, NotRun
<1> QED
  BY <1>1, <1>2, <1>3, <1>4, <1>5, <1>6, StepKeeps

(* A step that takes the first frame and does nothing else.                 *)
LEMMA PopKeeps ==
  ASSUME FlowInv, NEW t \in Threads, NEW op, Doing(t, op), Then(t, <<>>),
         UNCHANGED <<status, callbacks, notified, rootTold, cancelling>>
  PROVE  FlowInv'
<1>1. PICK h : Takes1(t, h, op)
  BY TakesTop
<1>2. <<>> \in Seq(Frames) /\ DOMAIN <<>> = {}
  OBVIOUS
<1>3. stack' \in [Threads -> Seq(Frames)] /\ \E old : Moves(t, t, <<>>, old)
  BY <1>1, <1>2, ThenMoves DEF Takes1
<1> QED
  BY <1>1, <1>2, <1>3, HandsOnKeeps

(* execute() that leaves the monitor of its object.                         *)
LEMMA LeaveMonitorKeeps ==
  ASSUME FlowInv, NEW t \in Threads, LeaveMonitor(t)
  PROVE  FlowInv'
BY PopKeeps DEF LeaveMonitor

(* The dependee callback whose save throws.                                 *)
LEMMA DependeeSaveFailsKeeps ==
  ASSUME FlowInv, NEW t \in Threads, DependeeSaveFails(t)
  PROVE  FlowInv'
BY PopKeeps DEF DependeeSaveFails

(* cancel() of a leaf that has ended.                                       *)
LEMMA CancelFinishedLeafKeeps ==
  ASSUME FlowInv, NEW t \in Threads, CancelFinishedLeaf(t)
  PROVE  FlowInv'
BY PopKeeps DEF CancelFinishedLeaf

(* A group that executes its next child.                                    *)
LEMMA NextChildKeeps ==
  ASSUME FlowInv, NEW t \in Threads, NextChild(t)
  PROVE  FlowInv'
<1>1. PICK h : Takes1(t, h, "children")
  BY TakesTop DEF NextChild
<1>2. /\ h \in Frames /\ h.op = "children" /\ h.arg \in Nat \ {0} /\ stack[t] # <<>>
      /\ h.on[2] \in Dependents
  BY <1>1, FrameFacts, Names, TokensAre DEF Takes1, Groups
<1>3. UNCHANGED <<status, callbacks, notified, rootTold, cancelling>>
  BY DEF NextChild
<1> DEFINE j == h.on[2]
           i == h.arg
<1>4. \/ Then(t, <<>>) \/ Then(t, <<Children(j, i + 1)>>)
      \/ /\ i \in DOMAIN Dependees[j]
         /\ Then(t, <<Execute(FlowOf(Dependees[j][i]), GroupCallback(j, 1)), Children(j, i + 1)>>)
  <2>1. TheGroupCallback(j) = GroupCallback(j, 1)
    <3>1. PICK b \in BOOLEAN : notified[j] = <<b>>
      BY <1>2 DEF FlowInv, Shapes
    <3> QED
      BY <3>1 DEF TheGroupCallback
  <2>2. Dependees[j] \in Seq(Jobs)
    BY <1>2, FlowConstants, TokensAre
  <2>3. i <= Len(Dependees[j]) => i \in DOMAIN Dependees[j]
    BY <1>2, <2>2
  <2>4. \/ i > Len(Dependees[j]) /\ Then(t, <<>>)
        \/ Then(t, <<Children(j, i + 1)>>)
        \/ /\ ~(i > Len(Dependees[j]))
           /\ Then(t, <<Execute(FlowOf(Dependees[j][i]), TheGroupCallback(j)), Children(j, i + 1)>>)
    BY <1>1 DEF NextChild, Takes1
  <2> QED
    BY <2>1, <2>2, <2>3, <2>4, <1>2
<1>5. CASE Then(t, <<>>)
  BY <1>3, <1>5, PopKeeps DEF NextChild
<1>6. Children(j, i + 1) \in Frames /\ Children(j, i + 1).op = "children"
  <2>1. i + 1 \in Nat \ {0}
    BY <1>2
  <2> QED
    BY <2>1, <1>2, FramesMade DEF Children, Frame
<1>7. CASE Then(t, <<Children(j, i + 1)>>)
  <2>1. PICK f \in Frames : f = Children(j, i + 1) /\ f.op = "children"
    BY <1>6
  <2>2. stack' \in [Threads -> Seq(Frames)] /\ \E old : Moves(t, t, <<f>>, old)
    <3>1. Then(t, <<f>>) /\ <<f>> \in Seq(Frames)
      BY <1>7, <2>1
    <3> QED
      BY <3>1, <1>2, ThenMoves
  <2>3. DOMAIN <<f>> = {1} /\ <<f>>[1] = f
    OBVIOUS
  <2>4. \A k \in Tokens : ~Carries(f, k)
    BY <2>1, TokensAre, CarriesFacts
  <2>5. Says(f)
    BY <2>1 DEF Says, SaysOfDependees, SaysOfTurn, SaysOfLeaf, SaysOfVerdict, SaysOfList, SaysOfCancel
  <2> QED
    BY <2>1, <2>2, <2>3, <2>4, <2>5, <1>1, <1>3, HandsOnKeeps
<1>8. CASE /\ i \in DOMAIN Dependees[j]
           /\ Then(t, <<Execute(FlowOf(Dependees[j][i]), GroupCallback(j, 1)), Children(j, i + 1)>>)
  <2>1. Dependees[j][i] \in Jobs
    BY <1>2, <1>8, FlowConstants, TokensAre
  <2>2. Execute(FlowOf(Dependees[j][i]), GroupCallback(j, 1)) \in Frames
    BY <2>1, <1>2, Names, AllowedFacts, CallbackFacts, FramesMade
  <2>3. PICK e \in Frames, f \in Frames :
          /\ e = Execute(FlowOf(Dependees[j][i]), GroupCallback(j, 1))
          /\ e.op = "execute" /\ e.on = FlowOf(Dependees[j][i]) /\ e.arg = GroupCallback(j, 1)
          /\ f = Children(j, i + 1) /\ f.op = "children"
    BY <1>6, <2>2 DEF Execute, Frame
  <2>4. stack' \in [Threads -> Seq(Frames)] /\ \E old : Moves(t, t, <<e, f>>, old)
    <3>1. Then(t, <<e, f>>) /\ <<e, f>> \in Seq(Frames)
      BY <1>8, <2>3
    <3> QED
      BY <3>1, <1>2, ThenMoves
  <2>5. DOMAIN <<e, f>> = {1, 2} /\ <<e, f>>[1] = e /\ <<e, f>>[2] = f
    OBVIOUS
  <2>6. \A k \in Tokens : ~Carries(f, k) /\ ~Carries(e, k)
    BY <1>2, <2>3, TokensAre, CarriesFacts, CallbackFacts
  <2>7. \A d \in Dependents : e.on # Leaf(d) /\ e.on # Group(d)
    BY <2>1, <2>3, Names, TokensAre
  <2>8. Says(f) /\ Says(e)
    BY <2>3, <2>7 DEF Says, SaysOfDependees, SaysOfTurn, SaysOfLeaf, SaysOfVerdict, SaysOfList, SaysOfCancel
  <2>9. /\ \A m \in DOMAIN <<e, f>> : <<e, f>>[m].op # "generated" /\ Says(<<e, f>>[m])
        /\ \A k \in Tokens : \A m \in DOMAIN <<e, f>> : ~Carries(<<e, f>>[m], k)
    BY <2>3, <2>5, <2>6, <2>8
  <2> QED
    BY <2>4, <2>9, <1>1, <1>3, HandsOnKeeps
<1> QED
  BY <1>4, <1>5, <1>7, <1>8

(* Of a list of an object at most one callback tells a given token.         *)
LEMMA ListSingle ==
  ASSUME NEW o \in Objects, NEW list \in Lists(o)
  PROVE  /\ list \in Seq(TheCallbacks)
         /\ \A i \in DOMAIN list : list[i] \in Allowed(o) /\ list[i] \in TheCallbacks
         /\ \A j \in Dependents : \A m, n \in DOMAIN list :
              /\ list[m] \in {DependeeCallback(j), DependerCallback(j)}
              /\ list[n] \in {DependeeCallback(j), DependerCallback(j)}
              => m = n
         /\ \A m, n \in DOMAIN list : list[m] = RootCallback /\ list[n] = RootCallback => m = n
<1>1. list \in Seq(Allowed(o)) /\ Single(list)
  BY DEF Lists
<1>2. \A i \in DOMAIN list : list[i] \in Allowed(o) /\ list[i] \in TheCallbacks
  BY <1>1, AllowedFacts
<1>3. ASSUME NEW j \in Dependents
      PROVE  ~(DependeeCallback(j) \in Allowed(o) /\ DependerCallback(j) \in Allowed(o))
  <2>1. DependeeCallback(j) # DependerCallback(j)
    BY CallbackFacts
  <2>2. o[1] = "group" \/ (o[1] = "leaf" /\ o[2] \in Dependents) => \E c : Allowed(o) = {c}
    BY DEF Allowed
  <2>3. ~(o[1] = "group" \/ (o[1] = "leaf" /\ o[2] \in Dependents)) => Allowed(o) = Asked(o[2])
    BY DEF Allowed
  <2>4. o[2] \in Jobs /\ DependeeCallback(j) \notin Asked(o[2])
    BY ObjectFacts, AllowedFacts, CallbackFacts
  <2> QED
    BY <2>1, <2>2, <2>3, <2>4
<1>4. ASSUME NEW j \in Dependents, NEW m \in DOMAIN list, NEW n \in DOMAIN list,
             list[m] \in {DependeeCallback(j), DependerCallback(j)},
             list[n] \in {DependeeCallback(j), DependerCallback(j)}
      PROVE  m = n
  <2>1. list[m] = list[n] /\ list[m][1] # "groupCallback"
    BY <1>2, <1>3, <1>4, CallbackFacts
  <2> QED
    BY <2>1, <1>1 DEF Single
<1>5. \A m, n \in DOMAIN list : list[m] = RootCallback /\ list[n] = RootCallback => m = n
  BY <1>1, CallbackFacts DEF Single
<1>6. list \in Seq(TheCallbacks)
  BY AllowedFacts
<1> QED
  BY <1>2, <1>4, <1>5, <1>6

(* Telling a list: what the new frames carry is in the list.                *)
LEMMA TellsList ==
  ASSUME NEW o \in Objects, NEW list \in Lists(o), NEW s \in Verdicts, NEW fs, fs = CompletedAll(list, s)
  PROVE  /\ fs \in Seq(Frames) /\ DOMAIN fs = DOMAIN list
         /\ \A m \in DOMAIN fs : fs[m].op = "completed" /\ fs[m].on = list[m] /\ fs[m].arg = s
         /\ \A k \in Tokens : \A m, n \in DOMAIN fs : Carries(fs[m], k) /\ Carries(fs[n], k) => m = n
         /\ \A j \in Dependents : \A m \in DOMAIN fs : Carries(fs[m], Flow(j)) <=>
              list[m] \in {DependeeCallback(j), DependerCallback(j)}
         /\ \A j \in Jobs : \A m \in DOMAIN fs : ~Carries(fs[m], Worker(j))
         /\ \A m \in DOMAIN fs : Carries(fs[m], Caller) <=> list[m] = RootCallback
<1>1. /\ fs \in Seq(Frames) /\ DOMAIN fs = DOMAIN list
      /\ \A m \in DOMAIN fs : fs[m].op = "completed" /\ fs[m].on = list[m] /\ fs[m].arg = s
  BY ListSingle, CompletedAllFacts
<1>2. \A j \in Dependents : \A m \in DOMAIN fs : Carries(fs[m], Flow(j)) <=>
        list[m] \in {DependeeCallback(j), DependerCallback(j)}
  BY <1>1, CarriesFacts
<1>3. \A j \in Jobs : \A m \in DOMAIN fs : ~Carries(fs[m], Worker(j))
  BY <1>1, CarriesFacts
<1>4. \A m \in DOMAIN fs : Carries(fs[m], Caller) <=> list[m] = RootCallback
  BY <1>1, CarriesFacts
<1>5. ASSUME NEW k \in Tokens, NEW m \in DOMAIN fs, NEW n \in DOMAIN fs, Carries(fs[m], k), Carries(fs[n], k)
      PROVE  m = n
  <2>1. CASE \E j \in Dependents : k = Flow(j)
    BY <2>1, <1>1, <1>2, <1>5, ListSingle
  <2>2. CASE \E j \in Jobs : k = Worker(j)
    BY <2>2, <1>3, <1>5
  <2>3. CASE k = Caller
    BY <2>3, <1>1, <1>4, <1>5, ListSingle
  <2> QED
    BY <2>1, <2>2, <2>3, TokensAre
<1> QED
  BY <1>1, <1>2, <1>3, <1>4, <1>5

(* The thread of a leaf that loads its job.                                 *)
LEMMA LoadJobKeeps ==
  ASSUME FlowInv, NEW t \in Threads, LoadJob(t)
  PROVE  FlowInv'
<1>1. PICK h : Takes1(t, h, "load")
  BY TakesTop DEF LoadJob
<1>2. h \in Frames /\ h.op = "load" /\ stack[t] # <<>> /\ Says(h) /\ h.on = On(t)
  BY <1>1 DEF Takes1
<1>3. PICK j \in Jobs : h.on = Leaf(j)
  BY <1>2, FrameFacts DEF Leaves
<1>4. ThenStart(t, <<>>, JobThread(j), <<Running(j)>>)
      /\ UNCHANGED <<status, callbacks, notified, rootTold, cancelling>>
  BY <1>2, <1>3, Names DEF LoadJob
<1>5. PICK f \in Frames : f = Running(j) /\ f.op = "running" /\ f.on = Leaf(j)
  BY FramesMade DEF Running, Frame
<1>6. DOMAIN <<f>> = {1} /\ <<f>>[1] = f /\ <<f>> \in Seq(Frames)
  OBVIOUS
<1>7. JobThread(j) \in Threads
  BY DEF Threads
<1>8. stack' \in [Threads -> Seq(Frames)] /\ \E old : Moves(t, JobThread(j), <<f>>, old)
  BY <1>2, <1>4, <1>5, <1>6, <1>7, ThenStartMoves
<1>9. \A k \in Tokens : Carries(f, k) => Carries(h, k)
  BY <1>2, <1>3, <1>5, TokensAre, CarriesFacts
<1>10. Says(f)
  BY <1>2, <1>3, <1>5 DEF Says, SaysOfDependees, SaysOfTurn, SaysOfLeaf, SaysOfVerdict, SaysOfList, SaysOfCancel
<1> QED
  BY <1>1, <1>4, <1>5, <1>6, <1>7, <1>8, <1>9, <1>10, HandsOnKeeps

(* A leaf that starts the thread of its callbacks.                          *)
LEMMA StartCallbackThreadKeeps ==
  ASSUME FlowInv, NEW t \in Threads, StartCallbackThread(t)
  PROVE  FlowInv'
<1>1. PICK h : Takes1(t, h, "callCallbacks")
  BY TakesTop DEF StartCallbackThread
<1>2. h \in Frames /\ h.op = "callCallbacks" /\ stack[t] # <<>> /\ Says(h) /\ h.on = On(t) /\ h.arg = Arg(t)
  BY <1>1 DEF Takes1
<1>3. PICK j \in Jobs : h.on = Leaf(j)
  BY <1>2, FrameFacts DEF Leaves
<1>4. h.arg \in Lists(Leaf(j)) /\ status[Leaf(j)] \in Verdicts /\ Leaf(j) \in Objects
  BY <1>2, <1>3, FrameFacts, Names DEF Says, SaysOfLeaf
<1>5. PICK s, fs : s \in Verdicts /\ s = status[Leaf(j)] /\ fs = CompletedAll(h.arg, s)
  BY <1>4
<1>6. ThenStart(t, <<>>, CallbackThread(j), fs)
      /\ UNCHANGED <<status, callbacks, notified, rootTold, cancelling>>
  BY <1>2, <1>3, <1>5, Names DEF StartCallbackThread
<1>7. /\ fs \in Seq(Frames) /\ DOMAIN fs = DOMAIN h.arg
      /\ \A m \in DOMAIN fs : fs[m].op = "completed" /\ fs[m].on = h.arg[m] /\ fs[m].arg = s
      /\ \A k \in Tokens : \A m, n \in DOMAIN fs : Carries(fs[m], k) /\ Carries(fs[n], k) => m = n
  BY <1>4, <1>5, TellsList
<1>8. CallbackThread(j) \in Threads
  BY DEF Threads
<1>9. stack' \in [Threads -> Seq(Frames)] /\ \E old : Moves(t, CallbackThread(j), fs, old)
  BY <1>2, <1>6, <1>7, <1>8, ThenStartMoves
<1>10. ASSUME NEW k \in Tokens, NEW m \in DOMAIN fs, Carries(fs[m], k)
       PROVE  Carries(h, k)
  BY <1>2, <1>7, <1>10, TokensAre, CarriesFacts
<1>11. ASSUME NEW m \in DOMAIN fs
       PROVE  Says(fs[m])
  <2>1. fs[m].op = "completed" /\ fs[m].on \in Allowed(Leaf(j)) /\ fs[m].arg = s
    BY <1>4, <1>7, ListSingle
  <2>2. \A d \in Dependents : fs[m].on # DependeeCallback(d)
    BY <2>1, AllowedFacts, CallbackFacts, Names DEF FlowOf
  <2>3. \A d \in Dependents : fs[m].on = DependerCallback(d) => d = j
    BY <2>1, AllowedFacts, CallbackFacts, Names DEF FlowOf
  <2>4. fs[m].on = RootCallback => FlowOf(Root) = Leaf(j)
    BY <2>1, AllowedFacts, CallbackFacts, Names DEF FlowOf
  <2>5. Means(status[Leaf(j)], s)
    BY <1>5 DEF Means, Verdicts, Good
  <2> QED
    BY <2>1, <2>2, <2>3, <2>4, <2>5 DEF Says, SaysOfDependees, SaysOfTurn, SaysOfLeaf, SaysOfVerdict, SaysOfList, SaysOfCancel
<1>12. \A m \in DOMAIN fs : fs[m].op # "generated"
  BY <1>7
<1> QED
  BY <1>1, <1>6, <1>7, <1>8, <1>9, <1>10, <1>11, <1>12, HandsOnKeeps

(* The dependees have ended well: the depender is executed.                 *)
LEMMA DependeeSucceededKeeps ==
  ASSUME FlowInv, NEW t \in Threads, DependeeSucceeded(t)
  PROVE  FlowInv'
<1>1. PICK h : Takes1(t, h, "completed")
  BY TakesTop DEF DependeeSucceeded
<1>2. /\ h \in Frames /\ h.op = "completed" /\ stack[t] # <<>> /\ Says(h) /\ h.on = On(t)
      /\ h.on[1] = "dependeeCallback" /\ h.arg = "SUCCEEDED"
  BY <1>1 DEF Takes1, DependeeSucceeded
<1>3. PICK j \in Dependents : h.on = DependeeCallback(j)
  BY <1>2, FrameFacts, CallbackFacts
<1>4. Then(t, <<Execute(Leaf(j), DependerCallback(j))>>)
      /\ UNCHANGED <<status, callbacks, notified, rootTold, cancelling>>
  BY <1>2, <1>3, CallbackFacts DEF DependeeSucceeded
<1>5. PICK f \in Frames : /\ f = Execute(Leaf(j), DependerCallback(j))
                          /\ f.op = "execute" /\ f.on = Leaf(j) /\ f.arg = DependerCallback(j)
  <2>1. Leaf(j) \in Objects /\ DependerCallback(j) \in Allowed(Leaf(j)) /\ DependerCallback(j) \in TheCallbacks
    BY Names, AllowedFacts, CallbackFacts, TokensAre
  <2>2. Execute(Leaf(j), DependerCallback(j)) \in Frames
    BY <2>1, FramesMade
  <2> QED
    BY <2>2 DEF Execute, Frame
<1>6. DOMAIN <<f>> = {1} /\ <<f>>[1] = f /\ <<f>> \in Seq(Frames)
  OBVIOUS
<1>7. stack' \in [Threads -> Seq(Frames)] /\ \E old : Moves(t, t, <<f>>, old)
  BY <1>2, <1>4, <1>5, <1>6, ThenMoves
<1>8. \A k \in Tokens : Carries(f, k) => Carries(h, k)
  BY <1>2, <1>3, <1>5, TokensAre, CarriesFacts, CallbackFacts
<1>9. \A d \in Dependents : (f.on = Leaf(d) => d = j) /\ f.on # Group(d)
  BY <1>5, Names, TokensAre
<1>10. Says(f)
  BY <1>2, <1>3, <1>5, <1>9 DEF Says, SaysOfDependees, SaysOfTurn, SaysOfLeaf, SaysOfVerdict, SaysOfList, SaysOfCancel
<1> QED
  BY <1>1, <1>4, <1>5, <1>6, <1>7, <1>8, <1>10, HandsOnKeeps

(* A frame that cancels knows that the flow is cancelled, and carries no    *)
(* token.                                                                   *)
LEMMA CancelFramesSay ==
  ASSUME cancelling, NEW f, f.op = "cancel"
  PROVE  Says(f) /\ \A k \in Tokens : ~Carries(f, k)
BY TokensAre, CarriesFacts DEF Says, SaysOfDependees, SaysOfTurn, SaysOfLeaf, SaysOfVerdict, SaysOfList, SaysOfCancel

(* The frames of a group's or a composed flow's cancel().                   *)
CancelFrames(o) ==
  IF o[1] = "composed" THEN <<Cancel(Leaf(o[2])), Cancel(Group(o[2]))>>
  ELSE [i \in DOMAIN Dependees[o[2]] |-> Cancel(FlowOf(Dependees[o[2]][i]))]

(* The cancel() of a composed object calls cancel() of others only.         *)
LEMMA CancelFramesFacts ==
  ASSUME NEW o \in Objects, o[1] # "leaf"
  PROVE  CancelFrames(o) \in Seq(Frames) /\ \A m \in DOMAIN CancelFrames(o) : CancelFrames(o)[m].op = "cancel"
<1>1. o[2] \in Jobs /\ o[2] \in Dependents /\ Dependees[o[2]] \in Seq(Jobs)
  BY ObjectFacts, FlowConstants
<1>2. CASE o[1] = "composed"
  <2>1. PICK e \in Frames, f \in Frames : /\ e = Cancel(Leaf(o[2])) /\ e.op = "cancel"
                                          /\ f = Cancel(Group(o[2])) /\ f.op = "cancel"
    <3>1. Leaf(o[2]) \in Objects /\ Group(o[2]) \in Objects
      BY <1>1, Names
    <3>2. Cancel(Leaf(o[2])) \in Frames /\ Cancel(Group(o[2])) \in Frames
      BY <3>1, FramesMade
    <3> QED
      BY <3>2 DEF Cancel, Frame
  <2>2. CancelFrames(o) = <<e, f>>
    BY <1>2, <2>1 DEF CancelFrames
  <2> QED
    BY <2>1, <2>2
<1>3. CASE o[1] # "composed"
  <2>1. CancelFrames(o) = [i \in DOMAIN Dependees[o[2]] |-> Cancel(FlowOf(Dependees[o[2]][i]))]
    BY <1>3 DEF CancelFrames
  <2>2. \A i \in DOMAIN Dependees[o[2]] : /\ Cancel(FlowOf(Dependees[o[2]][i])) \in Frames
                                          /\ Cancel(FlowOf(Dependees[o[2]][i])).op = "cancel"
    BY <1>1, Names, FramesMade DEF Cancel, Frame
  <2> QED
    BY <1>1, <2>1, <2>2
<1> QED
  BY <1>2, <1>3

(* cancel() of a group or of a composed flow.                               *)
LEMMA CancelChildrenKeeps ==
  ASSUME FlowInv, NEW t \in Threads, CancelChildren(t)
  PROVE  FlowInv'
<1>1. PICK h : Takes1(t, h, "cancel")
  BY TakesTop DEF CancelChildren
<1>2. h \in Frames /\ h.op = "cancel" /\ stack[t] # <<>> /\ Says(h) /\ h.on = On(t)
  BY <1>1 DEF Takes1
<1>3. h.on \in Objects /\ h.on[1] # "leaf" /\ cancelling
  BY <1>2, FrameFacts DEF CancelChildren, Says, SaysOfCancel
<1>4. PICK fs : fs = CancelFrames(h.on)
  OBVIOUS
<1>5. Then(t, fs) /\ UNCHANGED <<status, callbacks, notified, rootTold, cancelling>>
  BY <1>2, <1>4 DEF CancelChildren, CancelFrames
<1>6. fs \in Seq(Frames) /\ \A m \in DOMAIN fs : fs[m].op = "cancel"
  BY <1>3, <1>4, CancelFramesFacts
<1>7. stack' \in [Threads -> Seq(Frames)] /\ \E old : Moves(t, t, fs, old)
  BY <1>2, <1>5, <1>6, ThenMoves
<1>8. \A m \in DOMAIN fs : Says(fs[m]) /\ \A k \in Tokens : ~Carries(fs[m], k)
  BY <1>3, <1>6, CancelFramesSay
<1>9. \A m \in DOMAIN fs : fs[m].op # "generated"
  BY <1>6
<1> QED
  BY <1>1, <1>5, <1>7, <1>8, <1>9, HandsOnKeeps

(* execute() of what has ended tells its callback.                          *)
LEMMA ExecuteFinishedKeeps ==
  ASSUME FlowInv, NEW t \in Threads, ExecuteFinished(t)
  PROVE  FlowInv'
<1>1. PICK h : Takes1(t, h, "execute")
  BY TakesTop DEF ExecuteFinished
<1>2. /\ h \in Frames /\ h.op = "execute" /\ h.on \in Objects /\ h.arg \in Allowed(h.on)
      /\ h.arg \in TheCallbacks /\ h.on = On(t) /\ h.arg = Arg(t)
      /\ h = FrameAt(<<t, 1>>) /\ stack[t] # <<>> /\ Says(h) /\ h.on[2] \in Jobs
  BY <1>1, FrameFacts, ObjectFacts DEF Takes1
<1>3. PICK s, v :
        /\ s = IF status[h.on] = "IGNORED" /\ h.on[1] = "leaf" THEN "COMPLETED" ELSE status[h.on]
        /\ v = IF status[h.on] = "FAILED" THEN "FAILED" ELSE "SUCCEEDED"
  OBVIOUS
<1>4. /\ status[h.on] \in Finished \/ (status[h.on] = "IGNORED" /\ h.on[1] # "composed")
      /\ status' = [status EXCEPT ![h.on] = s]
      /\ Then(t, <<Completed(h.arg, v)>>) \/ Then(t, <<Completed(h.arg, v), Release(h.on)>>)
      /\ callbacks' = callbacks /\ notified' = notified /\ rootTold' = rootTold /\ cancelling' = cancelling
  BY <1>2, <1>3 DEF ExecuteFinished, SetStatus
<1>5. /\ status \in [Objects -> Status] /\ callbacks \in [Objects -> Seq(TheCallbacks)]
      /\ ShapeOf(h.on) /\ rootTold \in Seq(Verdicts) /\ cancelling \in BOOLEAN
  BY <1>2 DEF FlowInv, Shapes
<1>6. /\ status'[h.on] = s /\ s \in Finished /\ v \in Verdicts /\ Means(s, v)
      /\ status[h.on] # "IGNORED" => s = status[h.on]
      /\ status[h.on] = "IGNORED" => h.on[1] = "leaf" /\ s = "COMPLETED"
  BY <1>2, <1>3, <1>4, <1>5, ObjectFacts DEF ShapeOf, Finished, Good, Verdicts, Means
<1>7. PICK f \in Frames, r \in Frames :
        /\ f = Completed(h.arg, v) /\ f.op = "completed" /\ f.on = h.arg /\ f.arg = v
        /\ r = Release(h.on) /\ r.op = "release"
  <2>1. Completed(h.arg, v) \in Frames /\ Release(h.on) \in Frames
    BY <1>2, <1>6, FramesMade
  <2> QED
    BY <2>1 DEF Completed, Release, Frame
<1>8. PICK fs : fs \in {<<f>>, <<f, r>>} /\ Then(t, fs)
  BY <1>4, <1>7
<1>9. fs \in Seq(Frames) /\ DOMAIN fs \subseteq {1, 2} /\ fs[1] = f /\ (2 \in DOMAIN fs => fs[2] = r)
  <2>1. CASE fs = <<f>>
    BY <2>1
  <2>2. CASE fs = <<f, r>>
    BY <2>2
  <2> QED
    BY <1>8, <2>1, <2>2
<1>10. stack' \in [Threads -> Seq(Frames)] /\ \E old : Moves(t, t, fs, old)
  BY <1>2, <1>8, <1>9, ThenMoves
<1>11. PICK old : Moves(t, t, fs, old)
  BY <1>10
<1>12. Only(h.on)
  BY <1>2, <1>4, <1>5, <1>6 DEF Only, Status, Finished, Good
<1>13. Shapes'
  <2>1. ShapeOf(h.on)'
    BY <1>4, <1>5, <1>6 DEF ShapeOf, Finished, Good
  <2> QED
    BY <2>1, <1>2, <1>4, <1>5, <1>10, <1>12, OnlyShapes
<1>14. Effects(h)
  <2>1. ASSUME NEW j \in Jobs, h.on = Leaf(j) PROVE LeafEffects(h, j)
    BY <2>1, <1>2, <1>4, <1>6 DEF LeafEffects, EndStays, Good, Finished, NotRun, Verdicts
  <2>2. ASSUME NEW j \in Dependents, h.on = Composed(j) PROVE ComposedEffects(j)
    BY <2>2, <1>6, Names, TokensAre DEF ComposedEffects, EndStays
  <2>3. ASSUME NEW j \in Dependents, h.on = Group(j) PROVE GroupEffects(h, j)
    BY <2>3, <1>4, <1>6, Names, TokensAre DEF GroupEffects
  <2> QED
    BY <2>1, <2>2, <2>3, <1>2, <1>4, <1>12, OnlyEffects
<1>15. \A k \in Tokens : Passes(k, h, fs)
  <2>1. \A j \in Jobs : ~Generates(fs, j)
    BY <1>7, <1>9 DEF Generates
  <2>2. \A k \in Tokens : ~Carries(r, k) /\ (Carries(f, k) => Carries(h, k))
    BY <1>2, <1>7, TokensAre, CarriesFacts
  <2>3. /\ \A k \in Tokens : \A m, n \in DOMAIN fs : Carries(fs[m], k) /\ Carries(fs[n], k) => m = n
        /\ \A k \in Tokens : \A m \in DOMAIN fs : Carries(fs[m], k) => Carries(h, k)
    BY <2>2, <1>9
  <2>4. \A j \in Dependents : status'[Composed(j)] = status[Composed(j)]
    BY <1>2, <1>4, <1>5, <1>6, Names, TokensAre
  <2>5. \A j \in Jobs : status'[Leaf(j)] = status[Leaf(j)] \/ (~NotRun(j)' /\ status'[Leaf(j)] # "RUNNING")
    BY <1>2, <1>4, <1>5, <1>6, Names DEF NotRun
  <2> QED
    BY <2>1, <2>3, <2>4, <2>5, <1>2, <1>4, <1>11, HandsOnAll
<1>16. Says(f)' /\ Says(r)'
  <2>1. Says(r)'
    BY <1>7 DEF Says, SaysOfDependees, SaysOfTurn, SaysOfLeaf, SaysOfVerdict, SaysOfList, SaysOfCancel
  <2>2. ASSUME NEW j \in Dependents, f.on = DependeeCallback(j)
        PROVE  /\ IF f.arg = "SUCCEEDED" THEN AllGood(j)' ELSE SomeFailed(j)' \/ cancelling'
               /\ NotRun(j)' \/ cancelling'
    <3>1. h.on = Group(j)
      <4>1. ~(h.arg \in Asked(h.on[2]))
        BY <2>2, <1>2, <1>7, AllowedFacts, CallbackFacts
      <4>2. h.on[2] \in Dependents /\ (h.on = Group(h.on[2]) \/ h.on = Leaf(h.on[2]))
        BY <4>1, <1>2, ObjectFacts, AllowedFacts DEF Allowed
      <4> QED
        BY <2>2, <4>2, <1>2, <1>7, AllowedFacts, CallbackFacts
    <3>2. IF v = "SUCCEEDED" THEN AllGood(j) ELSE SomeFailed(j) \/ cancelling
      BY <3>1, <1>3, <1>4, <1>5, <1>6, Names, TokensAre DEF FlowInv, GroupsKnow, ShapeOf, Verdicts, Finished, Good
    <3>3. IF v = "SUCCEEDED" THEN AllGood(j)' ELSE SomeFailed(j)' \/ cancelling'
      BY <3>2, <1>14, <1>4, GoodKept
    <3>4. NotRun(j) \/ cancelling
      BY <3>1, <1>2 DEF Says, SaysOfTurn
    <3>5. NotRun(j)' \/ cancelling'
      BY <3>1, <3>4, <1>4, <1>14, Names, TokensAre DEF Effects, LeafEffects
    <3> QED
      BY <3>3, <3>5, <1>7
  <2>3. ASSUME NEW j \in Dependents, f.on = DependerCallback(j)
        PROVE  Means(status'[Leaf(j)], v)
    <3>1. ~(h.arg \in Asked(h.on[2]))
      BY <2>3, <1>2, <1>7, AllowedFacts, CallbackFacts
    <3>2. h.on[2] \in Dependents /\ (h.on = Group(h.on[2]) \/ h.on = Leaf(h.on[2]))
      BY <3>1, <1>2, ObjectFacts, AllowedFacts DEF Allowed
    <3>3. h.on = Leaf(j)
      BY <2>3, <3>2, <1>2, <1>7, AllowedFacts, CallbackFacts
    <3> QED
      BY <3>3, <1>6
  <2>4. f.on = RootCallback => Means(status'[FlowOf(Root)], v)
    <3> SUFFICES ASSUME f.on = RootCallback
                 PROVE  h.on = FlowOf(Root)
      BY <1>6
    <3>1. h.on = FlowOf(h.on[2])
      <4>1. \A d \in Dependents : h.on # Group(d) /\ h.on # Leaf(d)
        BY <1>2, <1>7, AllowedFacts, CallbackFacts
      <4> QED
        BY <4>1, <1>2, ObjectFacts DEF FlowOf
    <3>2. h.arg \in Asked(h.on[2])
      BY <3>1, <1>2, AllowedFacts
    <3> QED
      BY <3>1, <3>2, <1>2, <1>7, AllowedFacts, CallbackFacts
  <2>5. Says(f)'
    BY <2>2, <2>3, <2>4, <1>7 DEF Says, SaysOfDependees, SaysOfTurn, SaysOfLeaf, SaysOfVerdict, SaysOfList, SaysOfCancel
  <2> QED
    BY <2>1, <2>5
<1>17. \A m \in DOMAIN fs : Says(fs[m])'
  BY <1>9, <1>16
<1> QED
  BY <1>2, <1>11, <1>13, <1>14, <1>15, <1>17, StepKeeps

(* The caller of the root is told.                                          *)
LEMMA RootCompletedKeeps ==
  ASSUME FlowInv, NEW t \in Threads, RootCompleted(t)
  PROVE  FlowInv'
<1>1. PICK h : Takes1(t, h, "completed")
  BY TakesTop DEF RootCompleted
<1>2. /\ h \in Frames /\ h.op = "completed" /\ stack[t] # <<>> /\ h.on = RootCallback
      /\ h.arg \in Verdicts /\ h = FrameAt(<<t, 1>>) /\ rootTold' = Append(rootTold, h.arg)
      /\ Then(t, <<>>) /\ UNCHANGED <<status, callbacks, notified, cancelling>>
  BY <1>1, FrameFacts DEF Takes1, RootCompleted
<1>3. PICK fs : fs = <<>> /\ fs \in Seq(Frames) /\ DOMAIN fs = {}
  <2>1. <<>> \in Seq(Frames) /\ DOMAIN <<>> = {}
    OBVIOUS
  <2> QED
    BY <2>1
<1>4. stack' \in [Threads -> Seq(Frames)] /\ \E old : Moves(t, t, fs, old)
  BY <1>2, <1>3, ThenMoves
<1>5. PICK old : Moves(t, t, fs, old)
  BY <1>4
<1>6. Shapes'
  <2>1. rootTold' \in Seq(Verdicts)
    BY <1>2 DEF FlowInv, Shapes
  <2> QED
    BY <2>1, <1>2, <1>4 DEF FlowInv, Shapes, ShapeOf
<1>7. Effects(h)
  <2>1. (cancelling => cancelling') /\ \A j \in Jobs : LeafEffects(h, j)
    BY <1>2, Untouched
  <2>2. \A j \in Dependents : ComposedEffects(j) /\ GroupEffects(h, j)
    BY <1>2, Untouched
  <2> QED
    BY <2>1, <2>2 DEF Effects
<1>8. \A j \in Jobs : ~Generates(fs, j)
  BY <1>3 DEF Generates
<1>9. ASSUME NEW j \in Dependents PROVE Passes(Flow(j), h, fs)
  BY <1>2, <1>3, <1>5, <1>8, TokensAre, OtherFlow
<1>10. ASSUME NEW j \in Jobs PROVE Passes(Worker(j), h, fs)
  <2>1. NotRun(j)' => NotRun(j)
    BY <1>2 DEF NotRun
  <2> QED
    BY <2>1, <1>2, <1>3, <1>5, OtherWorker
<1>11. Passes(Caller, h, fs)
  <2>1. Carries(h, Caller) /\ Slots(Caller) = {}
    BY <1>1, <1>2, CarriesFacts, TakenToken, TokensAre
  <2>2. Root \notin Dependents => (Pending(Root)' => Pending(Root))
    BY <1>2, <1>5, <1>8, PendingStays, TokensAre
  <2>3. \A s \in Slots(Caller)' : s = "done"
    BY <2>1, <2>2, <1>2, CallerSlots
  <2> QED
    BY <2>1, <2>3, <1>3 DEF Passes
<1>12. \A k \in Tokens : Passes(k, h, fs)
  BY <1>9, <1>10, <1>11, TokensAre
<1> QED
  BY <1>2, <1>3, <1>5, <1>6, <1>7, <1>12, StepKeeps

(* execute() of what runs registers its callback.                           *)
LEMMA ExecuteRunningKeeps ==
  ASSUME FlowInv, NEW t \in Threads, ExecuteRunning(t)
  PROVE  FlowInv'
<1>1. PICK h : Takes1(t, h, "execute")
  BY TakesTop DEF ExecuteRunning
<1>2. /\ h \in Frames /\ h.op = "execute" /\ h.on \in Objects /\ h.arg \in Allowed(h.on)
      /\ h = FrameAt(<<t, 1>>) /\ stack[t] # <<>> /\ h.on[2] \in Jobs
  BY <1>1, FrameFacts, ObjectFacts DEF Takes1
<1>3. /\ status[h.on] = "RUNNING" /\ callbacks' = [callbacks EXCEPT ![h.on] = Append(@, h.arg)]
      /\ Then(t, <<>>) /\ UNCHANGED <<status, notified, rootTold, cancelling>>
  BY <1>1 DEF ExecuteRunning, Takes1
<1>4. PICK fs : fs = <<>> /\ fs \in Seq(Frames) /\ DOMAIN fs = {}
  <2>1. <<>> \in Seq(Frames) /\ DOMAIN <<>> = {}
    OBVIOUS
  <2> QED
    BY <2>1
<1>5. stack' \in [Threads -> Seq(Frames)] /\ \E old : Moves(t, t, fs, old)
  BY <1>2, <1>3, <1>4, ThenMoves
<1>6. PICK old : Moves(t, t, fs, old)
  BY <1>5
<1>7. /\ status \in [Objects -> Status] /\ callbacks \in [Objects -> Seq(TheCallbacks)]
      /\ rootTold \in Seq(Verdicts) /\ cancelling \in BOOLEAN /\ ShapeOf(h.on)
  BY <1>2 DEF FlowInv, Shapes
<1>8. /\ callbacks'[h.on] = Append(callbacks[h.on], h.arg)
      /\ callbacks'[h.on] \in Lists(h.on) /\ callbacks'[h.on] # <<>>
      /\ RangeOf(callbacks'[h.on]) = RangeOf(callbacks[h.on]) \cup {h.arg}
  BY <1>1, <1>2, <1>3, <1>7, Registers
<1>9. Only(h.on)
  <2>1. Lists(h.on) \subseteq Seq(TheCallbacks)
    BY <1>2, AllowedFacts
  <2> QED
    BY <2>1, <1>2, <1>3, <1>7, <1>8 DEF Only
<1>10. Shapes'
  <2>1. ShapeOf(h.on)'
    BY <1>3, <1>7, <1>8 DEF ShapeOf
  <2> QED
    BY <2>1, <1>2, <1>3, <1>5, <1>7, <1>9, OnlyShapes
<1>11. Effects(h)
  <2>1. ASSUME NEW j \in Jobs, h.on = Leaf(j) PROVE LeafEffects(h, j)
    BY <2>1, <1>3 DEF LeafEffects, EndStays, NotRun
  <2>2. ASSUME NEW j \in Dependents, h.on = Composed(j) PROVE ComposedEffects(j)
    BY <2>2, <1>3 DEF ComposedEffects, EndStays
  <2>3. ASSUME NEW j \in Dependents, h.on = Group(j) PROVE GroupEffects(h, j)
    BY <2>3, <1>2, <1>3, <1>8 DEF GroupEffects
  <2> QED
    BY <2>1, <2>2, <2>3, <1>2, <1>3, <1>9, OnlyEffects
<1>12. \A j \in Jobs : ~Generates(fs, j) /\ (Pending(j)' => Pending(j))
  <2>1. \A j \in Jobs : ~Generates(fs, j)
    BY <1>4 DEF Generates
  <2> QED
    BY <2>1, <1>3, <1>6, PendingStays
<1>13. ASSUME NEW j \in Dependents PROVE Passes(Flow(j), h, fs)
  <2>1. j \in Jobs /\ (Carries(h, Flow(j)) => Slots(Flow(j)) = {})
    BY <1>1, TakenToken, TokensAre
  <2>2. CASE h.on = Leaf(j)
    <3>1. Carries(h, Flow(j))
      BY <2>2, <1>2, AllowedFacts, CarriesFacts
    <3>2. callbacks'[Group(j)] = callbacks[Group(j)]
      BY <2>1, <2>2, <1>9, Names DEF Only
    <3>3. \A s \in Slots(Flow(j))' : s = "leaf"
      BY <2>1, <3>1, <3>2, <1>3, FlowSlots
    <3> QED
      BY <3>1, <3>3, <1>4 DEF Passes
  <2>3. CASE h.on = Group(j)
    <3>1. Carries(h, Flow(j))
      BY <2>3, <1>2, AllowedFacts, CarriesFacts
    <3>2. callbacks'[Leaf(j)] = callbacks[Leaf(j)]
      BY <2>1, <2>3, <1>9, Names DEF Only
    <3>3. \A s \in Slots(Flow(j))' : s = "group"
      BY <2>1, <3>1, <3>2, <1>3, <1>12, FlowSlots
    <3> QED
      BY <3>1, <3>3, <1>4 DEF Passes
  <2>4. CASE h.on \notin {Leaf(j), Group(j)}
    <3>1. callbacks'[Leaf(j)] = callbacks[Leaf(j)] /\ callbacks'[Group(j)] = callbacks[Group(j)]
      BY <2>1, <2>4, <1>9, Names DEF Only
    <3> QED
      BY <2>1, <3>1, <1>2, <1>3, <1>4, <1>6, <1>12, OtherFlow
  <2> QED
    BY <2>2, <2>3, <2>4
<1>14. ASSUME NEW j \in Jobs PROVE Passes(Worker(j), h, fs)
  <2>1. NotRun(j)' => NotRun(j)
    BY <1>3 DEF NotRun
  <2> QED
    BY <2>1, <1>2, <1>4, <1>6, OtherWorker
<1>15. Passes(Caller, h, fs)
  <2>1. Root \in Jobs
    BY TokensAre
  <2>2. CASE h.on = FlowOf(Root) /\ h.arg = RootCallback
    <3>1. Carries(h, Caller) /\ Slots(Caller) = {}
      BY <1>1, <1>2, <2>2, CarriesFacts, TakenToken, TokensAre
    <3>2. \A s \in Slots(Caller)' : s = "flow"
      BY <3>1, <1>3, CallerSlots
    <3> QED
      BY <3>1, <3>2, <1>4 DEF Passes
  <2>3. CASE ~(h.on = FlowOf(Root) /\ h.arg = RootCallback)
    <3>1. RootCallback \in RangeOf(callbacks'[FlowOf(Root)]) => RootCallback \in RangeOf(callbacks[FlowOf(Root)])
      <4>1. CASE h.on = FlowOf(Root)
        BY <2>3, <4>1, <1>8
      <4>2. CASE h.on # FlowOf(Root)
        <5>1. callbacks'[FlowOf(Root)] = callbacks[FlowOf(Root)]
          BY <2>1, <4>2, <1>9, Names DEF Only
        <5> QED
          BY <5>1
      <4> QED
        BY <4>1, <4>2
    <3>2. Slots(Caller)' \subseteq Slots(Caller)
      BY <2>1, <3>1, <1>3, <1>12, CallerSlots
    <3> QED
      BY <3>2, <1>4 DEF Passes
  <2> QED
    BY <2>2, <2>3
<1>16. \A k \in Tokens : Passes(k, h, fs)
  BY <1>13, <1>14, <1>15, TokensAre
<1> QED
  BY <1>2, <1>4, <1>6, <1>10, <1>11, <1>16, StepKeeps

(* A child has told its group.                                              *)
LEMMA GroupCompletedKeeps ==
  ASSUME FlowInv, NEW t \in Threads, GroupCompleted(t)
  PROVE  FlowInv'
<1>1. PICK h : Takes1(t, h, "completed")
  BY TakesTop DEF GroupCompleted
<1>2. /\ h \in Frames /\ h.op = "completed" /\ stack[t] # <<>> /\ h = FrameAt(<<t, 1>>)
      /\ h.on = On(t) /\ h.on \in TheCallbacks /\ h.on[1] = "groupCallback"
  BY <1>1, FrameFacts DEF Takes1, GroupCompleted
<1>3. PICK j \in Dependents : h.on = GroupCallback(j, 1) /\ h.on[2] = j
  BY <1>2, CallbackFacts
<1>4. PICK list : list = callbacks[Group(j)]
  OBVIOUS
<1>5. /\ UpdateState(j) /\ Then(t, <<Verdict(GroupCallback(j, 1), list)>>)
      /\ UNCHANGED <<callbacks, notified, rootTold, cancelling>>
  BY <1>2, <1>3, <1>4 DEF GroupCompleted
<1>6. /\ Group(j) \in Objects /\ ShapeOf(Group(j)) /\ status \in [Objects -> Status]
      /\ callbacks \in [Objects -> Seq(TheCallbacks)]
      /\ rootTold \in Seq(Verdicts) /\ cancelling \in BOOLEAN
  BY Names, TokensAre DEF FlowInv, Shapes
<1>7. /\ status' \in [Objects -> Status]
      /\ \A o \in Objects \ {Group(j)} : status'[o] = status[o]
      /\ \/ status'[Group(j)] = status[Group(j)]
         \/ status'[Group(j)] = "FAILED" /\ SomeFailed(j)
         \/ status'[Group(j)] = "SUCCEEDED" /\ AllGood(j)
  BY <1>5, <1>6 DEF UpdateState, SetStatus, SomeFailed, AllGood, Status
<1>8. PICK f \in Frames : f = Verdict(GroupCallback(j, 1), list) /\ f.op = "verdict"
                          /\ f.on = GroupCallback(j, 1) /\ f.arg = list
  <2>1. Verdict(GroupCallback(j, 1), list) \in Frames
    BY <1>4, <1>6, FramesMade, ListSingle DEF ShapeOf
  <2> QED
    BY <2>1 DEF Verdict, Frame
<1>9. PICK fs : fs = <<f>> /\ fs \in Seq(Frames) /\ DOMAIN fs = {1} /\ fs[1] = f
  <2>1. <<f>> \in Seq(Frames) /\ DOMAIN <<f>> = {1} /\ <<f>>[1] = f
    OBVIOUS
  <2> QED
    BY <2>1
<1>10. stack' \in [Threads -> Seq(Frames)] /\ \E old : Moves(t, t, fs, old)
  BY <1>2, <1>5, <1>8, <1>9, ThenMoves
<1>11. PICK old : Moves(t, t, fs, old)
  BY <1>10
<1>12. Only(Group(j))
  BY <1>5, <1>6, <1>7 DEF Only
<1>13. Shapes'
  <2>1. ShapeOf(Group(j))'
    BY <1>5, <1>6, <1>7, Names, TokensAre DEF ShapeOf, Verdicts
  <2> QED
    BY <2>1, <1>5, <1>6, <1>10, <1>12, OnlyShapes
<1>14. Effects(h)
  <2>1. GroupEffects(h, j)
    BY <1>5, <1>7 DEF GroupEffects, Verdicts
  <2>2. \A i \in Jobs : Group(j) # Leaf(i)
    BY <1>3, Names, TokensAre
  <2>3. \A i \in Dependents : Group(j) # Composed(i) /\ (Group(j) = Group(i) => i = j)
    BY <1>3, Names, TokensAre
  <2>4. \A i \in Dependents : Group(j) = Group(i) => GroupEffects(h, i)
    BY <2>1, <2>3
  <2> QED
    BY <2>2, <2>3, <2>4, <1>5, <1>6, <1>12, OnlyEffects
<1>15. \A k \in Tokens : Passes(k, h, fs)
  <2>1. \A i \in Jobs : ~Generates(fs, i)
    BY <1>8, <1>9 DEF Generates
  <2>2. \A k \in Tokens : ~Carries(f, k)
    BY <1>8, TokensAre, CarriesFacts
  <2>3. \A i \in Dependents : status'[Composed(i)] = status[Composed(i)]
    BY <1>7, Names, TokensAre
  <2>4. \A i \in Jobs : status'[Leaf(i)] = status[Leaf(i)] \/ (~NotRun(i)' /\ status'[Leaf(i)] # "RUNNING")
    BY <1>3, <1>7, Names, TokensAre
  <2> QED
    BY <2>1, <2>2, <2>3, <2>4, <1>2, <1>5, <1>9, <1>11, HandsOnAll
<1>16. Says(f)'
  BY <1>4, <1>5, <1>8, CallbackFacts DEF Says, SaysOfDependees, SaysOfTurn, SaysOfLeaf, SaysOfVerdict, SaysOfList, SaysOfCancel
<1> QED
  BY <1>2, <1>9, <1>11, <1>13, <1>14, <1>15, <1>16, StepKeeps

(* A group that all children have told tells its own list.                  *)
LEMMA GroupVerdictKeeps ==
  ASSUME FlowInv, NEW t \in Threads, GroupVerdict(t)
  PROVE  FlowInv'
<1>1. PICK h : Takes1(t, h, "verdict")
  BY TakesTop DEF GroupVerdict
<1>2. /\ h \in Frames /\ h.op = "verdict" /\ stack[t] # <<>> /\ h = FrameAt(<<t, 1>>) /\ Says(h)
      /\ h.on = On(t) /\ h.arg = Arg(t) /\ h.on[2] \in Dependents /\ h.on = GroupCallback(h.on[2], 1)
      /\ h.arg \in Lists(Group(h.on[2]))
  BY <1>1, FrameFacts DEF Takes1
<1>3. PICK j \in Dependents : h.on = GroupCallback(j, 1) /\ h.on[2] = j /\ h.on[3] = 1
  BY <1>2, CallbackFacts
<1>4. PICK final \in BOOLEAN : final <=> (status[Group(j)] \in {"SUCCEEDED", "FAILED"} /\ ~notified[j][1])
  <2>1. PICK x : x = (status[Group(j)] \in {"SUCCEEDED", "FAILED"} /\ ~notified[j][1])
    OBVIOUS
  <2> QED
    BY <2>1
<1>5. PICK b \in BOOLEAN : notified[j] = <<b>> /\ (b <=> notified[j][1])
  BY <1>3 DEF FlowInv, Shapes
<1>6. /\ notified' = [notified EXCEPT ![j][1] = @ \/ final]
      /\ Then(t, IF final THEN CompletedAll(h.arg, status[Group(j)]) ELSE <<>>)
      /\ UNCHANGED <<status, callbacks, rootTold, cancelling>>
  <2>1. On(t)[2] = j /\ On(t)[3] = 1 /\ Arg(t) = h.arg
    BY <1>2, <1>3
  <2>2. (status[Group(On(t)[2])] \in {"SUCCEEDED", "FAILED"} /\ ~notified[On(t)[2]][On(t)[3]]) = final
    BY <2>1, <1>4
  <2>3. /\ notified' = [notified EXCEPT ![On(t)[2]][On(t)[3]] = @ \/ final]
        /\ Then(t, IF final THEN CompletedAll(Arg(t), status[Group(On(t)[2])]) ELSE <<>>)
    BY <2>2 DEF GroupVerdict
  <2>4. UNCHANGED <<status, callbacks, rootTold, cancelling>>
    BY DEF GroupVerdict
  <2> QED
    BY <2>1, <2>3, <2>4
<1>7. /\ notified \in [Dependents -> {<<x>> : x \in BOOLEAN}]
      /\ notified'[j] = <<b \/ final>> /\ \A i \in Dependents \ {j} : notified'[i] = notified[i]
      /\ notified' \in [Dependents -> {<<x>> : x \in BOOLEAN}]
  <2>1. notified \in [Dependents -> {<<x>> : x \in BOOLEAN}]
    BY DEF FlowInv, Shapes
  <2>2. notified'[j] = <<b \/ final>>
    BY <2>1, <1>5, <1>6
  <2>3. \A i \in Dependents \ {j} : notified'[i] = notified[i]
    BY <2>1, <1>6
  <2>4. DOMAIN notified' = Dependents /\ notified' = [i \in Dependents |-> notified'[i]]
    BY <2>1, <1>6
  <2>5. \A i \in Dependents : notified'[i] \in {<<x>> : x \in BOOLEAN}
    BY <2>1, <2>2, <2>3
  <2> QED
    BY <2>1, <2>2, <2>3, <2>4, <2>5
<1>8. CASE ~final
  <2>1. notified' = notified
    BY <1>5, <1>7, <1>8
  <2> QED
    BY <2>1, <1>1, <1>6, <1>8, PopKeeps DEF GroupVerdict
<1>9. CASE final
  <2>1. PICK s \in Verdicts : s = status[Group(j)]
    BY <1>4, <1>9 DEF Verdicts
  <2>2. PICK fs : fs = CompletedAll(h.arg, s)
    OBVIOUS
  <2>3. /\ fs \in Seq(Frames) /\ DOMAIN fs = DOMAIN h.arg
        /\ \A m \in DOMAIN fs : fs[m].op = "completed" /\ fs[m].on = h.arg[m] /\ fs[m].arg = s
        /\ \A k \in Tokens : \A m, n \in DOMAIN fs : Carries(fs[m], k) /\ Carries(fs[n], k) => m = n
    BY <1>2, <1>3, <2>2, Names, TokensAre, TellsList
  <2>4. \A m \in DOMAIN fs : fs[m].on = DependeeCallback(j)
    <3>1. Group(j) \in Objects /\ h.arg \in Lists(Group(j)) /\ Allowed(Group(j)) = {DependeeCallback(j)}
      BY <1>2, <1>3, Names, TokensAre, AllowedFacts
    <3> QED
      BY <2>3, <3>1, ListSingle
  <2>5. Then(t, fs)
    BY <1>6, <1>9, <2>1, <2>2
  <2>6. stack' \in [Threads -> Seq(Frames)] /\ \E old : Moves(t, t, fs, old)
    BY <1>2, <2>3, <2>5, ThenMoves
  <2>7. PICK old : Moves(t, t, fs, old)
    BY <2>6
  <2>8. Shapes'
    BY <1>6, <1>7, <2>6 DEF FlowInv, Shapes, ShapeOf
  <2>9. Effects(h)
    <3>1. (cancelling => cancelling') /\ \A i \in Jobs : LeafEffects(h, i)
      BY <1>6, Untouched
    <3>2. \A i \in Dependents : ComposedEffects(i)
      BY <1>6, Untouched
    <3>3. \A i \in Dependents \ {j} : GroupEffects(h, i)
      BY <1>6, <1>7, Untouched
    <3>4. GroupEffects(h, j)
      BY <1>6, <1>7, <1>9, <2>1 DEF GroupEffects
    <3> QED
      BY <3>1, <3>2, <3>3, <3>4 DEF Effects
  <2>10. \A i \in Jobs : ~Generates(fs, i) /\ (Pending(i)' => Pending(i))
    <3>1. \A i \in Jobs : ~Generates(fs, i)
      BY <2>3 DEF Generates
    <3> QED
      BY <3>1, <1>6, <2>7, PendingStays
  <2>11. DOMAIN fs # {} => "group" \in Slots(Flow(j)) /\ (NotRun(j) \/ cancelling)
    <3> SUFFICES ASSUME DOMAIN fs # {}
                 PROVE  "group" \in Slots(Flow(j)) /\ (NotRun(j) \/ cancelling)
      OBVIOUS
    <3>1. h.arg # <<>>
      BY <2>3
    <3>2. callbacks[Group(j)] # <<>>
      BY <3>1, <1>2, <1>3 DEF Says, SaysOfList
    <3>3. ~notified[j][1]
      BY <1>4, <1>9
    <3>4. "group" \in Slots(Flow(j))
      BY <3>2, <3>3, FlowSlots
    <3> QED
      BY <3>4 DEF FlowInv, TurnsCome, Slots
  <2>12. ASSUME NEW i \in Dependents PROVE Passes(Flow(i), h, fs)
    <3>1. CASE i = j
      <4>1. Slots(Flow(j))' \subseteq Slots(Flow(j)) \ {"group"}
        BY <1>6, <1>7, <1>9, <2>10, FlowSlots, TokensAre
      <4>2. DOMAIN fs # {} => Slots(Flow(j)) = {"group"}
        BY <2>11, TokensAre DEF FlowInv, OneToken
      <4>3. DOMAIN fs # {} => Slots(Flow(j))' = {} /\ Slots(Flow(j)) # {}
        BY <4>1, <4>2
      <4> QED
        BY <3>1, <4>1, <4>3, <2>3, TokensAre DEF Passes
    <3>2. CASE i # j
      <4>1. \A m \in DOMAIN fs : ~Carries(fs[m], Flow(i))
        BY <3>2, <2>3, <2>4, CarriesFacts, CallbackFacts
      <4> QED
        BY <3>2, <4>1, <1>2, <1>6, <1>7, <2>7, <2>10, OtherFlow, TokensAre
    <3> QED
      BY <3>1, <3>2
  <2>13. ASSUME NEW i \in Jobs PROVE Passes(Worker(i), h, fs)
    <3>1. NotRun(i)' => NotRun(i)
      BY <1>6 DEF NotRun
    <3>2. \A m \in DOMAIN fs : ~Carries(fs[m], Worker(i))
      BY <2>3, CarriesFacts
    <3> QED
      BY <3>1, <3>2, <1>2, <2>7, OtherWorker
  <2>14. Passes(Caller, h, fs)
    <3>1. \A m \in DOMAIN fs : ~Carries(fs[m], Caller)
      BY <2>3, <2>4, CarriesFacts, CallbackFacts
    <3> QED
      BY <3>1, <1>2, <1>6, <2>7, <2>10, OtherCaller, TokensAre
  <2>15. \A k \in Tokens : Passes(k, h, fs)
    BY <2>12, <2>13, <2>14, TokensAre
  <2>16. ASSUME NEW m \in DOMAIN fs PROVE Says(fs[m])'
    <3>1. fs[m].op = "completed" /\ fs[m].on = DependeeCallback(j) /\ fs[m].arg = s
      BY <2>3, <2>4
    <3>2. IF s = "SUCCEEDED" THEN AllGood(j) ELSE SomeFailed(j) \/ cancelling
      BY <2>1 DEF FlowInv, GroupsKnow, Verdicts
    <3>3. IF s = "SUCCEEDED" THEN AllGood(j)' ELSE SomeFailed(j)' \/ cancelling'
      BY <3>2, <2>9, <1>6, GoodKept
    <3>4. NotRun(j)' \/ cancelling'
      BY <2>11, <1>6 DEF NotRun
    <3>5. \A i \in Dependents : (fs[m].on = DependeeCallback(i) => i = j) /\ fs[m].on # DependerCallback(i)
      BY <3>1, CallbackFacts
    <3>6. fs[m].on # RootCallback
      BY <3>1, CallbackFacts
    <3> QED
      BY <3>1, <3>3, <3>4, <3>5, <3>6 DEF Says, SaysOfDependees, SaysOfTurn, SaysOfLeaf, SaysOfVerdict, SaysOfList, SaysOfCancel
  <2> QED
    BY <1>2, <2>7, <2>8, <2>9, <2>15, <2>16, StepKeeps
<1> QED
  BY <1>8, <1>9

(* A leaf gives its list away: to a frame, or to the frames of the callbacks. *)
LEMMA GivesList ==
  ASSUME FlowInv, NEW t \in Threads, NEW v \in Threads, NEW fs, NEW old, Moves(t, v, fs, old),
         NEW h, h = FrameAt(<<t, 1>>), NEW j \in Jobs, NEW list, list = callbacks[Leaf(j)],
         Only(Leaf(j)), notified' = notified, rootTold' = rootTold,
         NotRun(j)' => NotRun(j),
         list # <<>> => Pending(j),
         callbacks'[Leaf(j)] # <<>> => ~Pending(j)',
         \A i \in Jobs : ~Generates(fs, i),
         \A k \in Tokens : \A m, n \in DOMAIN fs : Carries(fs[m], k) /\ Carries(fs[n], k) => m = n,
         \A i \in Jobs : \A m \in DOMAIN fs : ~Carries(fs[m], Worker(i)),
         \A i \in Dependents : \A m \in DOMAIN fs : Carries(fs[m], Flow(i)) => i = j /\ list # <<>>,
         \A m \in DOMAIN fs : Carries(fs[m], Caller) => RootCallback \in RangeOf(list)
  PROVE  \A k \in Tokens : Passes(k, h, fs)
<1>1. Leaf(j) \in Objects /\ list \in Lists(Leaf(j))
  BY Names DEF FlowInv, Shapes, ShapeOf
<1>2. ASSUME NEW i \in Dependents PROVE Passes(Flow(i), h, fs)
  <2>1. i \in Jobs /\ Flow(i) \in Tokens /\ OneToken(Flow(i))
    BY TokensAre DEF FlowInv
  <2>2. callbacks'[Group(i)] = callbacks[Group(i)] /\ status'[Composed(i)] = status[Composed(i)]
    BY <2>1, Names DEF Only
  <2>3. CASE i = j
    <3>1. Slots(Flow(i))' \subseteq Slots(Flow(i)) \ {"leaf"}
      BY <2>2, <2>3, FlowSlots
    <3>2. ASSUME NEW m \in DOMAIN fs, Carries(fs[m], Flow(i))
          PROVE  Slots(Flow(i)) = {"leaf"}
      <4>1. "leaf" \in Slots(Flow(i))
        BY <2>3, <3>2, FlowSlots
      <4> QED
        BY <4>1, <2>1 DEF OneToken
    <3>3. (\E m \in DOMAIN fs : Carries(fs[m], Flow(i))) => Slots(Flow(i))' = {} /\ Slots(Flow(i)) # {}
      BY <3>1, <3>2
    <3> QED
      BY <2>1, <3>1, <3>3 DEF Passes
  <2>4. CASE i # j
    <3>1. status'[Leaf(i)] = status[Leaf(i)] /\ callbacks'[Leaf(i)] = callbacks[Leaf(i)]
      BY <2>1, <2>4, Names DEF Only
    <3> QED
      BY <2>1, <2>2, <2>4, <3>1, OtherFlow
  <2> QED
    BY <2>3, <2>4
<1>3. ASSUME NEW i \in Jobs PROVE Passes(Worker(i), h, fs)
  <2>1. NotRun(i)' => NotRun(i)
    BY Names DEF Only, NotRun
  <2> QED
    BY <2>1, OtherWorker
<1>4. Passes(Caller, h, fs)
  <2>1. Root \in Jobs /\ Caller \in Tokens /\ OneToken(Caller)
    BY TokensAre DEF FlowInv
  <2>2. CASE Leaf(j) = FlowOf(Root)
    <3>1. j = Root /\ Root \notin Dependents
      BY <2>1, <2>2, Names
    <3>2. Slots(Caller)' \subseteq Slots(Caller) \ {"flow"}
      <4>1. RootCallback \in RangeOf(callbacks'[Leaf(j)]) => callbacks'[Leaf(j)] # <<>>
        BY DEF RangeOf
      <4> QED
        BY <2>2, <3>1, <4>1, CallerSlots
    <3>3. ASSUME NEW m \in DOMAIN fs, Carries(fs[m], Caller)
          PROVE  Slots(Caller) = {"flow"}
      <4>1. RootCallback \in RangeOf(list) /\ list # <<>>
        BY <3>3 DEF RangeOf
      <4>2. "flow" \in Slots(Caller)
        BY <2>2, <3>1, <4>1, CallerSlots
      <4> QED
        BY <4>2, <2>1 DEF OneToken
    <3>4. (\E m \in DOMAIN fs : Carries(fs[m], Caller)) => Slots(Caller)' = {} /\ Slots(Caller) # {}
      BY <3>2, <3>3
    <3> QED
      BY <2>1, <3>2, <3>4 DEF Passes
  <2>3. CASE Leaf(j) # FlowOf(Root)
    <3>1. RootCallback \notin RangeOf(list)
      <4>1. \A i \in DOMAIN list : list[i] \in Allowed(Leaf(j))
        BY <1>1, ListSingle
      <4>2. RootCallback \in Allowed(Leaf(j)) => Leaf(j) = FlowOf(Root)
        <5>1. CASE j \in Dependents
          BY <5>1, AllowedFacts, CallbackFacts
        <5>2. CASE j \notin Dependents
          BY <5>2, AllowedFacts, CallbackFacts DEF FlowOf
        <5> QED
          BY <5>1, <5>2
      <4> QED
        BY <2>3, <4>1, <4>2 DEF RangeOf
    <3>2. status'[FlowOf(Root)] = status[FlowOf(Root)] /\ callbacks'[FlowOf(Root)] = callbacks[FlowOf(Root)]
      BY <2>1, <2>3, Names DEF Only
    <3> QED
      BY <2>1, <3>1, <3>2, OtherCaller
  <2> QED
    BY <2>2, <2>3
<1> QED
  BY <1>2, <1>3, <1>4, TokensAre

(* The job of a leaf ends: it could not be loaded, threw, or has returned.  *)
LEMMA JobEnds ==
  ASSUME FlowInv, NEW t \in Threads, NEW op \in {"load", "running", "generated"}, NEW h, Takes1(t, h, op),
         NEW j \in Jobs, h.on = Leaf(j), NEW s \in Verdicts, op = "generated" => s = "SUCCEEDED",
         op # "generated" => s = "FAILED",
         status' = [status EXCEPT ![Leaf(j)] = s], NEW list, list = callbacks[Leaf(j)],
         Then(t, <<CallCallbacks(j, list)>>) \/ Then(t, <<>>),
         UNCHANGED <<callbacks, notified, rootTold, cancelling>>
  PROVE  FlowInv'
<1>1. /\ h \in Frames /\ h.op = op /\ stack[t] # <<>> /\ Says(h) /\ h = FrameAt(<<t, 1>>)
      /\ Leaf(j) \in Objects /\ <<t, 1>> \in Places
  BY Names DEF Takes1
<1>2. /\ status \in [Objects -> Status] /\ callbacks \in [Objects -> Seq(TheCallbacks)]
      /\ ShapeOf(Leaf(j)) /\ rootTold \in Seq(Verdicts) /\ cancelling \in BOOLEAN
      /\ OneToken(Worker(j))
  BY <1>1, TokensAre DEF FlowInv, Shapes
<1>3. PICK f \in Frames : f = CallCallbacks(j, list) /\ f.op = "callCallbacks" /\ f.on = Leaf(j) /\ f.arg = list
  <2>1. CallCallbacks(j, list) \in Frames
    BY <1>1, <1>2, FramesMade, ListSingle DEF ShapeOf
  <2> QED
    BY <2>1 DEF CallCallbacks, Frame
<1>4. PICK fs : fs \in {<<f>>, <<>>} /\ Then(t, fs)
  BY <1>3
<1>5. fs \in Seq(Frames) /\ DOMAIN fs \subseteq {1} /\ (1 \in DOMAIN fs => fs[1] = f)
  <2>1. CASE fs = <<f>>
    BY <2>1
  <2>2. CASE fs = <<>>
    BY <2>2
  <2> QED
    BY <1>4, <2>1, <2>2
<1>6. stack' \in [Threads -> Seq(Frames)] /\ \E old : Moves(t, t, fs, old)
  BY <1>1, <1>4, <1>5, ThenMoves
<1>7. PICK old : Moves(t, t, fs, old)
  BY <1>6
<1>8. Only(Leaf(j)) /\ status'[Leaf(j)] = s /\ ~NotRun(j)' /\ s # "RUNNING"
  BY <1>1, <1>2 DEF Only, Status, Verdicts, NotRun
<1>9. /\ op # "generated" => \/ status[Leaf(j)] = "RUNNING"
                             \/ status[Leaf(j)] = "FAILED" /\ callbacks[Leaf(j)] = <<>> /\ cancelling
      /\ op = "generated" => status[Leaf(j)] = "SUCCEEDED"
  BY <1>1 DEF Says, SaysOfLeaf
<1>10. Carries(h, Worker(j))
  BY <1>1, CarriesFacts
<1>11. Shapes'
  <2>1. ShapeOf(Leaf(j))'
    BY <1>2, <1>8, Names DEF ShapeOf, Verdicts
  <2> QED
    BY <2>1, <1>1, <1>2, <1>6, <1>8, OnlyShapes
<1>12. Effects(h)
  <2>1. LeafEffects(h, j)
    BY <1>8, <1>9, <1>10 DEF LeafEffects, EndStays, NotRun, Good
  <2>2. \A i \in Jobs : Leaf(j) = Leaf(i) => LeafEffects(h, i)
    BY <2>1, Names
  <2>3. \A i \in Dependents : Leaf(j) # Composed(i) /\ Leaf(j) # Group(i)
    BY Names, TokensAre
  <2> QED
    BY <2>2, <2>3, <1>1, <1>8, OnlyEffects
<1>13. \A i \in Jobs : ~Generates(fs, i)
  BY <1>3, <1>5 DEF Generates
<1>14. ~Pending(j)'
  <2>1. \A i \in DOMAIN fs : ~(fs[i].op = "generated" /\ fs[i].on = Leaf(j))
    BY <1>13 DEF Generates
  <2>2. status'[Leaf(j)] # "RUNNING"
    BY <1>8
  <2> QED
    BY <2>1, <2>2, <1>1, <1>2, <1>7, <1>10, PendingStep
<1>15. list # <<>> => Pending(j)
  BY <1>1, <1>9 DEF Pending
<1>16. \A k \in Tokens : Passes(k, h, fs)
  <2>1. \A i \in Jobs : ~Carries(f, Worker(i))
    BY <1>3, CarriesFacts
  <2>2. \A i \in Dependents : Carries(f, Flow(i)) => i = j /\ list # <<>>
    <3> SUFFICES ASSUME NEW i \in Dependents, Carries(f, Flow(i))
                 PROVE  i = j /\ list # <<>>
      OBVIOUS
    <3>1. PICK m \in DOMAIN list : list[m] \in {DependeeCallback(i), DependerCallback(i)}
      BY <1>3, CarriesFacts
    <3>2. list[m] \in Allowed(Leaf(j)) /\ list # <<>>
      BY <3>1, <1>1, <1>2, ListSingle DEF ShapeOf
    <3>3. j \in Dependents
      BY <3>1, <3>2, AllowedFacts, CallbackFacts DEF FlowOf
    <3> QED
      BY <3>1, <3>2, <3>3, AllowedFacts, CallbackFacts
  <2>3. Carries(f, Caller) => RootCallback \in RangeOf(list)
    BY <1>3, CarriesFacts DEF RangeOf
  <2>4. /\ \A i \in Jobs : \A m \in DOMAIN fs : ~Carries(fs[m], Worker(i))
        /\ \A i \in Dependents : \A m \in DOMAIN fs : Carries(fs[m], Flow(i)) => i = j /\ list # <<>>
        /\ \A m \in DOMAIN fs : Carries(fs[m], Caller) => RootCallback \in RangeOf(list)
        /\ \A k \in Tokens : \A m, n \in DOMAIN fs : Carries(fs[m], k) /\ Carries(fs[n], k) => m = n
    BY <2>1, <2>2, <2>3, <1>5
  <2>5. notified' = notified /\ rootTold' = rootTold /\ (NotRun(j)' => NotRun(j))
        /\ (callbacks'[Leaf(j)] # <<>> => ~Pending(j)')
    BY <1>8, <1>14
  <2> QED
    BY <2>4, <2>5, <1>1, <1>7, <1>8, <1>13, <1>15, GivesList
<1>17. \A m \in DOMAIN fs : Says(fs[m])'
  <2>1. Says(f)'
    BY <1>3, <1>8 DEF Says, SaysOfDependees, SaysOfTurn, SaysOfLeaf, SaysOfVerdict, SaysOfList, SaysOfCancel
  <2> QED
    BY <2>1, <1>5
<1> QED
  BY <1>1, <1>7, <1>11, <1>12, <1>16, <1>17, StepKeeps

(* A leaf whose job cannot be loaded.                                       *)
LEMMA JobMissingKeeps ==
  ASSUME FlowInv, NEW t \in Threads, JobMissing(t)
  PROVE  FlowInv'
<1>1. PICK h : Takes1(t, h, "load")
  BY TakesTop DEF JobMissing
<1>2. h \in Frames /\ h.op = "load" /\ h.on = On(t)
  BY <1>1 DEF Takes1
<1>3. PICK j \in Jobs : h.on = Leaf(j) /\ On(t)[2] = j
  BY <1>2, FrameFacts, Names DEF Leaves
<1>4. PICK list : list = callbacks[Leaf(j)]
  OBVIOUS
<1>5. /\ status' = [status EXCEPT ![Leaf(j)] = "FAILED"] /\ Then(t, <<CallCallbacks(j, list)>>)
      /\ UNCHANGED <<callbacks, notified, rootTold, cancelling>>
  BY <1>2, <1>3, <1>4 DEF JobMissing, SetStatus
<1> QED
  BY <1>1, <1>3, <1>4, <1>5, JobEnds DEF Verdicts

(* A job that throws.                                                       *)
LEMMA JobThrowsKeeps ==
  ASSUME FlowInv, NEW t \in Threads, JobThrows(t)
  PROVE  FlowInv'
<1>1. PICK h : Takes1(t, h, "running")
  BY TakesTop DEF JobThrows
<1>2. h \in Frames /\ h.op = "running" /\ h.on = On(t)
  BY <1>1 DEF Takes1
<1>3. PICK j \in Jobs : h.on = Leaf(j) /\ On(t)[2] = j
  BY <1>2, FrameFacts, Names DEF Leaves
<1>4. PICK list : list = callbacks[Leaf(j)]
  OBVIOUS
<1>5. /\ status' = [status EXCEPT ![Leaf(j)] = "FAILED"]
      /\ Then(t, <<CallCallbacks(j, list)>>) \/ Then(t, <<>>)
      /\ UNCHANGED <<callbacks, notified, rootTold, cancelling>>
  BY <1>2, <1>3, <1>4 DEF JobThrows, SetStatus
<1> QED
  BY <1>1, <1>3, <1>4, <1>5, JobEnds DEF Verdicts

(* A leaf that keeps what its job generated.                                *)
LEMMA SetReturnPropsKeeps ==
  ASSUME FlowInv, NEW t \in Threads, SetReturnProps(t)
  PROVE  FlowInv'
<1>1. PICK h : Takes1(t, h, "generated")
  BY TakesTop DEF SetReturnProps
<1>2. h \in Frames /\ h.op = "generated" /\ h.on = On(t) /\ Says(h)
  BY <1>1 DEF Takes1
<1>3. PICK j \in Jobs : h.on = Leaf(j) /\ On(t)[2] = j
  BY <1>2, FrameFacts, Names DEF Leaves
<1>4. PICK list : list = callbacks[Leaf(j)]
  OBVIOUS
<1>5. /\ Then(t, <<CallCallbacks(j, list)>>) \/ Then(t, <<>>)
      /\ UNCHANGED <<status, callbacks, notified, rootTold, cancelling>>
  BY <1>2, <1>3, <1>4 DEF SetReturnProps
<1>6. status' = [status EXCEPT ![Leaf(j)] = "SUCCEEDED"]
  BY <1>2, <1>3, <1>5, Names DEF Says, SaysOfLeaf, FlowInv, Shapes
<1> QED
  BY <1>1, <1>3, <1>4, <1>5, <1>6, JobEnds DEF Verdicts

(* A job that returns: its leaf is SUCCEEDED.                               *)
LEMMA JobReturnsKeeps ==
  ASSUME FlowInv, NEW t \in Threads, JobReturns(t)
  PROVE  FlowInv'
<1>1. PICK h : Takes1(t, h, "running")
  BY TakesTop DEF JobReturns
<1>2. /\ h \in Frames /\ h.op = "running" /\ h.on = On(t) /\ stack[t] # <<>> /\ Says(h)
      /\ h = FrameAt(<<t, 1>>) /\ <<t, 1>> \in Places
  BY <1>1 DEF Takes1
<1>3. PICK j \in Jobs : h.on = Leaf(j) /\ On(t)[2] = j
  BY <1>2, FrameFacts, Names DEF Leaves
<1>4. /\ status' = [status EXCEPT ![Leaf(j)] = "SUCCEEDED"] /\ Then(t, <<Generated(j)>>)
      /\ UNCHANGED <<callbacks, notified, rootTold, cancelling>>
  BY <1>2, <1>3 DEF JobReturns, SetStatus
<1>5. /\ status \in [Objects -> Status] /\ callbacks \in [Objects -> Seq(TheCallbacks)]
      /\ Leaf(j) \in Objects /\ ShapeOf(Leaf(j)) /\ rootTold \in Seq(Verdicts)
      /\ cancelling \in BOOLEAN /\ OneToken(Worker(j)) /\ \A k \in Tokens : OneToken(k)
  BY Names, TokensAre DEF FlowInv, Shapes
<1>6. PICK f \in Frames : f = Generated(j) /\ f.op = "generated" /\ f.on = Leaf(j)
  BY FramesMade DEF Generated, Frame
<1>7. <<f>> \in Seq(Frames) /\ DOMAIN <<f>> = {1} /\ <<f>>[1] = f
  OBVIOUS
<1>8. stack' \in [Threads -> Seq(Frames)] /\ \E old : Moves(t, t, <<f>>, old)
  BY <1>2, <1>4, <1>6, <1>7, ThenMoves
<1>9. PICK old : Moves(t, t, <<f>>, old)
  BY <1>8
<1>10. /\ Only(Leaf(j)) /\ status'[Leaf(j)] = "SUCCEEDED" /\ ~NotRun(j)'
  BY <1>4, <1>5 DEF Only, Status, NotRun
<1>11. \/ status[Leaf(j)] = "RUNNING"
       \/ status[Leaf(j)] = "FAILED" /\ callbacks[Leaf(j)] = <<>> /\ cancelling
  BY <1>2, <1>3 DEF Says, SaysOfLeaf
<1>12. Carries(h, Worker(j))
  BY <1>2, <1>3, CarriesFacts
<1>13. Shapes'
  <2>1. ShapeOf(Leaf(j))'
    BY <1>4, <1>5, <1>10, Names DEF ShapeOf
  <2> QED
    BY <2>1, <1>4, <1>5, <1>8, <1>10, OnlyShapes
<1>14. Effects(h)
  <2>1. LeafEffects(h, j)
    BY <1>4, <1>10, <1>11, <1>12 DEF LeafEffects, EndStays, NotRun, Good, Verdicts
  <2>2. \A i \in Jobs : Leaf(j) = Leaf(i) => LeafEffects(h, i)
    BY <2>1, Names
  <2>3. \A i \in Dependents : Leaf(j) # Composed(i) /\ Leaf(j) # Group(i)
    BY Names, TokensAre
  <2> QED
    BY <2>2, <2>3, <1>4, <1>5, <1>10, OnlyEffects
<1>15. callbacks[Leaf(j)] # <<>> => Pending(j)
  BY <1>11 DEF Pending
<1>16. ASSUME NEW i \in Jobs, Pending(i)', callbacks[Leaf(i)] # <<>>
       PROVE  Pending(i)
  <2>1. CASE i = j
    BY <2>1, <1>15, <1>16
  <2>2. CASE i # j
    <3>1. status'[Leaf(i)] = status[Leaf(i)] /\ ~Generates(<<f>>, i)
      BY <2>2, <1>6, <1>7, <1>10, Names DEF Only, Generates
    <3> QED
      BY <3>1, <1>9, <1>16, PendingStays
  <2> QED
    BY <2>1, <2>2
<1>17. \A k \in Tokens : Passes(k, h, <<f>>)
  <2>1. \A k \in Tokens : Carries(f, k) => Carries(h, k)
    BY <1>2, <1>3, <1>6, TokensAre, CarriesFacts
  <2>2. ASSUME NEW i \in Dependents PROVE Slots(Flow(i))' \subseteq Slots(Flow(i))
    <3>1. i \in Jobs /\ status'[Composed(i)] = status[Composed(i)]
      BY <1>10, Names, TokensAre DEF Only
    <3> QED
      BY <3>1, <1>4, <1>16, FlowSlots
  <2>3. ASSUME NEW i \in Jobs PROVE Slots(Worker(i))' \subseteq Slots(Worker(i))
    <3>1. NotRun(i)' => NotRun(i)
      BY <1>10, Names DEF Only, NotRun
    <3> QED
      BY <3>1, WorkerSlots
  <2>4. Slots(Caller)' \subseteq Slots(Caller)
    <3>1. Root \in Jobs /\ (Root \in Dependents => status'[Composed(Root)] = status[Composed(Root)])
      BY <1>10, Names, TokensAre DEF Only
    <3>2. Root \notin Dependents /\ RootCallback \in RangeOf(callbacks[FlowOf(Root)])
          => callbacks[Leaf(Root)] # <<>>
      BY DEF FlowOf, RangeOf
    <3> QED
      BY <3>1, <3>2, <1>4, <1>16, CallerSlots
  <2>5. \A k \in Tokens : Slots(k)' \subseteq Slots(k)
    BY <2>2, <2>3, <2>4, TokensAre
  <2> QED
    BY <2>1, <2>5, <1>2, <1>5, <1>7, HandsOn
<1>18. Says(f)'
  BY <1>6, <1>10 DEF Says, SaysOfDependees, SaysOfTurn, SaysOfLeaf, SaysOfVerdict, SaysOfList, SaysOfCancel
<1> QED
  BY <1>2, <1>7, <1>9, <1>13, <1>14, <1>17, <1>18, StepKeeps

(* cancel() of a leaf that has not ended.                                   *)
LEMMA CancelLeafKeeps ==
  ASSUME FlowInv, NEW t \in Threads, CancelLeaf(t)
  PROVE  FlowInv'
<1>1. PICK h : Takes1(t, h, "cancel")
  BY TakesTop DEF CancelLeaf
<1>2. /\ h \in Frames /\ h.op = "cancel" /\ h.on = On(t) /\ h.on \in Objects /\ stack[t] # <<>>
      /\ h = FrameAt(<<t, 1>>) /\ <<t, 1>> \in Places /\ h.on[1] = "leaf" /\ cancelling
  BY <1>1, FrameFacts DEF Takes1, CancelLeaf, Says, SaysOfCancel
<1>3. PICK j \in Jobs : h.on = Leaf(j)
  BY <1>2, ObjectFacts
<1>4. PICK list : list = callbacks[Leaf(j)]
  OBVIOUS
<1>5. /\ status[Leaf(j)] \in {"READY", "RUNNING"}
      /\ status' = [status EXCEPT ![Leaf(j)] = "FAILED"]
      /\ callbacks' = [callbacks EXCEPT ![Leaf(j)] = <<>>]
      /\ Then(t, CompletedAll(list, "FAILED"))
      /\ UNCHANGED <<notified, rootTold, cancelling>>
  BY <1>2, <1>3, <1>4 DEF CancelLeaf, SetStatus
<1>6. /\ status \in [Objects -> Status] /\ callbacks \in [Objects -> Seq(TheCallbacks)]
      /\ Leaf(j) \in Objects /\ ShapeOf(Leaf(j)) /\ rootTold \in Seq(Verdicts)
      /\ cancelling \in BOOLEAN /\ list \in Lists(Leaf(j)) /\ "FAILED" \in Verdicts
  BY <1>4, Names DEF FlowInv, Shapes, ShapeOf, Verdicts
<1>7. PICK fs : fs = CompletedAll(list, "FAILED")
  OBVIOUS
<1>8. /\ fs \in Seq(Frames) /\ DOMAIN fs = DOMAIN list
      /\ \A m \in DOMAIN fs : fs[m].op = "completed" /\ fs[m].on = list[m] /\ fs[m].arg = "FAILED"
      /\ \A k \in Tokens : \A m, n \in DOMAIN fs : Carries(fs[m], k) /\ Carries(fs[n], k) => m = n
      /\ \A i \in Dependents : \A m \in DOMAIN fs : Carries(fs[m], Flow(i)) =>
           list[m] \in {DependeeCallback(i), DependerCallback(i)}
      /\ \A i \in Jobs : \A m \in DOMAIN fs : ~Carries(fs[m], Worker(i))
      /\ \A m \in DOMAIN fs : Carries(fs[m], Caller) => list[m] = RootCallback
  BY <1>6, <1>7, TellsList
<1>9. stack' \in [Threads -> Seq(Frames)] /\ \E old : Moves(t, t, fs, old)
  BY <1>2, <1>5, <1>7, <1>8, ThenMoves
<1>10. PICK old : Moves(t, t, fs, old)
  BY <1>9
<1>11. Only(Leaf(j)) /\ status'[Leaf(j)] = "FAILED" /\ callbacks'[Leaf(j)] = <<>> /\ ~NotRun(j)'
  <2>1. <<>> \in Seq(TheCallbacks)
    OBVIOUS
  <2> QED
    BY <2>1, <1>5, <1>6 DEF Only, Status, NotRun
<1>12. Shapes'
  <2>1. <<>> \in Lists(Leaf(j))
    BY DEF Lists, Single
  <2>2. ShapeOf(Leaf(j))'
    BY <2>1, <1>6, <1>11, Names DEF ShapeOf
  <2> QED
    BY <2>2, <1>5, <1>6, <1>9, <1>11, OnlyShapes
<1>13. Effects(h)
  <2>1. LeafEffects(h, j)
    BY <1>2, <1>5, <1>11 DEF LeafEffects, EndStays, NotRun, Good, Verdicts
  <2>2. \A i \in Jobs : Leaf(j) = Leaf(i) => LeafEffects(h, i)
    BY <2>1, Names
  <2>3. \A i \in Dependents : Leaf(j) # Composed(i) /\ Leaf(j) # Group(i)
    BY Names, TokensAre
  <2> QED
    BY <2>2, <2>3, <1>5, <1>6, <1>11, OnlyEffects
<1>14. list # <<>> => Pending(j)
  BY <1>4, <1>5, <1>6 DEF ShapeOf, Pending
<1>15. \A m \in DOMAIN fs : /\ list[m] \in Allowed(Leaf(j)) /\ list # <<>>
                            /\ \A i \in Dependents : list[m] # DependeeCallback(i)
                            /\ \A i \in Dependents : list[m] = DependerCallback(i) => i = j
  <2>1. \A m \in DOMAIN fs : list[m] \in Allowed(Leaf(j)) /\ list # <<>>
    BY <1>6, <1>8, ListSingle
  <2>2. CASE j \in Dependents
    BY <2>1, <2>2, AllowedFacts, CallbackFacts
  <2>3. CASE j \notin Dependents
    BY <2>1, <2>3, AllowedFacts, CallbackFacts DEF FlowOf
  <2> QED
    BY <2>1, <2>2, <2>3
<1>16. \A k \in Tokens : Passes(k, h, fs)
  <2>1. \A i \in Jobs : ~Generates(fs, i)
    BY <1>8 DEF Generates
  <2>2. \A i \in Dependents : \A m \in DOMAIN fs : Carries(fs[m], Flow(i)) => i = j /\ list # <<>>
    BY <1>8, <1>15
  <2>3. \A m \in DOMAIN fs : Carries(fs[m], Caller) => RootCallback \in RangeOf(list)
    BY <1>8 DEF RangeOf
  <2>4. notified' = notified /\ rootTold' = rootTold /\ (NotRun(j)' => NotRun(j))
        /\ (callbacks'[Leaf(j)] # <<>> => ~Pending(j)')
    BY <1>5, <1>11
  <2> QED
    BY <2>1, <2>2, <2>3, <2>4, <1>2, <1>4, <1>8, <1>10, <1>11, <1>14, GivesList
<1>17. \A m \in DOMAIN fs : Says(fs[m])'
  <2> SUFFICES ASSUME NEW m \in DOMAIN fs
               PROVE  Says(fs[m])'
    OBVIOUS
  <2>1. /\ fs[m].op = "completed" /\ cancelling'
        /\ \A i \in Dependents : fs[m].on # DependeeCallback(i)
    BY <1>2, <1>5, <1>8, <1>15
  <2> QED
    BY <2>1 DEF Says, SaysOfDependees, SaysOfTurn, SaysOfLeaf, SaysOfVerdict, SaysOfList, SaysOfCancel
<1> QED
  BY <1>2, <1>10, <1>12, <1>13, <1>16, <1>17, StepKeeps

(* A composed flow ends with s, and tells its callbacks.                    *)
LEMMA ComposedEnds ==
  ASSUME FlowInv, NEW t \in Threads, NEW h, Takes1(t, h, "completed"),
         NEW j \in Dependents, h.on \in {DependeeCallback(j), DependerCallback(j)},
         NEW s \in Verdicts, NEW list, list = callbacks[Composed(j)],
         status' = [status EXCEPT ![Composed(j)] = s],
         Then(t, CompletedAll(list, s)),
         UNCHANGED <<callbacks, notified, rootTold, cancelling>>
  PROVE  FlowInv'
<1>1. /\ h \in Frames /\ h.op = "completed" /\ stack[t] # <<>> /\ h = FrameAt(<<t, 1>>)
      /\ Composed(j) \in Objects /\ j \in Jobs
  BY Names, TokensAre DEF Takes1
<1>2. /\ status \in [Objects -> Status] /\ callbacks \in [Objects -> Seq(TheCallbacks)]
      /\ ShapeOf(Composed(j)) /\ rootTold \in Seq(Verdicts) /\ cancelling \in BOOLEAN
      /\ list \in Lists(Composed(j))
  BY <1>1 DEF FlowInv, Shapes, ShapeOf
<1>3. Carries(h, Flow(j)) /\ Slots(Flow(j)) = {}
  BY <1>1, CarriesFacts, TakenToken, TokensAre
<1>4. status[Composed(j)] = "RUNNING"
  <2>1. "new" \notin Slots(Flow(j)) /\ "done" \notin Slots(Flow(j))
    BY <1>3
  <2>2. status[Composed(j)] # "READY" /\ status[Composed(j)] \notin Finished
    BY <2>1, FlowSlots
  <2>3. status[Composed(j)] \in Status /\ status[Composed(j)] # "IGNORED"
    BY <1>1, <1>2, Names DEF ShapeOf
  <2> QED
    BY <2>2, <2>3 DEF Status, Finished, Good
<1>5. Only(Composed(j)) /\ status'[Composed(j)] = s /\ s # "RUNNING"
  BY <1>1, <1>2 DEF Only, Status, Verdicts
<1>6. PICK fs : fs = CompletedAll(list, s)
  OBVIOUS
<1>7. /\ fs \in Seq(Frames) /\ DOMAIN fs = DOMAIN list
      /\ \A m \in DOMAIN fs : fs[m].op = "completed" /\ fs[m].on = list[m] /\ fs[m].arg = s
      /\ \A k \in Tokens : \A m, n \in DOMAIN fs : Carries(fs[m], k) /\ Carries(fs[n], k) => m = n
      /\ \A i \in Dependents : \A m \in DOMAIN fs : Carries(fs[m], Flow(i)) =>
           list[m] \in {DependeeCallback(i), DependerCallback(i)}
      /\ \A i \in Jobs : \A m \in DOMAIN fs : ~Carries(fs[m], Worker(i))
      /\ \A m \in DOMAIN fs : Carries(fs[m], Caller) => list[m] = RootCallback
  BY <1>1, <1>2, <1>6, TellsList
<1>8. \A m \in DOMAIN fs : /\ list[m] \in Asked(j)
                           /\ \A i \in Dependents : list[m] \notin {DependeeCallback(i), DependerCallback(i)}
                           /\ list[m] = RootCallback => j = Root
  <2>1. \A m \in DOMAIN fs : list[m] \in Asked(j)
    BY <1>1, <1>2, <1>7, ListSingle, AllowedFacts
  <2> QED
    BY <2>1, <1>1, AllowedFacts, CallbackFacts
<1>9. stack' \in [Threads -> Seq(Frames)] /\ \E old : Moves(t, t, fs, old)
  BY <1>1, <1>6, <1>7, ThenMoves
<1>10. PICK old : Moves(t, t, fs, old)
  BY <1>9
<1>11. Shapes'
  <2>1. ShapeOf(Composed(j))'
    BY <1>1, <1>2, <1>5, Names DEF ShapeOf, Verdicts
  <2> QED
    BY <2>1, <1>1, <1>2, <1>5, <1>9, OnlyShapes
<1>12. Effects(h)
  <2>1. ComposedEffects(j)
    BY <1>4, <1>5 DEF ComposedEffects, EndStays, Good, Verdicts
  <2>2. \A i \in Jobs : Composed(j) # Leaf(i)
    BY <1>1, Names
  <2>3. \A i \in Dependents : Composed(j) # Group(i) /\ (Composed(j) = Composed(i) => i = j)
    BY <1>1, Names, TokensAre
  <2>4. \A i \in Dependents : Composed(j) = Composed(i) => ComposedEffects(i)
    BY <2>1, <2>3
  <2> QED
    BY <2>2, <2>3, <2>4, <1>1, <1>5, OnlyEffects
<1>13. \A i \in Jobs : /\ status'[Leaf(i)] = status[Leaf(i)] /\ ~Generates(fs, i)
                       /\ Pending(i)' => Pending(i)
  <2>1. \A i \in Jobs : status'[Leaf(i)] = status[Leaf(i)] /\ ~Generates(fs, i)
    BY <1>1, <1>5, <1>7, Names DEF Only, Generates
  <2> QED
    BY <2>1, <1>10, PendingStays
<1>14. ASSUME NEW i \in Dependents PROVE Passes(Flow(i), h, fs)
  <2>1. /\ i \in Jobs /\ Flow(i) \in Tokens
        /\ \A m \in DOMAIN fs : ~Carries(fs[m], Flow(i))
    BY <1>7, <1>8, TokensAre
  <2>2. CASE i = j
    <3>1. \A x \in Slots(Flow(j))' : x = "done"
      <4>1. "group" \notin Slots(Flow(j)) /\ "leaf" \notin Slots(Flow(j))
        BY <1>3
      <4>2. "new" \notin Slots(Flow(j))' /\ "group" \notin Slots(Flow(j))' /\ "leaf" \notin Slots(Flow(j))'
        BY <4>1, <1>1, <1>5, <1>13, FlowSlots DEF Verdicts
      <4> QED
        BY <4>2, FlowSlots
    <3> QED
      BY <2>1, <2>2, <3>1, <1>3 DEF Passes
  <2>3. CASE i # j
    <3>1. status'[Composed(i)] = status[Composed(i)]
      BY <2>1, <2>3, <1>1, <1>5, Names DEF Only
    <3> QED
      BY <2>1, <3>1, <1>1, <1>10, <1>13, OtherFlow
  <2> QED
    BY <2>2, <2>3
<1>15. ASSUME NEW i \in Jobs PROVE Passes(Worker(i), h, fs)
  <2>1. NotRun(i)' => NotRun(i)
    BY <1>13 DEF NotRun
  <2> QED
    BY <2>1, <1>1, <1>7, <1>10, OtherWorker
<1>16. Passes(Caller, h, fs)
  <2>1. Root \in Jobs /\ Caller \in Tokens /\ OneToken(Caller)
    BY TokensAre DEF FlowInv
  <2>2. CASE j = Root
    <3>1. FlowOf(Root) = Composed(j) /\ Root \in Dependents
      BY <2>2 DEF FlowOf
    <3>2. Slots(Caller)' \subseteq Slots(Caller) \ {"flow"}
      BY <2>2, <3>1, <1>5, CallerSlots
    <3>3. ASSUME NEW m \in DOMAIN fs, Carries(fs[m], Caller)
          PROVE  Slots(Caller) = {"flow"}
      <4>1. RootCallback \in RangeOf(list)
        BY <3>3, <1>7 DEF RangeOf
      <4>2. "flow" \in Slots(Caller)
        BY <2>2, <3>1, <4>1, <1>4, CallerSlots
      <4> QED
        BY <4>2, <2>1 DEF OneToken
    <3>4. (\E m \in DOMAIN fs : Carries(fs[m], Caller)) => Slots(Caller)' = {} /\ Slots(Caller) # {}
      BY <3>2, <3>3
    <3> QED
      BY <2>1, <3>2, <3>4, <1>7 DEF Passes
  <2>3. CASE j # Root
    <3>1. status'[FlowOf(Root)] = status[FlowOf(Root)]
      BY <2>1, <2>3, <1>1, <1>5, Names DEF Only
    <3>2. \A m \in DOMAIN fs : ~Carries(fs[m], Caller)
      BY <2>3, <1>7, <1>8
    <3> QED
      BY <2>1, <3>1, <3>2, <1>1, <1>10, <1>13, OtherCaller
  <2> QED
    BY <2>2, <2>3
<1>17. \A k \in Tokens : Passes(k, h, fs)
  BY <1>14, <1>15, <1>16, TokensAre
<1>18. \A m \in DOMAIN fs : Says(fs[m])'
  <2> SUFFICES ASSUME NEW m \in DOMAIN fs
               PROVE  Says(fs[m])'
    OBVIOUS
  <2>1. /\ fs[m].op = "completed" /\ fs[m].arg = s
        /\ \A i \in Dependents : fs[m].on \notin {DependeeCallback(i), DependerCallback(i)}
    BY <1>7, <1>8
  <2>2. fs[m].on = RootCallback => Means(status'[FlowOf(Root)], s)
    <3>1. fs[m].on = RootCallback => FlowOf(Root) = Composed(j)
      BY <1>7, <1>8 DEF FlowOf
    <3>2. Means(s, s)
      BY DEF Means, Verdicts, Good
    <3> QED
      BY <3>1, <3>2, <1>5
  <2> QED
    BY <2>1, <2>2 DEF Says, SaysOfDependees, SaysOfTurn, SaysOfLeaf, SaysOfVerdict, SaysOfList, SaysOfCancel
<1> QED
  BY <1>1, <1>10, <1>11, <1>12, <1>17, <1>18, StepKeeps

(* A dependee has failed: the composed flow fails.                          *)
LEMMA DependeeFailedKeeps ==
  ASSUME FlowInv, NEW t \in Threads, DependeeFailed(t)
  PROVE  FlowInv'
<1>1. PICK h : Takes1(t, h, "completed")
  BY TakesTop DEF DependeeFailed
<1>2. h \in Frames /\ h.op = "completed" /\ h.on = On(t) /\ h.on[1] = "dependeeCallback"
  BY <1>1 DEF Takes1, DependeeFailed
<1>3. PICK j \in Dependents : h.on = DependeeCallback(j) /\ On(t)[2] = j
  BY <1>2, FrameFacts, CallbackFacts
<1>4. PICK list : list = callbacks[Composed(j)]
  OBVIOUS
<1>5. /\ status' = [status EXCEPT ![Composed(j)] = "FAILED"]
      /\ Then(t, CompletedAll(list, "FAILED"))
      /\ UNCHANGED <<callbacks, notified, rootTold, cancelling>>
  BY <1>3, <1>4 DEF DependeeFailed, SetStatus
<1> QED
  BY <1>1, <1>3, <1>4, <1>5, ComposedEnds DEF Verdicts

(* The depender has ended, and the composed flow with it.                   *)
LEMMA DependerCompletedKeeps ==
  ASSUME FlowInv, NEW t \in Threads, DependerCompleted(t)
  PROVE  FlowInv'
<1>1. PICK h : Takes1(t, h, "completed")
  BY TakesTop DEF DependerCompleted
<1>2. /\ h \in Frames /\ h.op = "completed" /\ h.on = On(t) /\ h.on[1] = "dependerCallback"
      /\ h.arg = Arg(t)
  BY <1>1 DEF Takes1, DependerCompleted
<1>3. PICK j \in Dependents : h.on = DependerCallback(j) /\ On(t)[2] = j
  BY <1>2, FrameFacts, CallbackFacts
<1>4. PICK list, s : list = callbacks[Composed(j)] /\ s = h.arg /\ s \in Verdicts
  BY <1>2, FrameFacts
<1>5. /\ status' = [status EXCEPT ![Composed(j)] = s]
      /\ Then(t, CompletedAll(list, s))
      /\ UNCHANGED <<callbacks, notified, rootTold, cancelling>>
  BY <1>2, <1>3, <1>4 DEF DependerCompleted, SetStatus
<1> QED
  BY <1>1, <1>3, <1>4, <1>5, ComposedEnds

(* The user's cancel() of the root.                                         *)
LEMMA CancelRootKeeps ==
  ASSUME FlowInv, CancelRoot
  PROVE  FlowInv'
<1>1. PICK f \in Frames : f = Cancel(FlowOf(Root)) /\ f.op = "cancel"
  <2>1. Cancel(FlowOf(Root)) \in Frames
    BY Names, TokensAre, FramesMade
  <2> QED
    BY <2>1 DEF Cancel, Frame
<1>2. /\ stack \in [Threads -> Seq(Frames)] /\ Canceller \in Threads
      /\ stack' = [stack EXCEPT ![Canceller] = <<f>>]
      /\ cancelling' = TRUE /\ UNCHANGED <<status, callbacks, notified, rootTold>>
  BY <1>1 DEF FlowInv, Shapes, CancelRoot, Threads
<1>3. stack' \in [Threads -> Seq(Frames)]
  <2>1. <<f>> \in Seq(Frames)
    OBVIOUS
  <2> QED
    BY <2>1, <1>2
<1>4. \A p \in Places' : \E g : g = FrameAt(p)' /\ (g = f \/ (p \in Places /\ g = FrameAt(p)))
  <2> TAKE p \in Places'
  <2>1. p = <<p[1], p[2]>> /\ p[1] \in Threads /\ p[2] \in DOMAIN stack'[p[1]] /\ FrameAt(p)' = stack'[p[1]][p[2]]
    BY DEF Places, FrameAt
  <2>2. CASE p[1] = Canceller
    <3>1. stack'[p[1]] = <<f>>
      BY <1>2, <2>2
    <3>2. DOMAIN <<f>> = {1} /\ <<f>>[1] = f
      OBVIOUS
    <3> QED
      BY <2>1, <3>1, <3>2
  <2>3. CASE p[1] # Canceller
    <3>1. stack'[p[1]] = stack[p[1]]
      BY <1>2, <2>1, <2>3
    <3> QED
      BY <2>1, <3>1, PlaceFacts
  <2> QED
    BY <2>2, <2>3
<1>5. Shapes'
  BY <1>2, <1>3 DEF FlowInv, Shapes, ShapeOf
<1>6. \A k \in Tokens : ~Carries(f, k)
  BY <1>1, TokensAre, CarriesFacts
<1>7. \A j \in Jobs : Pending(j)' => Pending(j)
  <2> SUFFICES ASSUME NEW j \in Jobs, Pending(j)', status[Leaf(j)] # "RUNNING"
               PROVE  Pending(j)
    BY DEF Pending
  <2>1. PICK p \in Places' : (FrameAt(p).op)' = "generated" /\ (FrameAt(p).on)' = Leaf(j)
    BY <1>2 DEF Pending, Leaf
  <2>2. p \in Places /\ FrameAt(p).op = "generated" /\ FrameAt(p).on = Leaf(j)
    BY <2>1, <1>1, <1>4
  <2> QED
    BY <2>2 DEF Pending
<1>8. \A k \in Tokens : Slots(k)' \subseteq Slots(k)
  <2>1. ASSUME NEW j \in Dependents PROVE Slots(Flow(j))' \subseteq Slots(Flow(j))
    BY <1>2, <1>7, FlowSlots, TokensAre
  <2>2. ASSUME NEW j \in Jobs PROVE Slots(Worker(j))' \subseteq Slots(Worker(j))
    BY <1>2, WorkerSlots DEF NotRun
  <2>3. Slots(Caller)' \subseteq Slots(Caller)
    BY <1>2, <1>7, CallerSlots, TokensAre
  <2> QED
    BY <2>1, <2>2, <2>3, TokensAre
<1>9. (\A k \in Tokens : OneToken(k))'
  <2> SUFFICES ASSUME NEW k \in Tokens
               PROVE  OneToken(k)'
    BY DEF Tokens, Flow, Worker, Caller
  <2>1. \A p \in Places' : Carries(FrameAt(p)', k) => p \in Places /\ Carries(FrameAt(p), k)
    BY <1>4, <1>6
  <2>2. OneToken(k)
    BY DEF FlowInv
  <2>3. \A p, q \in Places' : Carries(FrameAt(p)', k) /\ Carries(FrameAt(q)', k) => p = q
    BY <2>1, <2>2 DEF OneToken
  <2>4. \A s, r \in Slots(k)' : s = r
    BY <1>8, <2>2 DEF OneToken
  <2>5. Slots(k)' # {} => \A p \in Places' : ~Carries(FrameAt(p)', k)
    BY <1>8, <2>1, <2>2 DEF OneToken
  <2>6. /\ (\A p, q \in Places : Carries(FrameAt(p), k) /\ Carries(FrameAt(q), k) => p = q)' <=>
           \A p, q \in Places' : Carries(FrameAt(p)', k) /\ Carries(FrameAt(q)', k) => p = q
        /\ (\A p \in Places : ~Carries(FrameAt(p), k))' <=> \A p \in Places' : ~Carries(FrameAt(p)', k)
    BY DEF Carries
  <2> QED
    BY <2>3, <2>4, <2>5, <2>6 DEF OneToken
<1>10. ASSUME NEW g, Says(g) PROVE Says(g)'
  BY <1>2, <1>10 DEF Says, SaysOfDependees, SaysOfTurn, SaysOfLeaf, SaysOfVerdict, SaysOfList, SaysOfCancel,
     AllGood, SomeFailed, NotRun
<1>11. Says(f)'
  BY <1>1, <1>2 DEF Says, SaysOfDependees, SaysOfTurn, SaysOfLeaf, SaysOfVerdict, SaysOfList, SaysOfCancel
<1>12. \A p \in Places' : \E g : g = FrameAt(p)' /\ Says(g)'
  <2> TAKE p \in Places'
  <2>1. PICK g : g = FrameAt(p)' /\ (g = f \/ (p \in Places /\ g = FrameAt(p)))
    BY <1>4
  <2>2. Says(g)'
    BY <2>1, <1>10, <1>11 DEF FlowInv
  <2> QED
    BY <2>1, <2>2
<1>13. (\A p \in Places : Says(FrameAt(p)))'
  BY <1>12
<1>14. GroupsKnow' /\ TurnsCome'
  <2>1. GroupsKnow'
    BY <1>2 DEF FlowInv, GroupsKnow, AllGood, SomeFailed
  <2>2. TurnsCome'
    BY <1>2 DEF FlowInv, TurnsCome, NotRun, Holds, Flow
  <2> QED
    BY <2>1, <2>2
<1> QED
  BY <1>5, <1>9, <1>13, <1>14 DEF FlowInv

(* An execution starts with every token in its object.                      *)
LEMMA InitInv == Init => FlowInv
<1> SUFFICES ASSUME Init
             PROVE  FlowInv
  OBVIOUS
<1>1. PICK f \in Frames : /\ f = Execute(FlowOf(Root), RootCallback)
                          /\ f.op = "execute" /\ f.on = FlowOf(Root) /\ f.arg = RootCallback
  <2>1. FlowOf(Root) \in Objects /\ RootCallback \in Allowed(FlowOf(Root)) /\ RootCallback \in TheCallbacks
    BY Names, TokensAre, AllowedFacts, CallbackFacts DEF Asked
  <2>2. Execute(FlowOf(Root), RootCallback) \in Frames
    BY <2>1, FramesMade
  <2> QED
    BY <2>2 DEF Execute, Frame
<1>2. stack = [t \in Threads |-> IF t = Main THEN <<f>> ELSE <<>>] /\ Main \in Threads
  BY <1>1 DEF Init, Threads
<1>3. stack \in [Threads -> Seq(Frames)]
  <2>1. <<f>> \in Seq(Frames) /\ <<>> \in Seq(Frames)
    OBVIOUS
  <2> QED
    BY <2>1, <1>2
<1>4. \A p \in Places : p = <<Main, 1>> /\ FrameAt(p) = f
  <2> TAKE p \in Places
  <2>1. p = <<p[1], p[2]>> /\ p[1] \in Threads /\ p[2] \in DOMAIN stack[p[1]] /\ FrameAt(p) = stack[p[1]][p[2]]
    BY PlaceFacts DEF FrameAt
  <2>2. DOMAIN <<f>> = {1} /\ <<f>>[1] = f /\ DOMAIN <<>> = {}
    OBVIOUS
  <2> QED
    BY <2>1, <2>2, <1>2
<1>5. /\ \A o \in Objects : status[o] \in {"READY", "IGNORED", "COMPLETED"} /\ callbacks[o] = <<>>
      /\ \A o \in Objects : o[1] = "group" => status[o] = "READY"
      /\ \A o \in Objects : o[1] = "composed" => status[o] # "IGNORED"
      /\ \A j \in Dependents : NotRun(j)
      /\ status \in [Objects -> Status] /\ callbacks = [o \in Objects |-> <<>>]
  <2>1. PICK disabled \in SUBSET Jobs, skipped \in SUBSET Jobs : status = InitStatus(disabled, skipped)
    <3>1. RangeOf(Dependees[Root]) \in SUBSET Jobs
      BY FlowConstants DEF RangeOf
    <3> QED
      BY <3>1 DEF Init
  <2>2. \A o \in Objects : status[o] =
          IF o \in {FlowOf(d) : d \in skipped} THEN "COMPLETED"
          ELSE IF o \in {Leaf(j) : j \in disabled} THEN "IGNORED" ELSE "READY"
    BY <2>1 DEF InitStatus
  <2>3. \A o \in Objects : status[o] \in {"READY", "IGNORED", "COMPLETED"}
    BY <2>2
  <2>4. callbacks = [o \in Objects |-> <<>>]
    BY DEF Init
  <2>5. \A d \in Jobs : \A j \in Dependents : FlowOf(d) # Group(j) /\ FlowOf(d) # Leaf(j)
    BY Names, TokensAre
  <2>6. \A o \in Objects : o[1] = "group" => status[o] = "READY"
    <3> SUFFICES ASSUME NEW o \in Objects, o[1] = "group"
                 PROVE  status[o] = "READY"
      OBVIOUS
    <3>1. o[2] \in Dependents /\ o = Group(o[2])
      BY ObjectFacts
    <3>2. \A d \in Jobs : o # FlowOf(d) /\ o # Leaf(d)
      BY <3>1, <2>5, Names, TokensAre
    <3> QED
      BY <3>2, <2>2
  <2>7. \A o \in Objects : o[1] = "composed" => status[o] # "IGNORED"
    <3> SUFFICES ASSUME NEW o \in Objects, o[1] = "composed"
                 PROVE  status[o] # "IGNORED"
      OBVIOUS
    <3>1. \A d \in Jobs : o # Leaf(d)
      BY Names
    <3> QED
      BY <3>1, <2>2
  <2>8. \A j \in Dependents : NotRun(j)
    <3> TAKE j \in Dependents
    <3>1. Leaf(j) \in Objects /\ \A d \in Jobs : Leaf(j) # FlowOf(d)
      BY <2>5, Names, TokensAre
    <3>2. status[Leaf(j)] # "COMPLETED"
      BY <3>1, <2>2
    <3> QED
      BY <3>1, <3>2, <2>3 DEF NotRun
  <2>9. status \in [Objects -> Status]
    BY <2>1, <2>2, <2>3 DEF InitStatus, Status
  <2> QED
    BY <2>3, <2>4, <2>6, <2>7, <2>8, <2>9
<1>6. Shapes
  <2>1. <<>> \in Seq(TheCallbacks) /\ \A o \in Objects : <<>> \in Lists(o)
    BY DEF Lists, Single
  <2>2. \A o \in Objects : ShapeOf(o)
    BY <2>1, <1>5 DEF ShapeOf
  <2>3. callbacks \in [Objects -> Seq(TheCallbacks)]
    BY <2>1, <1>5
  <2>4. notified \in [Dependents -> {<<b>> : b \in BOOLEAN}]
    BY DEF Init
  <2>5. rootTold \in Seq(Verdicts) /\ cancelling \in BOOLEAN
    <3>1. rootTold = <<>> /\ cancelling = FALSE
      BY DEF Init
    <3>2. <<>> \in Seq(Verdicts)
      OBVIOUS
    <3> QED
      BY <3>1, <3>2
  <2> QED
    BY <2>2, <2>3, <2>4, <2>5, <1>3, <1>5 DEF Shapes
<1>7. \A j \in Dependents : status[Group(j)] = "READY" /\ callbacks[Group(j)] = <<>> /\ callbacks[Leaf(j)] = <<>>
  BY <1>5, Names, TokensAre
<1>8. \A k \in Tokens : OneToken(k)
  <2>1. ASSUME NEW j \in Dependents PROVE OneToken(Flow(j))
    <3>1. ~Carries(f, Flow(j))
      BY <1>1, CarriesFacts, CallbackFacts
    <3>2. \A s, r \in Slots(Flow(j)) : s = r
      BY <1>7, FlowSlots DEF Finished, Good
    <3> QED
      BY <3>1, <3>2, <1>4 DEF OneToken
  <2>2. ASSUME NEW j \in Jobs PROVE OneToken(Worker(j))
    <3>1. ~Carries(f, Worker(j))
      BY <1>1, CarriesFacts
    <3>2. \A s, r \in Slots(Worker(j)) : s = r
      BY WorkerSlots
    <3> QED
      BY <3>1, <3>2, <1>4 DEF OneToken
  <2>3. OneToken(Caller)
    <3>1. callbacks[FlowOf(Root)] = <<>> /\ rootTold = <<>>
      BY <1>5, Names, TokensAre DEF Init
    <3>2. RootCallback \notin RangeOf(callbacks[FlowOf(Root)])
      BY <3>1 DEF RangeOf
    <3>3. Slots(Caller) = {}
      BY <3>1, <3>2, CallerSlots
    <3> QED
      BY <3>3, <1>4 DEF OneToken
  <2> QED
    BY <2>1, <2>2, <2>3, TokensAre
<1>9. Says(f)
  <2>1. \A j \in Dependents : f.on # Leaf(j) /\ f.on # Group(j)
    BY <1>1, Names, TokensAre
  <2> QED
    BY <1>1, <2>1 DEF Says, SaysOfDependees, SaysOfTurn, SaysOfLeaf, SaysOfVerdict, SaysOfList, SaysOfCancel
<1>10. GroupsKnow
  <2>1. \A j \in Dependents : ~notified[j][1]
    BY DEF Init
  <2> QED
    BY <2>1, <1>7 DEF GroupsKnow
<1>11. TurnsCome
  BY <1>5 DEF TurnsCome
<1> QED
  BY <1>4, <1>6, <1>8, <1>9, <1>10, <1>11 DEF FlowInv

(* Every step of a thread keeps the invariant.                              *)
LEMMA StepKeepsInv ==
  ASSUME FlowInv, NEW t \in Threads, Step(t)
  PROVE  FlowInv'
<1>1. CASE ExecuteReady(t) \/ ExecuteRunning(t) \/ ExecuteFinished(t)
  BY <1>1, ExecuteReadyKeeps, ExecuteRunningKeeps, ExecuteFinishedKeeps
<1>2. CASE LeaveMonitor(t) \/ NextChild(t) \/ LoadJob(t)
  BY <1>2, LeaveMonitorKeeps, NextChildKeeps, LoadJobKeeps
<1>3. CASE JobMissing(t) \/ JobThrows(t) \/ JobReturns(t) \/ SetReturnProps(t) \/ StartCallbackThread(t)
  BY <1>3, JobMissingKeeps, JobThrowsKeeps, JobReturnsKeeps, SetReturnPropsKeeps, StartCallbackThreadKeeps
<1>4. CASE RootCompleted(t) \/ GroupCompleted(t) \/ GroupVerdict(t)
  BY <1>4, RootCompletedKeeps, GroupCompletedKeeps, GroupVerdictKeeps
<1>5. CASE DependeeSucceeded(t) \/ DependeeSaveFails(t) \/ DependeeFailed(t) \/ DependerCompleted(t)
  BY <1>5, DependeeSucceededKeeps, DependeeSaveFailsKeeps, DependeeFailedKeeps, DependerCompletedKeeps
<1>6. CASE CancelChildren(t) \/ CancelFinishedLeaf(t) \/ CancelLeaf(t)
  BY <1>6, CancelChildrenKeeps, CancelFinishedLeafKeeps, CancelLeafKeeps
<1> QED
  BY <1>1, <1>2, <1>3, <1>4, <1>5, <1>6 DEF Step

(* A stutter keeps it.                                                      *)
LEMMA StillInv ==
  ASSUME FlowInv, UNCHANGED vars
  PROVE  FlowInv'
<1>1. UNCHANGED <<status, callbacks, notified, stack, rootTold, cancelling>>
  BY DEF vars
<1>2. Shapes'
  BY <1>1 DEF FlowInv, Shapes, ShapeOf
<1>3. (\A k \in Tokens : OneToken(k))'
  <2> SUFFICES ASSUME NEW k \in Tokens
               PROVE  OneToken(k)'
    BY DEF Tokens, Flow, Worker, Caller
  <2>1. OneToken(k)
    BY DEF FlowInv
  <2> QED
    <3>1. Places' = Places /\ \A p : FrameAt(p)' = FrameAt(p)
      BY <1>1 DEF Places, FrameAt
    <3>2. Slots(k)' = Slots(k)
      <4>1. \A j : Pending(j)' <=> Pending(j)
        BY <1>1 DEF Pending, Places, FrameAt, Leaf
      <4> QED
        BY <1>1, <4>1 DEF Slots, Holds, FlowOf
    <3>3. /\ (\A p, q \in Places : Carries(FrameAt(p), k) /\ Carries(FrameAt(q), k) => p = q)' <=>
             \A p, q \in Places' : Carries(FrameAt(p)', k) /\ Carries(FrameAt(q)', k) => p = q
          /\ (\A p \in Places : ~Carries(FrameAt(p), k))' <=> \A p \in Places' : ~Carries(FrameAt(p)', k)
      BY DEF Carries
    <3> QED
      BY <2>1, <3>1, <3>2, <3>3 DEF OneToken
<1>4. (\A p \in Places : Says(FrameAt(p)))'
  BY <1>1 DEF FlowInv, Places, FrameAt, Says, SaysOfDependees, SaysOfTurn, SaysOfLeaf, SaysOfVerdict,
     SaysOfList, SaysOfCancel, AllGood, SomeFailed, NotRun
<1>5. GroupsKnow'
  BY <1>1 DEF FlowInv, GroupsKnow, AllGood, SomeFailed
<1>6. TurnsCome'
  BY <1>1 DEF FlowInv, TurnsCome, NotRun, Holds, Flow
<1> QED
  BY <1>2, <1>3, <1>4, <1>5, <1>6 DEF FlowInv

(* In every execution of execute(), the callbacks and cancel() of flows,    *)
(* what an object has promised to tell is at one place, what the frames     *)
(* know is true, a group that has ended knows its children, and a job's     *)
(* turn comes once: the invariant that the other theorems rest on.          *)
THEOREM InvAlways == Spec => []FlowInv
<1>1. FlowInv /\ [Next]_vars => FlowInv'
  BY StepKeepsInv, CancelRootKeeps, StillInv DEF Next, Quiesced
<1> QED
  BY <1>1, InitInv, PTL DEF Spec

(* The fields that the invariant does not speak of hold what they may.      *)
OthersTyped ==
  /\ props \in [Objects -> SUBSET Jobs]
  /\ monitor \in [Objects -> Threads \cup {NoThread}]
  /\ given \in [Jobs -> SUBSET Jobs]
  /\ began \in [Jobs -> Nat]

(* The invariant and the other fields are the type invariant.               *)
LEMMA InvTyped ==
  ASSUME FlowInv, OthersTyped
  PROVE  TypeOK
<1>1. TheCallbacks \subseteq Callbacks
  BY CallbackFacts DEF Callbacks, GroupCallback
<1>2. \A S : S \subseteq Callbacks => Seq(S) \subseteq Seq(Callbacks)
  OBVIOUS
<1>3. callbacks \in [Objects -> Seq(Callbacks)] /\ status \in [Objects -> Status] /\ cancelling \in BOOLEAN
  <2>1. Seq(TheCallbacks) \subseteq Seq(Callbacks)
    BY <1>1, <1>2
  <2> QED
    BY <2>1 DEF FlowInv, Shapes
<1>4. notified \in [Dependents -> Seq(BOOLEAN)]
  <2>1. \A b \in BOOLEAN : <<b>> \in Seq(BOOLEAN)
    OBVIOUS
  <2> QED
    BY <2>1 DEF FlowInv, Shapes
<1>5. \A f \in Frames : FrameOK(f)
  <2> TAKE f \in Frames
  <2>1. Groups \subseteq Objects /\ Leaves \subseteq Objects /\ Verdicts \subseteq Status
    BY Names, TokensAre DEF Groups, Leaves, Verdicts, Status
  <2>2. f.op \in {"execute", "children", "load", "running", "generated", "cancel", "release",
                  "callCallbacks", "verdict", "completed"}
    BY DEF Frames
  <2>3. Seq(TheCallbacks) \subseteq Seq(Callbacks)
    BY <1>1, <1>2
  <2>4. f.op \in {"execute", "children", "load", "running", "generated", "cancel", "release"} => FrameOK(f)
    BY <1>1, <2>1, FrameFacts DEF FrameOK
  <2>5. f.op = "completed" => FrameOK(f)
    BY <1>1, <2>1, FrameFacts DEF FrameOK
  <2>6. f.op = "verdict" => FrameOK(f)
    <3>1. f.op = "verdict" => f.on \in Callbacks /\ f.arg \in Seq(Callbacks)
      BY <1>1, <2>3, FrameFacts, CallbackFacts
    <3> QED
      BY <3>1 DEF FrameOK
  <2>7. f.op = "callCallbacks" => FrameOK(f)
    BY <2>1, <2>3, FrameFacts DEF FrameOK
  <2> QED
    BY <2>2, <2>4, <2>5, <2>6, <2>7
<1>6. \A t \in Threads : \A i \in DOMAIN stack[t] : stack[t][i] \in Frames
  BY DEF FlowInv, Shapes
<1>7. rootTold \in Seq(Status)
  BY DEF FlowInv, Shapes, Verdicts, Status
<1> QED
  BY <1>3, <1>4, <1>5, <1>6, <1>7 DEF TypeOK, OthersTyped

(* No step leaves what the other fields may hold.                           *)
LEMMA OthersStep ==
  ASSUME FlowInv, OthersTyped, NEW t \in Threads, Step(t)
  PROVE  OthersTyped'
<1>1. CASE ExecuteReady(t) \/ ExecuteRunning(t)
  BY <1>1 DEF ExecuteReady, ExecuteRunning, OthersTyped
<1>2. CASE ExecuteFinished(t)
  <2>1. monitor' = [monitor EXCEPT ![On(t)] = t] /\ UNCHANGED <<props, given, began>>
    BY <1>2 DEF ExecuteFinished
  <2> QED
    BY <2>1 DEF OthersTyped
<1>3. CASE LeaveMonitor(t)
  BY <1>3 DEF LeaveMonitor, OthersTyped
<1>4. CASE NextChild(t) \/ JobMissing(t)
  BY <1>4 DEF NextChild, JobMissing, OthersTyped
<1>5. CASE LoadJob(t)
  <2>1. PICK h : Takes1(t, h, "load")
    BY <1>5, TakesTop DEF LoadJob
  <2>2. h \in Frames /\ h.op = "load" /\ h.on = On(t)
    BY <2>1 DEF Takes1
  <2>3. PICK j \in Jobs : On(t)[2] = j
    BY <2>2, FrameFacts, Names DEF Leaves
  <2>4. began' = [began EXCEPT ![j] = began[j] + 1] /\ UNCHANGED <<props, given, monitor>>
    BY <1>5, <2>3 DEF LoadJob
  <2> QED
    BY <2>4 DEF OthersTyped
<1>6. CASE JobThrows(t)
  BY <1>6 DEF JobThrows, OthersTyped
<1>7. CASE JobReturns(t)
  BY <1>7 DEF JobReturns, OthersTyped
<1>8. CASE SetReturnProps(t)
  <2>1. PICK h : Takes1(t, h, "generated")
    BY <1>8, TakesTop DEF SetReturnProps
  <2>2. h \in Frames /\ h.op = "generated" /\ h.on = On(t)
    BY <2>1 DEF Takes1
  <2>3. PICK j \in Jobs : On(t) = Leaf(j) /\ On(t)[2] = j
    BY <2>2, FrameFacts, Names DEF Leaves
  <2> QED
    BY <1>8, <2>3 DEF SetReturnProps, OthersTyped
<1>9. CASE StartCallbackThread(t) \/ RootCompleted(t) \/ GroupVerdict(t)
  BY <1>9 DEF StartCallbackThread, RootCompleted, GroupVerdict, OthersTyped
<1>10. CASE GroupCompleted(t)
  <2>1. PICK h : Takes1(t, h, "completed")
    BY <1>10, TakesTop DEF GroupCompleted
  <2>2. h \in Frames /\ h.op = "completed" /\ h.on = On(t) /\ h.on[1] = "groupCallback"
    BY <1>10, <2>1 DEF Takes1, GroupCompleted
  <2>3. On(t)[2] \in Dependents
    BY <2>2, FrameFacts, CallbackFacts
  <2>4. PICK j \in Dependents : On(t)[2] = j
    BY <2>3
  <2>5. RangeOf(Dependees[j]) \subseteq Jobs
    BY <2>4, FlowConstants, TokensAre DEF RangeOf
  <2>6. \A d \in Jobs : ReturnProps(d) \in SUBSET Jobs
    BY Names DEF ReturnProps, OthersTyped
  <2>7. UNION {ReturnProps(d) : d \in RangeOf(Dependees[j])} \in SUBSET Jobs
    BY <2>5, <2>6
  <2>8. props' \in [Objects -> SUBSET Jobs]
    <3>1. UpdateState(j)
      BY <1>10, <2>4 DEF GroupCompleted
    <3> QED
      BY <2>7, <3>1 DEF UpdateState, OthersTyped
  <2> QED
    BY <1>10, <2>8 DEF GroupCompleted, OthersTyped
<1>11. CASE DependeeSucceeded(t)
  <2>1. PICK h : Takes1(t, h, "completed")
    BY <1>11, TakesTop DEF DependeeSucceeded
  <2>2. h \in Frames /\ h.op = "completed" /\ h.on = On(t) /\ h.on[1] = "dependeeCallback"
    BY <1>11, <2>1 DEF Takes1, DependeeSucceeded
  <2>3. PICK j \in Dependents : On(t)[2] = j
    BY <2>2, FrameFacts, CallbackFacts
  <2>4. Group(j) \in Objects
    BY Names, TokensAre
  <2> QED
    BY <1>11, <2>3, <2>4 DEF DependeeSucceeded, OthersTyped
<1>12. CASE DependeeSaveFails(t) \/ DependeeFailed(t) \/ DependerCompleted(t)
  BY <1>12 DEF DependeeSaveFails, DependeeFailed, DependerCompleted, OthersTyped
<1>13. CASE CancelChildren(t) \/ CancelFinishedLeaf(t)
  BY <1>13 DEF CancelChildren, CancelFinishedLeaf, OthersTyped
<1>14. CASE CancelLeaf(t)
  BY <1>14 DEF CancelLeaf, OthersTyped
<1> QED
  BY <1>1, <1>2, <1>3, <1>4, <1>5, <1>6, <1>7, <1>8, <1>9, <1>10, <1>11, <1>12, <1>13, <1>14 DEF Step

(* The fields that the invariant does not speak of stay in their sets.      *)
LEMMA OthersAlways == Spec => []OthersTyped
<1>1. Init => OthersTyped
  BY DEF Init, OthersTyped
<1>2. FlowInv /\ OthersTyped /\ [Next]_vars => OthersTyped'
  <2>1. ASSUME OthersTyped, UNCHANGED vars
        PROVE  OthersTyped'
    BY <2>1 DEF vars, OthersTyped
  <2>2. ASSUME OthersTyped, CancelRoot
        PROVE  OthersTyped'
    BY <2>2 DEF CancelRoot, OthersTyped
  <2> QED
    BY <2>1, <2>2, OthersStep DEF Next, Quiesced
<1> QED
  BY <1>1, <1>2, InvAlways, PTL DEF Spec

(* Every field of the flows and every frame of their threads holds what it  *)
(* may, whatever the graph.                                                 *)
THEOREM TypeCorrect == Spec => []TypeOK
<1>1. FlowInv /\ OthersTyped => TypeOK
  BY InvTyped
<1> QED
  BY <1>1, InvAlways, OthersAlways, PTL

(* A job begins only where its load frame is taken, and that frame knows    *)
(* that the dependees have ended well.                                      *)
THEOREM JobsRunAfterDependees == Spec => RunsAfterDependees
<1> DEFINE Ordered == \A j \in Jobs : began'[j] # began[j] =>
                        \A d \in RangeOf(Dependees[j]) : status[FlowOf(d)] \in Good
<1>1. ASSUME FlowInv, OthersTyped, NEW t \in Threads, Step(t)
      PROVE  Ordered
  <2>1. CASE LoadJob(t)
    <3>1. PICK h : Takes1(t, h, "load")
      BY <1>1, <2>1, TakesTop DEF LoadJob
    <3>2. h \in Frames /\ h.op = "load" /\ h.on = On(t) /\ Says(h)
      BY <3>1 DEF Takes1
    <3>3. PICK j \in Jobs : h.on = Leaf(j) /\ On(t)[2] = j
      BY <3>2, FrameFacts, Names DEF Leaves
    <3>4. \A i \in Jobs : began'[i] # began[i] => i = j
      BY <1>1, <2>1, <3>3 DEF LoadJob, OthersTyped
    <3>5. \A d \in RangeOf(Dependees[j]) : status[FlowOf(d)] \in Good
      <4>1. CASE j \in Dependents
        BY <3>2, <3>3, <4>1 DEF Says, SaysOfDependees, AllGood
      <4>2. CASE j \notin Dependents
        BY <4>2 DEF Dependents, RangeOf
      <4> QED
        BY <4>1, <4>2
    <3> QED
      BY <3>4, <3>5
  <2>2. CASE ~LoadJob(t)
    <3>1. began' = began
      BY <1>1, <2>2 DEF Step, ExecuteReady, ExecuteRunning, ExecuteFinished, LeaveMonitor, NextChild,
         JobMissing, JobThrows, JobReturns, SetReturnProps, StartCallbackThread, RootCompleted,
         GroupCompleted, GroupVerdict, DependeeSucceeded, DependeeSaveFails, DependeeFailed,
         DependerCompleted, CancelChildren, CancelFinishedLeaf, CancelLeaf
    <3> QED
      BY <3>1
  <2> QED
    BY <2>1, <2>2
<1>2. FlowInv /\ OthersTyped /\ [Next]_vars => [Ordered]_vars
  <2>1. CancelRoot => Ordered
    BY DEF CancelRoot
  <2> QED
    BY <1>1, <2>1 DEF Next, Quiesced
<1> QED
  BY <1>2, InvAlways, OthersAlways, PTL DEF Spec, RunsAfterDependees

(* What is found from a job is the job itself or found from a dependee.     *)
LEMMA BelowSplits ==
  ASSUME NEW j \in Jobs
  PROVE  /\ Below(j) \subseteq {j} \cup UNION {Below(d) : d \in RangeOf(Dependees[j])}
         /\ Below(j) \subseteq Under(FlowOf(j)) /\ Below(j) \subseteq Jobs
<1> DEFINE S == {j} \cup UNION {Below(d) : d \in RangeOf(Dependees[j])}
<1>1. \A x \in Jobs : RangeOf(Dependees[x]) \subseteq Jobs
  BY FlowConstants DEF RangeOf
<1>2. S \in SUBSET Jobs
  BY DEF Below
<1>3. \A d \in RangeOf(Dependees[j]) : d \in Below(d)
  BY <1>1 DEF Below
<1>4. \A d \in Jobs : \A x \in Below(d) : RangeOf(Dependees[x]) \subseteq Below(d)
  <2> SUFFICES ASSUME NEW d \in Jobs, NEW x \in Below(d), NEW y \in RangeOf(Dependees[x])
               PROVE  y \in Below(d)
    OBVIOUS
  <2>1. x \in Jobs /\ y \in Jobs
    BY <1>1 DEF Below
  <2>2. ASSUME NEW T \in SUBSET Jobs, d \in T, \A z \in T : RangeOf(Dependees[z]) \subseteq T
        PROVE  y \in T
    <3>1. x \in T
      BY <2>2 DEF Below
    <3> QED
      BY <2>2, <3>1
  <2> QED
    BY <2>1, <2>2 DEF Below
<1>5. \A x \in S : RangeOf(Dependees[x]) \subseteq S
  BY <1>1, <1>3, <1>4
<1>6. Below(j) \subseteq S
  <2> HIDE DEF S
  <2>1. j \in S
    BY DEF S
  <2> QED
    BY <1>2, <1>5, <2>1 DEF Below
<1>7. CASE j \in Dependents
  <2>1. Under(FlowOf(j)) = S
    BY <1>7 DEF Under, FlowOf, Composed
  <2> QED
    BY <1>6, <2>1 DEF Below
<1>8. CASE j \notin Dependents
  <2>1. RangeOf(Dependees[j]) = {}
    BY <1>8 DEF Dependents, RangeOf
  <2>2. j \in Under(FlowOf(j))
    BY <1>8 DEF Under, FlowOf, Leaf
  <2> QED
    BY <1>6, <2>1, <2>2 DEF Below
<1> QED
  BY <1>6, <1>7, <1>8

(* The cancel() of a group or of a composed flow reaches what is under it.  *)
LEMMA CancelFramesReach ==
  ASSUME NEW o \in Objects, o[1] # "leaf", NEW j \in Under(o)
  PROVE  \E m \in DOMAIN CancelFrames(o) :
           CancelFrames(o)[m].op = "cancel" /\ j \in Under(CancelFrames(o)[m].on)
<1>1. o[2] \in Jobs /\ o[2] \in Dependents /\ Dependees[o[2]] \in Seq(Jobs)
      /\ (o = Group(o[2]) \/ o = Composed(o[2]))
  BY ObjectFacts, FlowConstants
<1>2. PICK k \in Dependents : k = o[2] /\ k \in Jobs
  BY <1>1
<1>3. CASE o = Composed(k)
  <2>1. CancelFrames(o) = <<Cancel(Leaf(k)), Cancel(Group(k))>>
    BY <1>2, <1>3 DEF CancelFrames, Composed
  <2>2. j \in Under(Leaf(k)) \/ j \in Under(Group(k))
    BY <1>2, <1>3, Names DEF Under
  <2>3. /\ CancelFrames(o)[1].op = "cancel" /\ CancelFrames(o)[1].on = Leaf(k)
        /\ CancelFrames(o)[2].op = "cancel" /\ CancelFrames(o)[2].on = Group(k)
        /\ DOMAIN CancelFrames(o) = {1, 2}
    <3>1. DOMAIN CancelFrames(o) = {1, 2}
      BY <2>1
    <3> QED
      BY <2>1, <3>1 DEF Cancel, Frame
  <2> QED
    BY <2>2, <2>3
<1>4. CASE o = Group(k)
  <2>1. CancelFrames(o) = [i \in DOMAIN Dependees[k] |-> Cancel(FlowOf(Dependees[k][i]))]
    BY <1>2, <1>4, Names DEF CancelFrames
  <2>2. PICK d \in RangeOf(Dependees[k]) : j \in Below(d)
    BY <1>2, <1>4, Names DEF Under
  <2>3. PICK i \in DOMAIN Dependees[k] : Dependees[k][i] = d
    BY <2>2 DEF RangeOf
  <2>4. d \in Jobs
    BY <2>3, <1>1, <1>2
  <2>5. CancelFrames(o)[i].op = "cancel" /\ CancelFrames(o)[i].on = FlowOf(d) /\ i \in DOMAIN CancelFrames(o)
    BY <2>1, <2>3 DEF Cancel, Frame
  <2> QED
    BY <2>2, <2>4, <2>5, BelowSplits
<1> QED
  BY <1>1, <1>2, <1>3, <1>4

(* A leaf that has ended does not come back.                                *)
LEMMA LeavesEnd ==
  ASSUME FlowInv, NEW t \in Threads, Step(t), NEW j \in Jobs,
         status'[Leaf(j)] \in {"READY", "RUNNING"}
  PROVE  status[Leaf(j)] \in {"READY", "RUNNING"}
<1>1. status \in [Objects -> Status] /\ Leaf(j) \in Objects
  BY Names DEF FlowInv, Shapes
<1>2. CASE ExecuteReady(t)
  BY <1>1, <1>2 DEF ExecuteReady, SetStatus
<1>3. CASE ExecuteFinished(t)
  BY <1>1, <1>3 DEF ExecuteFinished, SetStatus
<1>4. CASE JobMissing(t) \/ JobThrows(t) \/ JobReturns(t) \/ CancelLeaf(t)
  BY <1>1, <1>4 DEF JobMissing, JobThrows, JobReturns, CancelLeaf, SetStatus
<1>5. CASE GroupCompleted(t)
  BY <1>1, <1>5 DEF GroupCompleted, UpdateState, SetStatus
<1>6. CASE DependeeFailed(t)
  BY <1>1, <1>6 DEF DependeeFailed, SetStatus
<1>7. CASE DependerCompleted(t)
  <2>1. PICK h : Takes1(t, h, "completed")
    BY <1>7, TakesTop DEF DependerCompleted
  <2>2. h \in Frames /\ h.op = "completed" /\ h.arg = Arg(t)
    BY <2>1 DEF Takes1
  <2>3. Arg(t) \in Verdicts
    BY <2>2, FrameFacts
  <2> QED
    BY <1>1, <1>7, <2>3 DEF DependerCompleted, SetStatus, Verdicts
<1>8. CASE ~(ExecuteReady(t) \/ ExecuteFinished(t) \/ JobMissing(t) \/ JobThrows(t) \/ JobReturns(t)
             \/ CancelLeaf(t) \/ GroupCompleted(t) \/ DependeeFailed(t) \/ DependerCompleted(t))
  BY <1>8 DEF Step, ExecuteRunning, LeaveMonitor, NextChild, LoadJob, SetReturnProps, StartCallbackThread,
     RootCompleted, GroupVerdict, DependeeSucceeded, DependeeSaveFails, CancelChildren, CancelFinishedLeaf
<1> QED
  BY <1>2, <1>3, <1>4, <1>5, <1>6, <1>7, <1>8

(* What is put on a stack is on it, and what is below the frame that is     *)
(* taken stays there.                                                       *)
LEMMA Pushed ==
  ASSUME NEW S, NEW old \in Seq(S), old # <<>>, NEW fs \in Seq(S), NEW m \in DOMAIN fs
  PROVE  m \in DOMAIN (fs \o Tail(old)) /\ (fs \o Tail(old))[m] = fs[m]
<1>1. /\ Tail(old) \in Seq(S) /\ Len(Tail(old)) \in Nat /\ Len(fs) \in Nat /\ DOMAIN fs = 1..Len(fs)
  OBVIOUS
<1>2. /\ fs \o Tail(old) \in Seq(S)
      /\ Len(fs \o Tail(old)) = Len(fs) + Len(Tail(old))
      /\ \A i \in 1..(Len(fs) + Len(Tail(old))) :
           (fs \o Tail(old))[i] = IF i <= Len(fs) THEN fs[i] ELSE Tail(old)[i - Len(fs)]
  BY <1>1, ConcatProperties
<1>3. DOMAIN (fs \o Tail(old)) = 1..(Len(fs) + Len(Tail(old)))
  BY <1>1, <1>2
<1> QED
  BY <1>1, <1>2, <1>3

(* A frame that was behind the first is still on the stack after the step.  *)
LEMMA KeptBelow ==
  ASSUME NEW S, NEW old \in Seq(S), old # <<>>, NEW fs \in Seq(S), NEW i \in DOMAIN old, i # 1
  PROVE  \E n \in DOMAIN (fs \o Tail(old)) : (fs \o Tail(old))[n] = old[i]
<1>1. /\ Tail(old) \in Seq(S) /\ Len(old) \in Nat /\ Len(Tail(old)) = Len(old) - 1 /\ Len(fs) \in Nat
      /\ \A k \in 1..(Len(old) - 1) : Tail(old)[k] = old[k + 1]
      /\ i \in 1..Len(old) /\ Len(old) # 0
  OBVIOUS
<1>2. /\ fs \o Tail(old) \in Seq(S)
      /\ Len(fs \o Tail(old)) = Len(fs) + Len(Tail(old))
      /\ \A k \in 1..(Len(fs) + Len(Tail(old))) :
           (fs \o Tail(old))[k] = IF k <= Len(fs) THEN fs[k] ELSE Tail(old)[k - Len(fs)]
  BY <1>1, ConcatProperties
<1>3. DOMAIN (fs \o Tail(old)) = 1..(Len(fs) + Len(old) - 1)
  BY <1>1, <1>2
<1>4. PICK n : n = Len(fs) + i - 1
  OBVIOUS
<1>5. n \in 1..(Len(fs) + Len(old) - 1) /\ ~(n <= Len(fs)) /\ n - Len(fs) = i - 1 /\ i - 1 \in 1..(Len(old) - 1)
      /\ n \in 1..(Len(fs) + Len(Tail(old))) /\ (i - 1) + 1 = i
  BY <1>1, <1>4
<1>6. (fs \o Tail(old))[n] = Tail(old)[n - Len(fs)]
  BY <1>5, <1>2
<1>7. Tail(old)[i - 1] = old[i]
  BY <1>5, <1>1
<1> QED
  BY <1>3, <1>5, <1>6, <1>7

(* A step leaves the canceller's stack alone, or puts frames in the place   *)
(* of its first one.                                                        *)
KeepsRest(t) ==
  \/ stack'[Canceller] = stack[Canceller]
  \/ t = Canceller /\ stack[t] # <<>> /\ \E S, fs : fs \in Seq(S) /\ stack'[t] = fs \o Tail(stack[t])

(* A step that takes its frame and puts others there keeps the rest.        *)
LEMMA ThenKeepsRest ==
  ASSUME FlowInv, NEW t \in Threads, NEW op, Doing(t, op), NEW S, NEW fs \in Seq(S), Then(t, fs)
  PROVE  KeepsRest(t)
<1>1. stack \in [Threads -> Seq(Frames)] /\ Canceller \in Threads /\ stack[t] # <<>>
  BY DEF FlowInv, Shapes, Threads, Doing
<1>2. stack'[t] = fs \o Tail(stack[t]) /\ (t # Canceller => stack'[Canceller] = stack[Canceller])
  BY <1>1 DEF Then
<1> QED
  BY <1>1, <1>2 DEF KeepsRest

(* A step of execute() or of a callback keeps the rest of the stack.        *)
LEMMA ShortKeepsRest ==
  ASSUME FlowInv, NEW t \in Threads, NEW op, Doing(t, op),
         Then(t, <<>>) \/ (\E x : Then(t, <<x>>)) \/ (\E x, y : Then(t, <<x, y>>))
  PROVE  KeepsRest(t)
<1>1. CASE Then(t, <<>>)
  <2>1. <<>> \in Seq({})
    OBVIOUS
  <2> QED
    BY <2>1, <1>1, ThenKeepsRest
<1>2. CASE \E x : Then(t, <<x>>)
  <2>1. PICK x : Then(t, <<x>>)
    BY <1>2
  <2>2. <<x>> \in Seq({x})
    OBVIOUS
  <2> QED
    BY <2>1, <2>2, ThenKeepsRest
<1>3. CASE \E x, y : Then(t, <<x, y>>)
  <2>1. PICK x, y : Then(t, <<x, y>>)
    BY <1>3
  <2>2. <<x, y>> \in Seq({x, y})
    OBVIOUS
  <2> QED
    BY <2>1, <2>2, ThenKeepsRest
<1> QED
  BY <1>1, <1>2, <1>3

(* So does one that tells a list of callbacks.                              *)
LEMMA TellKeepsRest ==
  ASSUME FlowInv, NEW t \in Threads, NEW op, Doing(t, op), NEW s, NEW T, NEW list \in Seq(T),
         Then(t, CompletedAll(list, s))
  PROVE  KeepsRest(t)
<1>1. CompletedAll(list, s) \in Seq({Completed(list[i], s) : i \in DOMAIN list})
  BY DEF CompletedAll
<1> QED
  BY <1>1, ThenKeepsRest

(* So does one that starts a thread.                                        *)
LEMMA StartKeepsRest ==
  ASSUME FlowInv, NEW t \in Threads, NEW op, Doing(t, op), NEW u \in Threads, u # Canceller,
         NEW fs, ThenStart(t, <<>>, u, fs)
  PROVE  KeepsRest(t)
<1>1. /\ stack \in [Threads -> Seq(Frames)] /\ Canceller \in Threads /\ stack[t] # <<>>
      /\ stack[u] = <<>> /\ stack' = [stack EXCEPT ![t] = <<>> \o Tail(stack[t]), ![u] = fs]
  BY DEF FlowInv, Shapes, Threads, ThenStart, Doing
<1>2. u # t /\ <<>> \in Seq({})
  BY <1>1
<1>3. stack'[t] = <<>> \o Tail(stack[t]) /\ (t # Canceller => stack'[Canceller] = stack[Canceller])
  BY <1>1, <1>2
<1> QED
  BY <1>1, <1>2, <1>3 DEF KeepsRest

(* So does every step.                                                      *)
LEMMA StepKeepsRest ==
  ASSUME FlowInv, NEW t \in Threads, Step(t)
  PROVE  KeepsRest(t)
<1>1. callbacks \in [Objects -> Seq(TheCallbacks)]
  BY DEF FlowInv, Shapes
<1>2. CASE ExecuteReady(t)
  <2>1. PICK h : Takes1(t, h, "execute")
    BY <1>2, TakesTop DEF ExecuteReady
  <2>2. On(t)[1] \in {"leaf", "group", "composed"}
    BY <2>1, FrameFacts, ObjectFacts DEF Takes1
  <2>3. \E x : Body(On(t)) = <<x>>
    BY <2>2 DEF Body
  <2> QED
    BY <1>2, <2>3, ShortKeepsRest DEF ExecuteReady
<1>3. CASE ExecuteRunning(t) \/ LeaveMonitor(t) \/ RootCompleted(t) \/ DependeeSaveFails(t)
           \/ CancelFinishedLeaf(t)
  BY <1>3, ShortKeepsRest DEF ExecuteRunning, LeaveMonitor, RootCompleted, DependeeSaveFails,
     CancelFinishedLeaf
<1>4. CASE ExecuteFinished(t)
  <2>1. Doing(t, "execute") /\ ((\E x : Then(t, <<x>>)) \/ (\E x, y : Then(t, <<x, y>>)))
    BY <1>4 DEF ExecuteFinished
  <2> QED
    BY <2>1, ShortKeepsRest
<1>5. CASE NextChild(t)
  <2>1. Doing(t, "children")
        /\ (Then(t, <<>>) \/ (\E x : Then(t, <<x>>)) \/ (\E x, y : Then(t, <<x, y>>)))
    BY <1>5 DEF NextChild
  <2> QED
    BY <2>1, ShortKeepsRest
<1>6. CASE JobMissing(t) \/ JobThrows(t) \/ JobReturns(t) \/ SetReturnProps(t)
  <2>1. (\E op : Doing(t, op)) /\ (Then(t, <<>>) \/ \E x : Then(t, <<x>>))
    BY <1>6 DEF JobMissing, JobThrows, JobReturns, SetReturnProps
  <2> QED
    BY <2>1, ShortKeepsRest
<1>7. CASE GroupCompleted(t) \/ DependeeSucceeded(t)
  <2>1. Doing(t, "completed") /\ \E x : Then(t, <<x>>)
    BY <1>7 DEF GroupCompleted, DependeeSucceeded
  <2> QED
    BY <2>1, ShortKeepsRest
<1>8. CASE LoadJob(t)
  <2>1. PICK h : Takes1(t, h, "load")
    BY <1>8, TakesTop DEF LoadJob
  <2>2. PICK j \in Jobs : On(t)[2] = j
    BY <2>1, FrameFacts, Names DEF Takes1, Leaves
  <2>3. JobThread(j) \in Threads /\ JobThread(j) # Canceller
    BY DEF Threads, JobThread, Canceller
  <2> QED
    BY <1>8, <2>2, <2>3, StartKeepsRest DEF LoadJob
<1>9. CASE StartCallbackThread(t)
  <2>1. PICK h : Takes1(t, h, "callCallbacks")
    BY <1>9, TakesTop DEF StartCallbackThread
  <2>2. PICK j \in Jobs : On(t)[2] = j
    BY <2>1, FrameFacts, Names DEF Takes1, Leaves
  <2>3. CallbackThread(j) \in Threads /\ CallbackThread(j) # Canceller
    BY DEF Threads, CallbackThread, Canceller
  <2> QED
    BY <1>9, <2>2, <2>3, StartKeepsRest DEF StartCallbackThread
<1>10. CASE GroupVerdict(t)
  <2>1. PICK h : Takes1(t, h, "verdict")
    BY <1>10, TakesTop DEF GroupVerdict
  <2>2. Arg(t) \in Seq(TheCallbacks)
    BY <2>1, FrameFacts DEF Takes1
  <2>3. Doing(t, "verdict") /\ (Then(t, <<>>) \/ \E s : Then(t, CompletedAll(Arg(t), s)))
    BY <1>10 DEF GroupVerdict
  <2> QED
    BY <2>2, <2>3, ShortKeepsRest, TellKeepsRest
<1>11. CASE DependeeFailed(t) \/ DependerCompleted(t)
  <2>1. PICK h : Takes1(t, h, "completed")
    BY <1>11, TakesTop DEF DependeeFailed, DependerCompleted
  <2>2. On(t)[2] \in Dependents
    BY <1>11, <2>1, FrameFacts, CallbackFacts DEF Takes1, DependeeFailed, DependerCompleted
  <2>3. callbacks[Composed(On(t)[2])] \in Seq(TheCallbacks)
    BY <1>1, <2>2, Names, TokensAre
  <2>4. Doing(t, "completed") /\ \E s : Then(t, CompletedAll(callbacks[Composed(On(t)[2])], s))
    BY <1>11 DEF DependeeFailed, DependerCompleted
  <2> QED
    BY <2>3, <2>4, TellKeepsRest
<1>12. CASE CancelChildren(t) \/ CancelLeaf(t)
  <2>1. PICK h : Takes1(t, h, "cancel")
    BY <1>12, TakesTop DEF CancelChildren, CancelLeaf
  <2>2. On(t) \in Objects
    BY <2>1, FrameFacts DEF Takes1
  <2>3. CASE CancelChildren(t)
    <3>1. Doing(t, "cancel") /\ Then(t, CancelFrames(On(t))) /\ On(t)[1] # "leaf"
      BY <2>3 DEF CancelChildren, CancelFrames
    <3> QED
      BY <2>2, <3>1, CancelFramesFacts, ThenKeepsRest
  <2>4. CASE CancelLeaf(t)
    <3>1. Doing(t, "cancel") /\ Then(t, CompletedAll(callbacks[On(t)], "FAILED"))
      BY <2>4 DEF CancelLeaf
    <3> QED
      BY <1>1, <2>2, <3>1, TellKeepsRest
  <2> QED
    BY <1>12, <2>3, <2>4
<1> QED
  BY <1>2, <1>3, <1>4, <1>5, <1>6, <1>7, <1>8, <1>9, <1>10, <1>11, <1>12 DEF Step

(* A sequence over a set is one over a larger set.                          *)
LEMMA SeqGrows ==
  ASSUME NEW S, NEW T, NEW s \in Seq(S), S \subseteq T
  PROVE  s \in Seq(T)
OBVIOUS

(* A step keeps the jobs that are not yet cancelled below a frame that      *)
(* cancels.                                                                 *)
LEMMA CancelStep ==
  ASSUME FlowInv, CancelComes, NEW t \in Threads, Step(t)
  PROVE  CancelComes'
<1> SUFFICES ASSUME cancelling', NEW j \in Jobs, status'[Leaf(j)] \in {"READY", "RUNNING"}
             PROVE  \E n \in DOMAIN stack'[Canceller] :
                      stack'[Canceller][n].op = "cancel" /\ j \in Under(stack'[Canceller][n].on)
  BY DEF CancelComes, Leaf, Under
<1>1. cancelling
  BY DEF Step, ExecuteReady, ExecuteRunning, ExecuteFinished, LeaveMonitor, NextChild, LoadJob,
     JobMissing, JobThrows, JobReturns, SetReturnProps, StartCallbackThread, RootCompleted,
     GroupCompleted, GroupVerdict, DependeeSucceeded, DependeeSaveFails, DependeeFailed,
     DependerCompleted, CancelChildren, CancelFinishedLeaf, CancelLeaf
<1>2. status[Leaf(j)] \in {"READY", "RUNNING"}
  BY LeavesEnd
<1>3. PICK i \in DOMAIN stack[Canceller] :
        stack[Canceller][i].op = "cancel" /\ j \in Under(stack[Canceller][i].on)
  BY <1>1, <1>2 DEF CancelComes
<1>4. CASE stack'[Canceller] = stack[Canceller]
  BY <1>3, <1>4
<1>5. ASSUME t = Canceller, stack[t] # <<>>, NEW S, NEW fs \in Seq(S), stack'[t] = fs \o Tail(stack[t])
      PROVE  \E n \in DOMAIN stack'[Canceller] :
               stack'[Canceller][n].op = "cancel" /\ j \in Under(stack'[Canceller][n].on)
  <2>1. PICK T : T = Frames \cup S
    OBVIOUS
  <2>2. stack[t] \in Seq(T) /\ fs \in Seq(T)
    BY <2>1, SeqGrows DEF FlowInv, Shapes
  <2>3. CASE i # 1
    <3>1. \E n \in DOMAIN (fs \o Tail(stack[t])) : (fs \o Tail(stack[t]))[n] = stack[t][i]
      <4>1. PICK s : s = stack[t]
        OBVIOUS
      <4>2. s \in Seq(T) /\ s # <<>> /\ i \in DOMAIN s /\ i # 1
        BY <1>3, <1>5, <2>2, <2>3, <4>1
      <4>3. \E n \in DOMAIN (fs \o Tail(s)) : (fs \o Tail(s))[n] = s[i]
        BY <2>2, <4>2, KeptBelow
      <4> QED
        BY <4>1, <4>3
    <3> QED
      BY <3>1, <1>3, <1>5
  <2>4. CASE i = 1
    <3>1. PICK h : Takes1(t, h, "cancel") /\ h.on = stack[t][1].on
      <4>1. Doing(t, "cancel")
        BY <1>3, <1>5, <2>4, TopFacts DEF FrameAt
      <4>2. PICK h : Takes1(t, h, "cancel")
        BY <4>1, TakesTop
      <4> QED
        BY <4>2 DEF Takes1, FrameAt
    <3>2. h \in Frames /\ h.op = "cancel" /\ h.on = On(t) /\ h.on \in Objects /\ j \in Under(h.on)
          /\ \A op : Doing(t, op) => op = "cancel"
      BY <3>1, <1>3, <1>5, <2>4, FrameFacts DEF Takes1, Doing
    <3>3. CancelChildren(t) \/ CancelFinishedLeaf(t) \/ CancelLeaf(t)
      BY <3>2 DEF Step, ExecuteReady, ExecuteRunning, ExecuteFinished, LeaveMonitor, NextChild, LoadJob,
         JobMissing, JobThrows, JobReturns, SetReturnProps, StartCallbackThread, RootCompleted,
         GroupCompleted, GroupVerdict, DependeeSucceeded, DependeeSaveFails, DependeeFailed,
         DependerCompleted
    <3>4. CASE CancelFinishedLeaf(t) \/ CancelLeaf(t)
      <4>1. h.on[1] = "leaf"
        BY <3>2, <3>4 DEF CancelFinishedLeaf, CancelLeaf
      <4>2. h.on = Leaf(j)
        BY <3>2, <4>1, ObjectFacts DEF Under
      <4>3. status \in [Objects -> Status] /\ Leaf(j) \in Objects
        BY Names DEF FlowInv, Shapes
      <4> QED
        BY <1>2, <3>2, <3>4, <4>2, <4>3 DEF CancelFinishedLeaf, CancelLeaf, SetStatus, Finished, Good
    <3>5. CASE CancelChildren(t)
      <4>1. Then(t, CancelFrames(h.on)) /\ h.on[1] # "leaf"
        BY <3>2, <3>5 DEF CancelChildren, CancelFrames
      <4>2. CancelFrames(h.on) \in Seq(Frames)
        BY <3>2, <4>1, CancelFramesFacts
      <4>3. stack'[t] = CancelFrames(h.on) \o Tail(stack[t]) /\ stack[t] \in Seq(Frames)
        BY <4>1 DEF Then, FlowInv, Shapes
      <4>4. PICK m \in DOMAIN CancelFrames(h.on) :
              CancelFrames(h.on)[m].op = "cancel" /\ j \in Under(CancelFrames(h.on)[m].on)
        BY <3>2, <4>1, CancelFramesReach
      <4>5. m \in DOMAIN stack'[t] /\ stack'[t][m] = CancelFrames(h.on)[m]
        <5>1. PICK s, cs : s = stack[t] /\ cs = CancelFrames(h.on)
          OBVIOUS
        <5>2. s \in Seq(Frames) /\ s # <<>> /\ cs \in Seq(Frames) /\ m \in DOMAIN cs
          BY <4>2, <4>3, <4>4, <5>1, <1>5
        <5>3. m \in DOMAIN (cs \o Tail(s)) /\ (cs \o Tail(s))[m] = cs[m]
          BY <5>2, Pushed
        <5> QED
          BY <5>1, <5>3, <4>3
      <4> QED
        BY <4>4, <4>5, <1>5
    <3> QED
      BY <3>3, <3>4, <3>5
  <2> QED
    BY <2>3, <2>4
<1> QED
  BY <1>4, <1>5, StepKeepsRest DEF KeepsRest

(* As long as a job may still run after a cancel(), a frame will come to    *)
(* it.                                                                      *)
LEMMA CancelAlways == Spec => []CancelComes
<1>1. Init => CancelComes
  BY DEF Init, CancelComes
<1>2. ASSUME FlowInv, CancelRoot
      PROVE  CancelComes'
  <2>1. stack \in [Threads -> Seq(Frames)] /\ Canceller \in Threads
    BY <1>2 DEF FlowInv, Shapes, Threads
  <2>2. stack'[Canceller] = <<Cancel(FlowOf(Root))>>
    BY <1>2, <2>1 DEF CancelRoot
  <2>3. PICK f : f = Cancel(FlowOf(Root)) /\ f.op = "cancel" /\ f.on = FlowOf(Root)
    <3>1. PICK f : f = Cancel(FlowOf(Root))
      OBVIOUS
    <3>2. f.op = "cancel" /\ f.on = FlowOf(Root)
      BY <3>1 DEF Cancel, Frame
    <3> QED
      BY <3>1, <3>2
  <2>4. DOMAIN <<f>> = {1} /\ <<f>>[1] = f
    OBVIOUS
  <2>5. \A j \in Jobs : j \in Under(f.on)
    BY <2>3, FoundFromRoot, BelowSplits, TokensAre
  <2>6. \A j \in Jobs : \E n \in DOMAIN stack'[Canceller] :
          stack'[Canceller][n].op = "cancel" /\ j \in Under(stack'[Canceller][n].on)
    BY <2>2, <2>3, <2>4, <2>5
  <2> QED
    BY <2>6 DEF CancelComes, Leaf, Under
<1>3. CancelComes /\ UNCHANGED vars => CancelComes'
  BY DEF CancelComes, vars, Leaf, Under
<1>4. FlowInv /\ CancelComes /\ [Next]_vars => CancelComes'
  BY <1>2, <1>3, CancelStep DEF Next, Quiesced
<1> QED
  BY <1>1, <1>4, InvAlways, PTL DEF Spec

(* When a cancel() of the root has returned no job is left that is READY or *)
(* runs on: it has come to every job of the flow, however the calls of the  *)
(* other threads fell.                                                      *)
THEOREM CancelReachesEveryJob == Spec => []CancelReachesAll
<1>1. CancelComes => CancelReachesAll
  <2>1. DOMAIN <<>> = {}
    OBVIOUS
  <2> QED
    BY <2>1 DEF CancelComes, CancelReachesAll
<1> QED
  BY <1>1, CancelAlways, PTL

(* How far the jobs are: what FlowOrder sees of the objects.                *)
LEMMA Phases ==
  /\ PhaseOf("READY") = "waiting" /\ PhaseOf("IGNORED") = "waiting"
  /\ PhaseOf("RUNNING") = "running"
  /\ PhaseOf("SUCCEEDED") = "ok" /\ PhaseOf("COMPLETED") = "ok" /\ PhaseOf("FAILED") = "failed"
BY DEF PhaseOf, Good

(* A job's phase is its leaf's and its flow's.                              *)
LEMMA PhaseOfFlow ==
  ASSUME NEW j \in Jobs
  PROVE  /\ status[FlowOf(j)] \in Good => PhaseOfJob(j) = "ok"
         /\ status[FlowOf(j)] = "FAILED" => PhaseOfJob(j) = "failed"
BY Phases DEF PhaseOfJob, Finished, Good

(* Steps that keep the states keep the phases.                              *)
LEMMA SamePhases ==
  ASSUME \A i \in Jobs : PhaseOfJob(i)' = PhaseOfJob(i), rootTold' = rootTold
  PROVE  UNCHANGED Promise!vars
BY DEF Promise!vars

(* A change of one job's phase, as FlowOrder writes it.                     *)
LEMMA OnePhase ==
  ASSUME NEW j \in Jobs, NEW p, PhaseOfJob(j)' = p,
         \A i \in Jobs \ {j} : PhaseOfJob(i)' = PhaseOfJob(i), rootTold' = rootTold
  PROVE  /\ [i \in Jobs |-> PhaseOfJob(i)]' = [[i \in Jobs |-> PhaseOfJob(i)] EXCEPT ![j] = p]
         /\ UNCHANGED (IF rootTold = <<>> THEN "none" ELSE rootTold[Len(rootTold)])
OBVIOUS

(* A step that keeps the states is a stutter of FlowOrder.                  *)
LEMMA SameStatus ==
  ASSUME status' = status, rootTold' = rootTold
  PROVE  UNCHANGED Promise!vars
<1>1. \A i \in Jobs : PhaseOfJob(i)' = PhaseOfJob(i)
  BY DEF PhaseOfJob, PhaseOf, FlowOf, Leaf, Composed
<1> QED
  BY <1>1, SamePhases

(* The phases that a step of one object leaves alone.                       *)
LEMMA OtherPhases ==
  ASSUME NEW o \in Objects, \A x \in Objects \ {o} : status'[x] = status[x]
  PROVE  /\ \A i \in Jobs \ {o[2]} : PhaseOfJob(i)' = PhaseOfJob(i)
         /\ o[1] = "group" => \A i \in Jobs : PhaseOfJob(i)' = PhaseOfJob(i)
<1>1. ASSUME NEW i \in Jobs, status'[Leaf(i)] = status[Leaf(i)], status'[FlowOf(i)] = status[FlowOf(i)]
      PROVE  PhaseOfJob(i)' = PhaseOfJob(i)
  <2>1. FlowOf(i)' = FlowOf(i) /\ Leaf(i)' = Leaf(i)
    BY DEF FlowOf, Leaf, Composed, Dependents
  <2> QED
    BY <1>1, <2>1 DEF PhaseOfJob, PhaseOf
<1>2. \A i \in Jobs \ {o[2]} : Leaf(i) \in Objects \ {o} /\ FlowOf(i) \in Objects \ {o}
  BY Names
<1>3. o[1] = "group" => \A i \in Jobs : Leaf(i) \in Objects \ {o} /\ FlowOf(i) \in Objects \ {o}
  BY Names, ObjectFacts
<1> QED
  BY <1>1, <1>2, <1>3

(* A dependee that has ended well is ok; one that failed is failed.         *)
LEMMA DependeesSeen ==
  ASSUME NEW j \in Jobs
  PROVE  /\ Promise!DependeesOf(j) = RangeOf(Dependees[j])
         /\ AllGood(j) => \A d \in Promise!DependeesOf(j) : [i \in Jobs |-> PhaseOfJob(i)][d] = "ok"
         /\ SomeFailed(j) => \E d \in Promise!DependeesOf(j) : [i \in Jobs |-> PhaseOfJob(i)][d] = "failed"
<1>1. Promise!DependeesOf(j) = RangeOf(Dependees[j])
  BY DEF Promise!DependeesOf, RangeOf
<1>2. RangeOf(Dependees[j]) \subseteq Jobs
  BY FlowConstants DEF RangeOf
<1> QED
  BY <1>1, <1>2, PhaseOfFlow DEF AllGood, SomeFailed

(* A leaf that takes its turn: its job begins, or is passed over.           *)
LEMMA LeafTurn ==
  ASSUME FlowInv, ~cancelling, NEW t \in Threads, NEW h, Takes1(t, h, "execute"),
         NEW j \in Jobs, h.on = Leaf(j), NotRun(j),
         \A x \in Objects \ {Leaf(j)} : status'[x] = status[x], rootTold' = rootTold,
         status'[Leaf(j)] \in {"RUNNING", "COMPLETED"}
  PROVE  Promise!Next
<1>1. h \in Frames /\ h.op = "execute" /\ h.arg \in Allowed(Leaf(j)) /\ Says(h)
      /\ Leaf(j) \in Objects /\ Leaf(j)[2] = j
  BY FrameFacts, Names DEF Takes1
<1>2. AllGood(j)
  <2>1. CASE j \in Dependents
    BY <1>1, <2>1 DEF Says, SaysOfDependees
  <2>2. CASE j \notin Dependents
    BY <2>2 DEF AllGood, RangeOf, Dependents
  <2> QED
    BY <2>1, <2>2
<1>3. status[FlowOf(j)] \notin Finished /\ (j \in Dependents => status'[FlowOf(j)] \notin Finished)
  <2>1. CASE j \in Dependents
    <3>1. Carries(h, Flow(j))
      BY <1>1, <2>1, AllowedFacts, CarriesFacts
    <3>2. "done" \notin Slots(Flow(j))
      BY <2>1, <3>1, TakenToken, TokensAre
    <3>3. FlowOf(j) = Composed(j) /\ Composed(j) # Leaf(j) /\ Composed(j) \in Objects
      BY <2>1, Names DEF FlowOf
    <3> QED
      BY <2>1, <3>2, <3>3, FlowSlots
  <2>2. CASE j \notin Dependents
    BY <2>2 DEF FlowOf, NotRun, Finished, Good
  <2> QED
    BY <2>1, <2>2
<1>4. PhaseOfJob(j) = "waiting"
  BY <1>3, Phases DEF PhaseOfJob, NotRun
<1>5. PICK p \in {"running", "ok"} : p = PhaseOfJob(j)'
  <2>1. FlowOf(j)' = FlowOf(j) /\ Leaf(j)' = Leaf(j)
    BY DEF FlowOf, Leaf, Composed, Dependents
  <2>2. \A s : PhaseOf(s)' = PhaseOf(s)
    BY DEF PhaseOf
  <2>3. CASE j \in Dependents
    <3>1. PhaseOfJob(j)' = PhaseOf(status'[Leaf(j)])
      BY <1>3, <2>1, <2>3 DEF PhaseOfJob, PhaseOf
    <3> QED
      BY <3>1, Phases
  <2>4. CASE j \notin Dependents
    <3>1. FlowOf(j) = Leaf(j)
      BY <2>4 DEF FlowOf
    <3>2. PhaseOfJob(j)' = PhaseOf(status'[Leaf(j)])
      BY <2>1, <3>1 DEF PhaseOfJob, PhaseOf
    <3> QED
      BY <3>2, Phases
  <2> QED
    BY <2>3, <2>4
<1>6. \A i \in Jobs \ {j} : PhaseOfJob(i)' = PhaseOfJob(i)
  BY <1>1, OtherPhases
<1>7. /\ [i \in Jobs |-> PhaseOfJob(i)]' = [[i \in Jobs |-> PhaseOfJob(i)] EXCEPT ![j] = p]
      /\ UNCHANGED (IF rootTold = <<>> THEN "none" ELSE rootTold[Len(rootTold)])
  BY <1>5, <1>6, OnePhase
<1>8. Promise!Ready(j)
  BY <1>2, <1>4, DependeesSeen DEF Promise!Ready
<1>9. Promise!Begin(j) \/ Promise!Disabled(j)
  BY <1>5, <1>7, <1>8 DEF Promise!Begin, Promise!Disabled
<1> QED
  BY <1>9 DEF Promise!Next

(* A job that runs ends.                                                    *)
LEMMA LeafEnds ==
  ASSUME FlowInv, NEW j \in Jobs, status[Leaf(j)] = "RUNNING",
         \A x \in Objects \ {Leaf(j)} : status'[x] = status[x], rootTold' = rootTold,
         status'[Leaf(j)] \in Verdicts
  PROVE  Promise!Next \/ UNCHANGED Promise!vars
<1>1. Leaf(j) \in Objects /\ Leaf(j)[2] = j /\ FlowOf(j)' = FlowOf(j) /\ Leaf(j)' = Leaf(j)
  BY Names DEF FlowOf, Leaf, Composed, Dependents
<1>2. \A i \in Jobs \ {j} : PhaseOfJob(i)' = PhaseOfJob(i)
  BY <1>1, OtherPhases
<1>3. CASE j \in Dependents /\ status[FlowOf(j)] \in Finished
  <2>1. FlowOf(j) \in Objects \ {Leaf(j)}
    BY <1>3, Names
  <2>2. PhaseOfJob(j)' = PhaseOfJob(j)
    <3>1. status'[FlowOf(j)] = status[FlowOf(j)] /\ status'[FlowOf(j)] \in Finished
      BY <1>3, <2>1
    <3>2. PhaseOfJob(j) = PhaseOf(status[FlowOf(j)])
      BY <1>3 DEF PhaseOfJob
    <3>3. PhaseOfJob(j)' = PhaseOf(status'[FlowOf(j)])
      BY <1>1, <3>1 DEF PhaseOfJob, PhaseOf
    <3> QED
      BY <3>1, <3>2, <3>3
  <2> QED
    BY <1>2, <2>2, SamePhases
<1>4. CASE ~(j \in Dependents /\ status[FlowOf(j)] \in Finished)
  <2>1. PhaseOfJob(j) = "running"
    BY <1>4, Phases DEF PhaseOfJob, FlowOf, Finished, Good
  <2>2. PhaseOfJob(j)' = PhaseOf(status'[Leaf(j)])
    <3>1. CASE j \in Dependents
      <4>1. FlowOf(j) \in Objects \ {Leaf(j)}
        BY <3>1, Names
      <4> QED
        BY <1>1, <1>4, <3>1, <4>1 DEF PhaseOfJob, PhaseOf
    <3>2. CASE j \notin Dependents
      <4>1. FlowOf(j) = Leaf(j)
        BY <3>2 DEF FlowOf
      <4> QED
        BY <1>1, <4>1 DEF PhaseOfJob, PhaseOf
    <3> QED
      BY <3>1, <3>2
  <2>3. PICK p \in {"ok", "failed"} : p = PhaseOfJob(j)'
    BY <2>2, Phases DEF Verdicts
  <2>4. /\ [i \in Jobs |-> PhaseOfJob(i)]' = [[i \in Jobs |-> PhaseOfJob(i)] EXCEPT ![j] = p]
        /\ UNCHANGED (IF rootTold = <<>> THEN "none" ELSE rootTold[Len(rootTold)])
    BY <1>2, <2>3, OnePhase
  <2>5. Promise!End(j)
    BY <2>1, <2>3, <2>4 DEF Promise!End
  <2> QED
    BY <2>5 DEF Promise!Next
<1> QED
  BY <1>3, <1>4

(* The steps that end a job.                                                *)
LEMMA JobEndOrdered ==
  ASSUME FlowInv, ~cancelling, NEW t \in Threads, NEW op \in {"load", "running"}, Doing(t, op),
         NEW s \in Verdicts, SetStatus(On(t), s), rootTold' = rootTold
  PROVE  Promise!Next \/ UNCHANGED Promise!vars
<1>1. PICK h : Takes1(t, h, op)
  BY TakesTop
<1>2. h \in Frames /\ h.op = op /\ h.on = On(t) /\ Says(h)
  BY <1>1 DEF Takes1
<1>3. PICK j \in Jobs : h.on = Leaf(j)
  BY <1>2, FrameFacts DEF Leaves
<1>4. status[Leaf(j)] = "RUNNING"
  BY <1>2, <1>3 DEF Says, SaysOfLeaf
<1>5. status' = [status EXCEPT ![Leaf(j)] = s] /\ status \in [Objects -> Status] /\ Leaf(j) \in Objects
  BY <1>2, <1>3, Names DEF SetStatus, FlowInv, Shapes
<1>6. status'[Leaf(j)] = s /\ \A x \in Objects \ {Leaf(j)} : status'[x] = status[x]
  BY <1>5
<1> QED
  BY <1>4, <1>6, LeafEnds

(* The steps of execute().                                                  *)
LEMMA ExecuteOrdered ==
  ASSUME FlowInv, ~cancelling, NEW t \in Threads, ExecuteReady(t) \/ ExecuteFinished(t)
  PROVE  Promise!Next \/ UNCHANGED Promise!vars
<1>1. PICK h : Takes1(t, h, "execute")
  BY TakesTop DEF ExecuteReady, ExecuteFinished
<1>2. h \in Frames /\ h.on = On(t) /\ h.on \in Objects /\ status \in [Objects -> Status] /\ ShapeOf(h.on)
  BY <1>1, FrameFacts DEF Takes1, FlowInv, Shapes
<1>3. rootTold' = rootTold
  BY DEF ExecuteReady, ExecuteFinished
<1>4. \/ status' = [status EXCEPT ![h.on] = "RUNNING"] /\ status[h.on] = "READY"
      \/ status' = [status EXCEPT ![h.on] = "COMPLETED"] /\ status[h.on] = "IGNORED" /\ h.on[1] = "leaf"
      \/ status' = status
  <2>1. CASE ExecuteReady(t)
    BY <1>2, <2>1 DEF ExecuteReady, SetStatus
  <2>2. CASE ExecuteFinished(t) /\ status[h.on] = "IGNORED"
    <3>1. h.on[1] = "leaf"
      BY <1>2, <2>2, ObjectFacts DEF ExecuteFinished, Finished, Good, ShapeOf, Verdicts
    <3> QED
      BY <1>2, <2>2, <3>1 DEF ExecuteFinished, SetStatus
  <2>3. CASE ExecuteFinished(t) /\ status[h.on] # "IGNORED"
    <3>1. status' = [status EXCEPT ![h.on] = status[h.on]]
      BY <1>2, <2>3 DEF ExecuteFinished, SetStatus
    <3> QED
      BY <1>2, <3>1
  <2> QED
    BY <2>1, <2>2, <2>3
<1>5. CASE status' = status
  BY <1>3, <1>5, SameStatus
<1>6. CASE status' # status /\ h.on[1] = "leaf"
  <2>1. PICK j \in Jobs : h.on = Leaf(j)
    BY <1>2, <1>6, ObjectFacts
  <2>2. /\ NotRun(j) /\ status'[Leaf(j)] \in {"RUNNING", "COMPLETED"}
        /\ \A x \in Objects \ {Leaf(j)} : status'[x] = status[x]
    BY <1>2, <1>4, <1>6, <2>1 DEF NotRun
  <2> QED
    BY <1>1, <1>3, <2>1, <2>2, LeafTurn
<1>7. CASE status' # status /\ h.on[1] # "leaf"
  <2>1. /\ status[h.on] = "READY" /\ status'[h.on] = "RUNNING"
        /\ \A x \in Objects \ {h.on} : status'[x] = status[x]
    BY <1>2, <1>4, <1>7
  <2>2. CASE h.on[1] = "group"
    BY <1>2, <1>3, <2>1, <2>2, OtherPhases, SamePhases
  <2>3. CASE h.on[1] = "composed"
    <3>1. PICK j \in Dependents : h.on = Composed(j) /\ j = h.on[2]
      BY <1>2, <2>3, ObjectFacts
    <3>2. FlowOf(j) = Composed(j) /\ Leaf(j) \in Objects \ {h.on} /\ FlowOf(j)' = FlowOf(j) /\ Leaf(j)' = Leaf(j)
      BY <3>1, Names, TokensAre DEF FlowOf, Leaf, Composed, Dependents
    <3>3. PhaseOfJob(j)' = PhaseOfJob(j)
      <4>1. status[FlowOf(j)] \notin Finished /\ status'[FlowOf(j)] \notin Finished
            /\ status'[Leaf(j)] = status[Leaf(j)]
        BY <2>1, <3>1, <3>2 DEF Finished, Good
      <4>2. PhaseOfJob(j) = PhaseOf(status[Leaf(j)])
        BY <4>1 DEF PhaseOfJob
      <4>3. PhaseOfJob(j)' = PhaseOf(status'[Leaf(j)])
        BY <3>2, <4>1 DEF PhaseOfJob, PhaseOf
      <4> QED
        BY <4>1, <4>2, <4>3
    <3>4. \A i \in Jobs : PhaseOfJob(i)' = PhaseOfJob(i)
      BY <1>2, <2>1, <3>1, <3>3, OtherPhases
    <3> QED
      BY <1>3, <3>4, SamePhases
  <2> QED
    BY <1>2, <1>7, <2>2, <2>3, ObjectFacts
<1> QED
  BY <1>5, <1>6, <1>7

(* A composed flow ends: as never run, or as its leaf did.                  *)
LEMMA ComposedOrdered ==
  ASSUME FlowInv, ~cancelling, NEW t \in Threads, DependeeFailed(t) \/ DependerCompleted(t)
  PROVE  Promise!Next \/ UNCHANGED Promise!vars
<1>1. PICK h : Takes1(t, h, "completed")
  BY TakesTop DEF DependeeFailed, DependerCompleted
<1>2. h \in Frames /\ h.op = "completed" /\ h.on = On(t) /\ h.arg = Arg(t) /\ Says(h) /\ h.arg \in Verdicts
  BY <1>1, FrameFacts DEF Takes1
<1>3. PICK j \in Dependents : /\ On(t)[2] = j /\ j \in Jobs
                              /\ \/ DependeeFailed(t) /\ h.on = DependeeCallback(j)
                                 \/ DependerCompleted(t) /\ h.on = DependerCallback(j)
  BY <1>2, FrameFacts, CallbackFacts, TokensAre DEF DependeeFailed, DependerCompleted
<1>4. /\ status \in [Objects -> Status] /\ Composed(j) \in Objects /\ Composed(j)[2] = j
      /\ FlowOf(j) = Composed(j) /\ Leaf(j) \in Objects \ {Composed(j)}
      /\ FlowOf(j)' = FlowOf(j) /\ Leaf(j)' = Leaf(j)
  BY <1>3, Names DEF FlowInv, Shapes, FlowOf, Leaf, Composed, Dependents
<1>5. status[Composed(j)] \notin Finished
  <2>1. Carries(h, Flow(j))
    BY <1>2, <1>3, CarriesFacts
  <2>2. "done" \notin Slots(Flow(j))
    BY <1>1, <2>1, TakenToken, TokensAre
  <2> QED
    BY <2>2, FlowSlots
<1>6. PhaseOfJob(j) = PhaseOf(status[Leaf(j)])
  BY <1>4, <1>5 DEF PhaseOfJob
<1>7. rootTold' = rootTold /\ status' = [status EXCEPT ![Composed(j)] = h.arg]
  BY <1>2, <1>3 DEF DependeeFailed, DependerCompleted, SetStatus
<1>8. /\ status'[Composed(j)] = h.arg /\ h.arg \in Finished
      /\ \A x \in Objects \ {Composed(j)} : status'[x] = status[x]
  BY <1>2, <1>4, <1>7 DEF Finished, Good, Verdicts
<1>9. PhaseOfJob(j)' = PhaseOf(h.arg) /\ \A i \in Jobs \ {j} : PhaseOfJob(i)' = PhaseOfJob(i)
  <2>1. PhaseOfJob(j)' = PhaseOf(h.arg)
    BY <1>4, <1>8 DEF PhaseOfJob, PhaseOf
  <2> QED
    BY <1>4, <1>8, <2>1, OtherPhases
<1>10. CASE DependeeFailed(t) /\ h.on = DependeeCallback(j)
  <2>1. h.arg = "FAILED" /\ NotRun(j) /\ SomeFailed(j)
    BY <1>2, <1>10 DEF DependeeFailed, Says, SaysOfDependees, SaysOfTurn
  <2>2. PhaseOfJob(j) = "waiting" /\ PhaseOfJob(j)' = "failed"
    BY <1>6, <1>9, <2>1, Phases DEF NotRun
  <2>3. /\ [i \in Jobs |-> PhaseOfJob(i)]' = [[i \in Jobs |-> PhaseOfJob(i)] EXCEPT ![j] = "failed"]
        /\ UNCHANGED (IF rootTold = <<>> THEN "none" ELSE rootTold[Len(rootTold)])
    BY <1>3, <1>7, <1>9, <2>2, OnePhase
  <2>4. Promise!NeverRun(j)
    BY <1>3, <2>1, <2>2, <2>3, DependeesSeen DEF Promise!NeverRun
  <2> QED
    BY <1>3, <2>4 DEF Promise!Next
<1>11. CASE DependerCompleted(t) /\ h.on = DependerCallback(j)
  <2>1. Means(status[Leaf(j)], h.arg)
    BY <1>2, <1>11 DEF Says, SaysOfVerdict
  <2>2. PhaseOf(h.arg) = PhaseOf(status[Leaf(j)])
    BY <1>2, <2>1, Phases DEF Means, Good, Verdicts
  <2>3. \A i \in Jobs : PhaseOfJob(i)' = PhaseOfJob(i)
    BY <1>6, <1>9, <2>2
  <2> QED
    BY <1>7, <2>3, SamePhases
<1> QED
  BY <1>3, <1>10, <1>11

(* The step that tells the caller of the root.                              *)
LEMMA RootOrdered ==
  ASSUME FlowInv, ~cancelling, NEW t \in Threads, RootCompleted(t)
  PROVE  Promise!Next
<1>1. PICK h : Takes1(t, h, "completed")
  BY TakesTop DEF RootCompleted
<1>2. /\ h \in Frames /\ h.op = "completed" /\ h.on = RootCallback /\ h.arg \in Verdicts /\ Says(h)
      /\ rootTold' = Append(rootTold, h.arg) /\ status' = status
  BY <1>1, FrameFacts DEF Takes1, RootCompleted
<1>3. rootTold = <<>>
  <2>1. Carries(h, Caller)
    BY <1>2, CarriesFacts
  <2>2. "done" \notin Slots(Caller)
    BY <1>1, <2>1, TakenToken, TokensAre
  <2> QED
    BY <2>2, CallerSlots
<1>4. PICK v \in Verdicts : v = h.arg
  BY <1>2
<1>5. rootTold' = <<v>> /\ rootTold' # <<>> /\ rootTold'[Len(rootTold')] = v
  <2>1. Append(<<>>, v) = <<v>> /\ <<v>> # <<>> /\ Len(<<v>>) = 1 /\ <<v>>[1] = v
    OBVIOUS
  <2> QED
    BY <2>1, <1>2, <1>3, <1>4
<1>6. Means(status[FlowOf(Root)], v)
  BY <1>2, <1>4 DEF Says, SaysOfVerdict
<1>7. IF v = "FAILED" THEN PhaseOfJob(Root) = "failed" ELSE PhaseOfJob(Root) = "ok"
  BY <1>6, PhaseOfFlow, TokensAre DEF Means
<1>8. [i \in Jobs |-> PhaseOfJob(i)]' = [i \in Jobs |-> PhaseOfJob(i)]
  BY <1>2 DEF PhaseOfJob, PhaseOf, FlowOf, Leaf, Composed
<1>9. Promise!Announce
  BY <1>3, <1>4, <1>5, <1>7, <1>8, TokensAre DEF Promise!Announce, Verdicts
<1> QED
  BY <1>9 DEF Promise!Next

(* Every step.                                                              *)
LEMMA StepOrdered ==
  ASSUME FlowInv, NEW t \in Threads, Step(t), ~cancelling'
  PROVE  Promise!Next \/ UNCHANGED Promise!vars
<1>1. ~cancelling
  BY DEF Step, ExecuteReady, ExecuteRunning, ExecuteFinished, LeaveMonitor, NextChild, LoadJob,
     JobMissing, JobThrows, JobReturns, SetReturnProps, StartCallbackThread, RootCompleted,
     GroupCompleted, GroupVerdict, DependeeSucceeded, DependeeSaveFails, DependeeFailed,
     DependerCompleted, CancelChildren, CancelFinishedLeaf, CancelLeaf
<1>2. CASE ExecuteReady(t) \/ ExecuteFinished(t)
  BY <1>1, <1>2, ExecuteOrdered
<1>3. CASE JobMissing(t) \/ JobThrows(t) \/ JobReturns(t)
  BY <1>1, <1>3, JobEndOrdered DEF JobMissing, JobThrows, JobReturns, Verdicts
<1>4. CASE GroupCompleted(t)
  <2>1. PICK h : Takes1(t, h, "completed")
    BY <1>4, TakesTop DEF GroupCompleted
  <2>2. PICK j \in Dependents : On(t)[2] = j
    BY <1>4, <2>1, FrameFacts, CallbackFacts DEF Takes1, GroupCompleted
  <2>3. Group(j) \in Objects /\ Group(j)[1] = "group" /\ status \in [Objects -> Status]
    BY Names, TokensAre DEF FlowInv, Shapes
  <2>4. UpdateState(j) /\ rootTold' = rootTold
    BY <1>4, <2>2 DEF GroupCompleted
  <2>5. \A x \in Objects \ {Group(j)} : status'[x] = status[x]
    BY <2>3, <2>4 DEF UpdateState, SetStatus
  <2> QED
    BY <2>3, <2>4, <2>5, OtherPhases, SamePhases
<1>5. CASE DependeeFailed(t) \/ DependerCompleted(t)
  BY <1>1, <1>5, ComposedOrdered
<1>6. CASE RootCompleted(t)
  BY <1>1, <1>6, RootOrdered
<1>7. CASE CancelLeaf(t)
  <2>1. PICK h : Takes1(t, h, "cancel")
    BY <1>7, TakesTop DEF CancelLeaf
  <2> QED
    BY <1>1, <2>1 DEF Takes1, Says, SaysOfCancel
<1>8. CASE ExecuteRunning(t) \/ LeaveMonitor(t) \/ NextChild(t) \/ LoadJob(t) \/ SetReturnProps(t)
           \/ StartCallbackThread(t) \/ GroupVerdict(t) \/ DependeeSucceeded(t) \/ DependeeSaveFails(t)
           \/ CancelChildren(t) \/ CancelFinishedLeaf(t)
  <2>1. status' = status /\ rootTold' = rootTold
    BY <1>8 DEF ExecuteRunning, LeaveMonitor, NextChild, LoadJob, SetReturnProps, StartCallbackThread,
       GroupVerdict, DependeeSucceeded, DependeeSaveFails, CancelChildren, CancelFinishedLeaf
  <2> QED
    BY <2>1, SameStatus
<1> QED
  BY <1>2, <1>3, <1>4, <1>5, <1>6, <1>7, <1>8 DEF Step

(* Nothing has started, as FlowOrder has it.                                *)
LEMMA InitOrdered == Init => Promise!Init
<1> SUFFICES ASSUME Init
             PROVE  Promise!Init
  OBVIOUS
<1>1. \A o \in Objects : status[o] \in {"READY", "IGNORED", "COMPLETED"}
  <2>1. PICK disabled : \E skipped : status = InitStatus(disabled, skipped)
    BY DEF Init
  <2> QED
    BY <2>1 DEF InitStatus
<1>2. \A j \in Jobs : PhaseOfJob(j) \in {"waiting", "ok"}
  BY <1>1, Names, Phases DEF PhaseOfJob
<1>3. rootTold = <<>>
  BY DEF Init
<1> QED
  BY <1>2, <1>3 DEF Promise!Init

(* Until a cancel, every step of the objects is a step of FlowOrder or none. *)
THEOREM FlowKeepsOrder == Spec => ImplementsFlowOrder
<1>1. FlowInv /\ [Next]_vars => [Promise!Next \/ UNCHANGED Promise!vars \/ cancelling']_vars
  <2>1. CancelRoot => cancelling'
    BY DEF CancelRoot
  <2> QED
    BY <2>1, StepOrdered DEF Next, Quiesced
<1> QED
  BY <1>1, InvAlways, InitOrdered, PTL DEF Spec, ImplementsFlowOrder
==============================================================================
