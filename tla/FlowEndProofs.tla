---------------------------- MODULE FlowEndProofs ----------------------------
(***************************************************************************)
(* In the end everybody is told: if neither reports nor saves fail, every  *)
(* thread that has come to its end has left nobody waiting, for any        *)
(* dependency graph, with or without a cancel.                             *)
(*                                                                         *)
(* FlowInv says that nothing is told twice; LiveInv, that nothing is       *)
(* forgotten.  What waits is waited for by a frame of some thread (Now) or *)
(* by an object that has still to end.  When there are no frames, the      *)
(* objects wait for each other only, and of those that do one has no       *)
(* dependee among them, as dependencies end.                               *)
(*                                                                         *)
(* In the end the file says so, too: what is loaded from it was the case   *)
(* (TextInv), and a leaf that has changed since is followed by a frame     *)
(* that will save it (SaveComes).                                          *)
(*                                                                         *)
(* And it comes to an end: the threads of an execution never wait for each *)
(* other's monitors in a circle, however often it is restarted, for the    *)
(* monitors have an order (Rank) in which callbacks go up (MonitorInv).    *)
(* Only the web thread goes down, from a composed flow to its depender; it *)
(* waits for nobody when requests come only after an execution is over     *)
(* (QuietInv).                                                             *)
(***************************************************************************)
EXTENDS FlowExecutionProofs, FlowFile, FlowRestart, FiniteSetTheorems, WellFoundedInduction

(* A thread takes the frame h, and the frames of G come up.                 *)
Swaps(h, G) ==
  /\ h \in Now
  /\ Now \ {h} \subseteq Now' /\ G \subseteq Now' /\ Now' \subseteq Now \cup G

(* The elements of a sequence that is put together from others.             *)
LEMMA SeqParts ==
  ASSUME NEW S, NEW s \in Seq(S), NEW fs \in Seq(S)
  PROVE  /\ s # <<>> => RangeOf(s) = {Head(s)} \cup RangeOf(Tail(s))
         /\ RangeOf(fs \o s) = RangeOf(fs) \cup RangeOf(s)
         /\ RangeOf(s) \subseteq S
<1>1. s # <<>> => RangeOf(s) = {Head(s)} \cup RangeOf(Tail(s))
  <2> SUFFICES ASSUME s # <<>>
               PROVE  RangeOf(s) = {Head(s)} \cup RangeOf(Tail(s))
    OBVIOUS
  <2>1. /\ Len(s) \in Nat \ {0} /\ DOMAIN s = 1 .. Len(s) /\ Head(s) = s[1]
        /\ DOMAIN Tail(s) = 1 .. (Len(s) - 1)
        /\ \A i \in 1 .. (Len(s) - 1) : Tail(s)[i] = s[i + 1]
    OBVIOUS
  <2>2. RangeOf(s) \subseteq {Head(s)} \cup RangeOf(Tail(s))
    <3> SUFFICES ASSUME NEW i \in 1 .. Len(s), i # 1
                 PROVE  s[i] \in RangeOf(Tail(s))
      BY <2>1 DEF RangeOf
    <3>1. i - 1 \in 1 .. (Len(s) - 1) /\ (i - 1) + 1 = i
      BY <2>1
    <3>2. Tail(s)[i - 1] = s[i]
      BY <3>1, <2>1
    <3> QED
      BY <3>1, <3>2, <2>1 DEF RangeOf
  <2>3. {Head(s)} \cup RangeOf(Tail(s)) \subseteq RangeOf(s)
    <3>1. \A i \in 1 .. (Len(s) - 1) : i + 1 \in 1 .. Len(s)
      BY <2>1
    <3>2. 1 \in 1 .. Len(s)
      BY <2>1
    <3> QED
      BY <3>1, <3>2, <2>1 DEF RangeOf
  <2> QED
    BY <2>2, <2>3
<1>2. RangeOf(fs \o s) = RangeOf(fs) \cup RangeOf(s)
  <2>1. /\ DOMAIN fs = 1 .. Len(fs) /\ DOMAIN s = 1 .. Len(s) /\ Len(s) \in Nat /\ Len(fs) \in Nat
        /\ DOMAIN (fs \o s) = 1 .. (Len(fs) + Len(s))
        /\ \A i \in 1 .. (Len(fs) + Len(s)) :
             (fs \o s)[i] = IF i <= Len(fs) THEN fs[i] ELSE s[i - Len(fs)]
    BY ConcatProperties
  <2>2. \A i \in 1 .. (Len(fs) + Len(s)) :
          (i <= Len(fs) /\ i \in 1 .. Len(fs)) \/ (~(i <= Len(fs)) /\ i - Len(fs) \in 1 .. Len(s))
    BY <2>1
  <2>3. RangeOf(fs \o s) \subseteq RangeOf(fs) \cup RangeOf(s)
    BY <2>1, <2>2 DEF RangeOf
  <2>4. \A i \in 1 .. Len(fs) : i \in 1 .. (Len(fs) + Len(s)) /\ i <= Len(fs)
    BY <2>1
  <2>5. \A i \in 1 .. Len(s) : /\ Len(fs) + i \in 1 .. (Len(fs) + Len(s))
                               /\ ~(Len(fs) + i <= Len(fs)) /\ (Len(fs) + i) - Len(fs) = i
    BY <2>1
  <2>6. \A i \in 1 .. Len(s) : (fs \o s)[Len(fs) + i] = s[i]
    BY <2>1, <2>5
  <2>7. RangeOf(fs) \subseteq RangeOf(fs \o s)
    BY <2>1, <2>4 DEF RangeOf
  <2>8. RangeOf(s) \subseteq RangeOf(fs \o s)
    <3> SUFFICES ASSUME NEW i \in 1 .. Len(s)
                 PROVE  \E m \in DOMAIN (fs \o s) : (fs \o s)[m] = s[i]
      BY <2>1 DEF RangeOf
    <3>1. Len(fs) + i \in DOMAIN (fs \o s)
      BY <2>1, <2>5
    <3> QED
      BY <3>1, <2>6
  <2> QED
    BY <2>3, <2>7, <2>8
<1>3. RangeOf(s) \subseteq S
  BY DEF RangeOf
<1> QED
  BY <1>1, <1>2, <1>3

(* The frames there are, by place and as a set.                             *)
LEMMA NowFacts ==
  ASSUME FlowInv
  PROVE  /\ Now \subseteq Frames
         /\ \A p \in Places : FrameAt(p) \in Now
         /\ \A f \in Now : \E p \in Places : FrameAt(p) = f
         /\ \A f \in Now : Says(f)
<1>1. stack \in [Threads -> Seq(Frames)]
  BY DEF FlowInv, Shapes
<1>2. \A t \in Threads : RangeOf(stack[t]) \subseteq Frames
  BY <1>1 DEF RangeOf
<1>3. \A p \in Places : FrameAt(p) \in Now
  BY PlaceFacts DEF Now, RangeOf, FrameAt
<1>4. \A f \in Now : \E p \in Places : FrameAt(p) = f
  <2> SUFFICES ASSUME NEW t \in Threads, NEW i \in DOMAIN stack[t]
               PROVE  \E p \in Places : FrameAt(p) = stack[t][i]
    BY DEF Now, RangeOf
  <2> QED
    BY PlaceFacts
<1>5. Now \subseteq Frames
  BY <1>2 DEF Now
<1> QED
  BY <1>3, <1>4, <1>5 DEF FlowInv

(* What a step does to the set of frames.                                   *)
LEMMA TakesSwaps ==
  ASSUME FlowInv, NEW t \in Threads, NEW v \in Threads, NEW fs \in Seq(Frames), Takes(t, v, fs)
  PROVE  Swaps(Head(stack[t]), RangeOf(fs))
<1>1. PICK s, h : s = stack[t] /\ h = Head(stack[t])
  OBVIOUS
<1>2. stack \in [Threads -> Seq(Frames)] /\ s \in Seq(Frames) /\ s # <<>> /\ Tail(s) \in Seq(Frames)
  BY <1>1 DEF FlowInv, Shapes, Takes
<1>3. PICK r : r = Tail(s) /\ r \in Seq(Frames)
  BY <1>2
<1>4. RangeOf(s) = {h} \cup RangeOf(r)
  BY <1>1, <1>2, <1>3, SeqParts
<1>5. RangeOf(fs \o r) = RangeOf(fs) \cup RangeOf(r)
  <2>1. r \in Seq(Frames) /\ fs \in Seq(Frames)
    BY <1>3
  <2> QED
    BY <2>1, SeqParts, SMTT(30)
<1>6. /\ \A u \in Threads \ {t, v} : stack'[u] = stack[u]
      /\ v = t => stack'[t] = fs \o r
      /\ v # t => stack'[t] = r /\ stack'[v] = fs /\ stack[v] = <<>>
  BY <1>1, <1>2, <1>3 DEF Takes
<1>7. RangeOf(<<>>) = {}
  BY DEF RangeOf
<1>8. /\ \A u \in Threads \ {t, v} : RangeOf(stack'[u]) = RangeOf(stack[u])
      /\ RangeOf(stack[t]) = {h} \cup RangeOf(r)
      /\ v = t => RangeOf(stack'[t]) = RangeOf(fs) \cup RangeOf(r)
      /\ v # t => RangeOf(stack'[t]) = RangeOf(r) /\ RangeOf(stack'[v]) = RangeOf(fs)
                  /\ RangeOf(stack[v]) = {}
  BY <1>1, <1>4, <1>5, <1>6, <1>7
<1>9. Now' = UNION {RangeOf(stack'[u]) : u \in Threads}
  BY DEF Now, RangeOf
<1>10. h \in Now
  BY <1>8 DEF Now
<1>11. \A f \in Now : f = h \/ f \in Now'
  BY <1>8, <1>9 DEF Now
<1>12. RangeOf(fs) \subseteq Now'
  BY <1>8, <1>9
<1>13. Now' \subseteq Now \cup RangeOf(fs)
  BY <1>8, <1>9 DEF Now
<1> QED
  BY <1>1, <1>10, <1>11, <1>12, <1>13 DEF Swaps

(* The step of a thread, as what it does to the set of frames.              *)
LEMMA StepSwaps ==
  ASSUME FlowInv, NEW t \in Threads, NEW h, NEW op, Takes1(t, h, op), NEW fs \in Seq(Frames),
         NEW G, G = RangeOf(fs),
         Then(t, fs) \/ \E v \in Threads : ThenStart(t, <<>>, v, fs)
  PROVE  Swaps(h, G)
<1>1. stack[t] # <<>> /\ h = Head(stack[t])
  BY TopFacts DEF Takes1
<1>2. stack \in [Threads -> Seq(Frames)]
  BY DEF FlowInv, Shapes
<1>3. \E v \in Threads : Takes(t, v, fs)
  <2>1. CASE Then(t, fs)
    BY <2>1, <1>1 DEF Then, Takes
  <2>2. CASE \E v \in Threads : ThenStart(t, <<>>, v, fs)
    <3>1. PICK v \in Threads : ThenStart(t, <<>>, v, fs) /\ v # t
      BY <2>2, <1>1 DEF ThenStart
    <3>2. <<>> \o Tail(stack[t]) = Tail(stack[t])
      BY <1>1, <1>2
    <3> QED
      BY <1>1, <3>1, <3>2 DEF ThenStart, Takes
  <2> QED
    BY <2>1, <2>2
<1> QED
  BY <1>1, <1>3, TakesSwaps

(* Whether a leaf has still to take its list, by the set of frames.         *)
LEMMA PendingNow ==
  ASSUME NEW j \in Jobs
  PROVE  /\ Pending(j) <=> \/ status[Leaf(j)] = "RUNNING"
                           \/ \E f \in Now : f.op = "generated" /\ f.on = Leaf(j)
         /\ Pending(j)' <=> \/ status'[Leaf(j)] = "RUNNING"
                            \/ \E f \in Now' : f.op = "generated" /\ f.on = Leaf(j)
<1>1. /\ \A f \in Now : \E p \in Places : FrameAt(p) = f
      /\ \A p \in Places : FrameAt(p) \in Now
  <2>1. /\ \A f \in Now : \E t \in Threads : \E i \in DOMAIN stack[t] : f = stack[t][i]
        /\ \A t \in Threads : \A i \in DOMAIN stack[t] : stack[t][i] \in Now
    BY DEF Now, RangeOf
  <2>2. \A f \in Now : \E p \in Places : FrameAt(p) = f
    <3> TAKE f \in Now
    <3>1. PICK t \in Threads : \E i \in DOMAIN stack[t] : f = stack[t][i]
      BY <2>1
    <3>2. PICK i \in DOMAIN stack[t] : f = stack[t][i]
      BY <3>1
    <3> QED
      BY <3>2, PlaceFacts
  <2>3. \A p \in Places : FrameAt(p) \in Now
    BY <2>1, PlaceFacts DEF FrameAt
  <2> QED
    BY <2>2, <2>3
<1>2. /\ \A f \in Now' : \E p \in Places' : stack'[p[1]][p[2]] = f
      /\ \A p \in Places' : stack'[p[1]][p[2]] \in Now'
  <2>1. \A f \in Now' : \E t \in Threads : \E i \in DOMAIN stack'[t] : f = stack'[t][i]
    BY DEF Now, RangeOf
  <2>2. \A t \in Threads : \A i \in DOMAIN stack'[t] : \E p \in Places' : p[1] = t /\ p[2] = i
    <3> TAKE t \in Threads
    <3> TAKE i \in DOMAIN stack'[t]
    <3>1. <<t, i>> \in Places' /\ <<t, i>>[1] = t /\ <<t, i>>[2] = i
      BY DEF Places
    <3> QED
      BY <3>1
  <2>3. \A p \in Places' : p[1] \in Threads /\ p[2] \in DOMAIN stack'[p[1]]
    BY DEF Places
  <2>4. \A t \in Threads : \A i \in DOMAIN stack'[t] : stack'[t][i] \in Now'
    BY DEF Now, RangeOf
  <2>5. \A f \in Now' : \E p \in Places' : stack'[p[1]][p[2]] = f
    <3> TAKE f \in Now'
    <3>1. PICK t \in Threads : \E i \in DOMAIN stack'[t] : f = stack'[t][i]
      BY <2>1
    <3>3. PICK i \in DOMAIN stack'[t] : f = stack'[t][i]
      BY <3>1
    <3>2. PICK p \in Places' : p[1] = t /\ p[2] = i
      BY <2>2
    <3> QED
      BY <3>3, <3>2
  <2> QED
    BY <2>3, <2>4, <2>5
<1>3. Pending(j) <=> \/ status[Leaf(j)] = "RUNNING"
                     \/ \E f \in Now : f.op = "generated" /\ f.on = Leaf(j)
  BY <1>1 DEF Pending
<1>4. Pending(j)' <=> \/ status'[Leaf(j)] = "RUNNING"
                      \/ \E p \in Places' : stack'[p[1]][p[2]].op = "generated" /\ stack'[p[1]][p[2]].on = Leaf(j)
  BY DEF Pending, FrameAt, Leaf
<1>5. Pending(j)' <=> \/ status'[Leaf(j)] = "RUNNING"
                      \/ \E f \in Now' : f.op = "generated" /\ f.on = Leaf(j)
  BY <1>2, <1>4
<1> QED
  BY <1>3, <1>5

-----------------------------------------------------------------------------
(* What a step that takes the frame h, brings up the frames of G and writes *)
(* at most the object o does to each part of LiveInv.                       *)

(* A list stays a list of those that were executed.                         *)
LEMMA CallersStep ==
  ASSUME FlowInv, CallersKnown, NEW h, NEW G, Swaps(h, G), NEW o \in Objects, Only(o),
         o[1] # "leaf" /\ callbacks[o] # <<>> => callbacks'[o] # <<>>,
         \A g \in G : KnowsCaller(g)',
         \A c \in RangeOf(callbacks'[o]) : c \in RangeOf(callbacks[o]) \/ (Known(c) /\ c \in TheCallbacks)
  PROVE  CallersKnown'
<1>1. \A x \in Objects : x[1] # "leaf" /\ callbacks[x] # <<>> => callbacks'[x] # <<>>
  BY DEF Only
<1>2. \A j \in Dependents : /\ callbacks[Group(j)] # <<>> => callbacks'[Group(j)] # <<>>
                            /\ callbacks[Composed(j)] # <<>> => callbacks'[Composed(j)] # <<>>
  BY <1>1, Names, TokensAre
<1>3. \A c \in TheCallbacks : Known(c) => Known(c)'
  <2> TAKE c \in TheCallbacks
  <2>1. c[1] \in {"groupCallback", "dependeeCallback", "dependerCallback"} => c[2] \in Dependents
    BY CallbackFacts
  <2>2. c[2] \in Dependents => /\ callbacks[Group(c[2])] # <<>> => callbacks'[Group(c[2])] # <<>>
                               /\ callbacks[Composed(c[2])] # <<>> => callbacks'[Composed(c[2])] # <<>>
    BY <1>2
  <2> QED
    BY <2>1, <2>2, Zenon DEF Known, Group, Composed
<1>4. ASSUME NEW f \in Now, KnowsCaller(f) PROVE KnowsCaller(f)'
  <2>1. f \in Frames
    BY NowFacts
  <2>2. f.op = "execute" => Known(f.arg)'
    BY <1>3, <1>4, <2>1, FrameFacts DEF KnowsCaller
  <2>3. f.op = "completed" => Known(f.on)'
    BY <1>3, <1>4, <2>1, FrameFacts DEF KnowsCaller
  <2>4. f.op = "children" => callbacks'[f.on] # <<>>
    <3>1. f.op = "children" => \E j \in Dependents : f.on = Group(j)
      BY <2>1, FrameFacts DEF Groups
    <3>2. f.op = "children" => callbacks[f.on] # <<>>
      BY <1>4 DEF KnowsCaller
    <3> QED
      BY <1>2, <3>1, <3>2, Zenon
  <2>5. f.op \in {"callCallbacks", "verdict"} => \A i \in DOMAIN f.arg : f.arg[i] \in TheCallbacks
    BY <2>1, FrameFacts
  <2>6. f.op \in {"callCallbacks", "verdict"} => \A i \in DOMAIN f.arg : Known(f.arg[i])'
    BY <1>3, <1>4, <2>5 DEF KnowsCaller
  <2> QED
    BY <2>2, <2>3, <2>4, <2>6, <1>4 DEF KnowsCaller
<1>5. \A f \in Now' : KnowsCaller(f)'
  BY <1>4 DEF Swaps, CallersKnown
<1>6. \A x \in Objects : \A c \in RangeOf(callbacks'[x]) : Known(c)'
  <2> SUFFICES ASSUME NEW x \in Objects, NEW c \in RangeOf(callbacks'[x])
               PROVE  Known(c)'
    OBVIOUS
  <2>1. \A y \in Objects : \A d \in RangeOf(callbacks[y]) : Known(d) /\ d \in TheCallbacks
    BY DEF CallersKnown, RangeOf, FlowInv, Shapes
  <2>2. CASE x = o
    BY <2>1, <2>2, <1>3
  <2>3. CASE x # o
    BY <2>1, <2>3, <1>3 DEF Only
  <2> QED
    BY <2>2, <2>3
<1>7. \A x \in Objects : \A i \in DOMAIN callbacks'[x] : \E c : c = callbacks'[x][i] /\ Known(c)'
  BY <1>6 DEF RangeOf
<1>8. (\A x \in Objects : \A i \in DOMAIN callbacks[x] : Known(callbacks[x][i]))'
  BY <1>7
<1> QED
  BY <1>5, <1>8 DEF CallersKnown

(* What is RUNNING goes on to be worked on.                                 *)
LEMMA RunningStep ==
  ASSUME RunningIsAsked, NEW h, NEW G, Swaps(h, G), NEW o \in Objects, Only(o),
         \A j \in Jobs : Works(h, j) /\ status'[Leaf(j)] = "RUNNING" => \E g \in G : Works(g, j),
         \A j \in Jobs : o = Leaf(j) /\ status'[Leaf(j)] = "RUNNING" =>
            callbacks'[o] # <<>> /\ (status[o] = "RUNNING" \/ \E g \in G : Works(g, j)),
         o[1] = "group" /\ status'[o] = "RUNNING" => callbacks'[o] # <<>>
  PROVE  RunningIsAsked'
<1>1. ASSUME NEW j \in Jobs, status'[Leaf(j)] = "RUNNING"
      PROVE  callbacks'[Leaf(j)] # <<>> /\ \E f \in Now' : Works(f, j)
  <2>1. Leaf(j) \in Objects
    BY Names
  <2>2. CASE \E g \in G : Works(g, j)
    <3>1. callbacks'[Leaf(j)] # <<>>
      BY <1>1, <2>1 DEF Only, RunningIsAsked
    <3> QED
      BY <3>1, <2>2 DEF Swaps
  <2>3. CASE ~ \E g \in G : Works(g, j)
    <3>1. ~Works(h, j) /\ status[Leaf(j)] = "RUNNING" /\ callbacks'[Leaf(j)] # <<>>
      BY <1>1, <2>1, <2>3 DEF Only, RunningIsAsked
    <3> QED
      BY <3>1 DEF RunningIsAsked, Swaps
  <2> QED
    BY <2>2, <2>3
<1>2. ASSUME NEW j \in Dependents, status'[Group(j)] = "RUNNING"
      PROVE  callbacks'[Group(j)] # <<>>
  <2>1. Group(j) \in Objects /\ Group(j)[1] = "group"
    BY Names, TokensAre
  <2> QED
    BY <1>2, <2>1 DEF Only, RunningIsAsked
<1>3. /\ \A j \in Jobs : status'[Leaf(j)] = "RUNNING" =>
            callbacks'[Leaf(j)] # <<>> /\ \E f \in Now' : Works(f, j)
      /\ \A j \in Dependents : status'[Group(j)] = "RUNNING" => callbacks'[Group(j)] # <<>>
  BY <1>1, <1>2
<1> QED
  BY <1>3 DEF RunningIsAsked, Works, Leaf, Group

(* A token that is with a frame or an object comes to one.                  *)
LEMMA TokensStep ==
  ASSUME NoTokenLost, NEW h, NEW G, Swaps(h, G),
         \A k \in Tokens : k[1] # "worker" /\ (Carries(h, k) \/ Slots(k) # {}) =>
            Slots(k)' # {} \/ \E g \in G : Carries(g, k)
  PROVE  NoTokenLost'
<1>1. ASSUME NEW k \in Tokens, k[1] # "worker"
      PROVE  Slots(k)' # {} \/ \E f \in Now' : Carries(f, k)
  BY <1>1 DEF NoTokenLost, Kept, Swaps
<1> QED
  BY <1>1 DEF NoTokenLost, Kept, Tokens, Flow, Worker, Caller, Carries

(* The dependees the loop has come to stay awaited.                         *)
LEMMA AwaitsStep ==
  ASSUME FlowInv, DependeesAwaited, NEW h, NEW G, Swaps(h, G), NEW o \in Objects, Only(o),
         status[o] \in Finished => status'[o] \in Finished,
         status[o] = "RUNNING" => \/ status'[o] \in Finished
                                  \/ status'[o] = "RUNNING" /\ RangeOf(callbacks[o]) \subseteq RangeOf(callbacks'[o]),
         \A j \in Dependents : status[Group(j)] \in Verdicts => status'[Group(j)] \in Verdicts,
         \A j \in Dependents : \A d \in Jobs : IsCalled(h, j, d) =>
            \/ status'[FlowOf(d)] \in Finished
            \/ status'[FlowOf(d)] = "RUNNING" /\ GroupCallback(j, 1) \in RangeOf(callbacks'[FlowOf(d)]),
         \A j \in Dependents :
            callbacks[Group(j)] = <<>> /\ callbacks'[Group(j)] # <<>> /\ status'[Group(j)] \notin Verdicts =>
            \A i \in DOMAIN Dependees[j] : \E g \in G : ToCome(g, j, i),
         \A j \in Dependents : \A i \in DOMAIN Dependees[j] :
            ToCome(h, j, i) /\ status'[Group(j)] \notin Verdicts =>
            \E g \in G : ToCome(g, j, i) \/ IsCalled(g, j, Dependees[j][i])
  PROVE  DependeesAwaited'
<1>1. ASSUME NEW j \in Dependents, NEW d \in Jobs, Awaits(j, d)
      PROVE  \/ status'[FlowOf(d)] \in Finished
             \/ status'[FlowOf(d)] = "RUNNING" /\ GroupCallback(j, 1) \in RangeOf(callbacks'[FlowOf(d)])
             \/ \E f \in Now' : IsCalled(f, j, d)
  <2>1. FlowOf(d) \in Objects
    BY Names
  <2>2. CASE \E f \in Now : IsCalled(f, j, d)
    BY <2>2 DEF Swaps
  <2>3. CASE ~ \E f \in Now : IsCalled(f, j, d)
    <3>1. CASE FlowOf(d) = o
      BY <1>1, <2>3, <3>1 DEF Awaits
    <3>2. CASE FlowOf(d) # o
      BY <1>1, <2>1, <2>3, <3>2 DEF Awaits, Only
    <3> QED
      BY <3>1, <3>2
  <2> QED
    BY <2>2, <2>3
<1>2. ASSUME NEW j \in Dependents, callbacks'[Group(j)] # <<>>, status'[Group(j)] \notin Verdicts,
             NEW i \in DOMAIN Dependees[j], NEW d, d = Dependees[j][i]
      PROVE  \/ \/ status'[FlowOf(d)] \in Finished
                \/ status'[FlowOf(d)] = "RUNNING" /\ GroupCallback(j, 1) \in RangeOf(callbacks'[FlowOf(d)])
                \/ \E f \in Now' : IsCalled(f, j, d)
             \/ \E f \in Now' : ToCome(f, j, i)
  <2>1. d \in Jobs
    BY <1>2, FlowConstants, TokensAre
  <2>2. CASE callbacks[Group(j)] = <<>>
    BY <1>2, <2>2 DEF Swaps
  <2>3. CASE callbacks[Group(j)] # <<>>
    <3>1. status[Group(j)] \notin Verdicts
      BY <1>2
    <3>2. Awaits(j, d) \/ \E f \in Now : ToCome(f, j, i)
      BY <1>2, <2>3, <3>1 DEF DependeesAwaited
    <3>3. CASE Awaits(j, d)
      BY <3>3, <1>1, <2>1
    <3>4. CASE \E f \in Now : ToCome(f, j, i)
      BY <3>4, <1>2 DEF Swaps
    <3> QED
      BY <3>2, <3>3, <3>4
  <2> QED
    BY <2>2, <2>3
<1>3. \A j \in Dependents : callbacks'[Group(j)] # <<>> =>
        \/ status'[Group(j)] \in Verdicts
        \/ \A i \in DOMAIN Dependees[j] :
             \/ \/ status'[FlowOf(Dependees[j][i])] \in Finished
                \/ /\ status'[FlowOf(Dependees[j][i])] = "RUNNING"
                   /\ GroupCallback(j, 1) \in RangeOf(callbacks'[FlowOf(Dependees[j][i])])
                \/ \E f \in Now' : IsCalled(f, j, Dependees[j][i])
             \/ \E f \in Now' : ToCome(f, j, i)
  BY <1>2
<1>4. \A j \in Dependents : \A d : Awaits(j, d)' <=>
        \/ status'[FlowOf(d)] \in Finished
        \/ status'[FlowOf(d)] = "RUNNING" /\ GroupCallback(j, 1) \in RangeOf(callbacks'[FlowOf(d)])
        \/ \E f \in Now' : IsCalled(f, j, d)
  BY DEF Awaits, IsCalled, FlowOf, Composed, Leaf, Dependents, RangeOf, GroupCallback
<1> QED
  BY <1>3, <1>4 DEF DependeesAwaited, ToCome, Group

(* A group that has its state has a callback to tell it.                    *)
LEMMA VerdictsStep ==
  ASSUME VerdictsComing, NEW h, NEW G, Swaps(h, G),
         \A j \in Dependents : Open(j)' /\ status'[Group(j)] \in Verdicts =>
            \/ Open(j) /\ status[Group(j)] \in Verdicts /\ ~Tells(h, j)
            \/ \E g \in G : Tells(g, j)
  PROVE  VerdictsComing'
<1>1. \A j \in Dependents : Open(j)' /\ status'[Group(j)] \in Verdicts => \E f \in Now' : Tells(f, j)
  BY DEF VerdictsComing, Swaps
<1> QED
  BY <1>1 DEF VerdictsComing, Tells, Group, GroupCallback

(* A group whose last dependee has ended hears of it.                       *)
LEMMA EndsStep ==
  ASSUME FlowInv, EndsComing, DependeesAwaited, NEW h, NEW G, Swaps(h, G), NEW o \in Objects, Only(o),
         \A j \in Dependents : Open(j)' => callbacks[Group(j)] = <<>> \/ Open(j),
         \A j \in Dependents : status[Group(j)] \in Verdicts => status'[Group(j)] \in Verdicts,
         \A j \in Dependents :
            callbacks[Group(j)] = <<>> /\ callbacks'[Group(j)] # <<>> /\ status'[Group(j)] \notin Verdicts =>
            \A i \in DOMAIN Dependees[j] : \E g \in G : ToCome(g, j, i),
         \A j \in Dependents :
            Wakes(h, j) /\ status'[Group(j)] \notin Verdicts /\ AllEnded(j)' => \E g \in G : Wakes(g, j)',
         \A j \in Dependents :
            /\ status[o] = "RUNNING" /\ status'[o] \in Finished
            /\ GroupCallback(j, 1) \in RangeOf(callbacks[o])
            => \E g \in G : Wakes(g, j)',
         \A f \in Now : f # h /\ f.op = "generated" /\ f.on = o =>
            RangeOf(callbacks[o]) \subseteq RangeOf(callbacks'[o])
  PROVE  EndsComing'
<1>1. ASSUME NEW j \in Dependents, NEW f \in Now, f # h, Wakes(f, j)
      PROVE  Wakes(f, j)'
  <2>1. f \in Frames
    BY NowFacts
  <2>2. f.op = "generated" => RangeOf(callbacks[f.on]) \subseteq RangeOf(callbacks'[f.on])
    <3>1. f.op = "generated" => f.on \in Objects
      BY <2>1, FrameFacts, Names DEF Leaves
    <3> QED
      BY <3>1, <1>1 DEF Only
  <2>3. CASE f.op = "generated" /\ GroupCallback(j, 1) \in RangeOf(callbacks[f.on])
    BY <2>2, <2>3 DEF Wakes, GroupCallback, RangeOf
  <2>4. CASE ~(f.op = "generated" /\ GroupCallback(j, 1) \in RangeOf(callbacks[f.on]))
    BY <1>1, <2>4 DEF Wakes, ToCome, IsCalled, GroupCallback, Group, FlowOf, Composed, Leaf, Dependents, RangeOf
  <2> QED
    BY <2>3, <2>4
<1>2. ASSUME NEW j \in Dependents, Open(j)', status'[Group(j)] \notin Verdicts, AllEnded(j)',
             NEW f \in Now, Wakes(f, j)
      PROVE  \E g \in Now' : Wakes(g, j)'
  <2>1. CASE f = h
    BY <1>2, <2>1 DEF Swaps
  <2>2. CASE f # h
    <3>1. f \in Now' /\ Wakes(f, j)'
      BY <1>1, <1>2, <2>2 DEF Swaps
    <3> QED
      BY <3>1
  <2> QED
    BY <2>1, <2>2
<1>3. ASSUME NEW j \in Dependents, Open(j)', status'[Group(j)] \notin Verdicts, AllEnded(j)'
      PROVE  \E f \in Now' : Wakes(f, j)'
  <2>1. Len(Dependees[j]) \in DOMAIN Dependees[j] /\ DOMAIN Dependees[j] = 1 .. Len(Dependees[j]) /\ j \in Jobs
    BY FlowConstants, TokensAre DEF Dependents
  <2>2. CASE callbacks[Group(j)] = <<>>
    <3>1. PICK g \in G : ToCome(g, j, Len(Dependees[j]))
      BY <1>3, <2>1, <2>2 DEF Open, Group
    <3>2. Wakes(g, j)'
      BY <3>1 DEF Wakes, ToCome, Group
    <3> QED
      BY <3>2 DEF Swaps
  <2>3. CASE callbacks[Group(j)] # <<>>
    <3>1. Open(j) /\ status[Group(j)] \notin Verdicts
      BY <1>3, <2>3
    <3>2. CASE AllEnded(j)
      BY <1>2, <1>3, <3>1, <3>2 DEF EndsComing
    <3>3. CASE ~AllEnded(j)
      <4>1. PICK i \in DOMAIN Dependees[j] : status[FlowOf(Dependees[j][i])] \notin Finished
        BY <3>3 DEF AllEnded, RangeOf
      <4>2. PICK d : d = Dependees[j][i] /\ d \in Jobs /\ FlowOf(d) \in Objects /\ d \in RangeOf(Dependees[j])
        BY <2>1, <4>1, FlowConstants, Names DEF RangeOf
      <4>3. status[FlowOf(d)] \notin Finished /\ status'[FlowOf(d)] \in Finished
        BY <1>3, <4>1, <4>2 DEF AllEnded, FlowOf, Composed, Leaf, Dependents
      <4>4. FlowOf(d) = o
        BY <4>2, <4>3 DEF Only
      <4>5. Awaits(j, d) \/ \E f \in Now : ToCome(f, j, i)
        BY <2>3, <3>1, <4>2 DEF DependeesAwaited
      <4>6. CASE status[FlowOf(d)] = "RUNNING" /\ GroupCallback(j, 1) \in RangeOf(callbacks[FlowOf(d)])
        BY <4>3, <4>4, <4>6 DEF Swaps
      <4>7. CASE \E f \in Now : IsCalled(f, j, d)
        <5>1. \E f \in Now : Wakes(f, j)
          BY <4>2, <4>7 DEF Wakes
        <5> QED
          BY <5>1, <1>2, <1>3
      <4>8. CASE \E f \in Now : ToCome(f, j, i)
        <5>1. PICK f \in Now : ToCome(f, j, i)
          BY <4>8
        <5>2. f.op = "children" /\ f.on = Group(j) /\ f.arg <= i /\ f.arg \in Nat
          BY <5>1, NowFacts, FrameFacts DEF ToCome
        <5>3. f.arg <= Len(Dependees[j])
          BY <5>2, <2>1
        <5>4. Wakes(f, j)
          BY <5>2, <5>3 DEF Wakes, ToCome
        <5> QED
          BY <5>4, <1>2, <1>3
      <4> QED
        BY <4>3, <4>5, <4>6, <4>7, <4>8 DEF Awaits
    <3> QED
      BY <3>2, <3>3
  <2> QED
    BY <2>2, <2>3
<1> QED
  BY <1>3 DEF EndsComing, Group

(* Nothing comes onto the canceller's stack without a cancel().             *)
LEMMA CancellerStep ==
  ASSUME FlowInv, CancellerWaits, NEW t \in Threads, Step(t), cancelling' = cancelling
  PROVE  CancellerWaits'
<1> SUFFICES ASSUME ~cancelling
             PROVE  stack'[Canceller] = <<>>
  BY DEF CancellerWaits, Canceller
<1>1. stack[Canceller] = <<>>
  BY DEF CancellerWaits
<1>2. KeepsRest(t)
  BY StepKeepsRest
<1> QED
  BY <1>1, <1>2 DEF KeepsRest

-----------------------------------------------------------------------------
(* Where tokens are after a step that does not concern them.                *)

(* A leaf whose list is still to be taken, until its own thread takes it.   *)
LEMMA PendingHeld ==
  ASSUME NEW j \in Jobs, NEW h, NEW G, Swaps(h, G), Pending(j),
         ~(h.op = "generated" /\ h.on = Leaf(j)), status[Leaf(j)] = "RUNNING" => status'[Leaf(j)] = "RUNNING"
  PROVE  Pending(j)'
BY PendingNow DEF Swaps

(* The token of a flow, unless the step is about its job.                   *)
LEMMA FlowHeld ==
  ASSUME NEW j \in Dependents, NEW h, NEW G, Swaps(h, G), Slots(Flow(j)) # {},
         ~(h.op = "generated" /\ h.on = Leaf(j)),
         status[Leaf(j)] = "RUNNING" => status'[Leaf(j)] = "RUNNING",
         callbacks[Leaf(j)] # <<>> => callbacks'[Leaf(j)] # <<>>,
         callbacks[Group(j)] # <<>> => callbacks'[Group(j)] # <<>>, notified'[j] = notified[j],
         status'[Composed(j)] = status[Composed(j)] \/ status'[Composed(j)] \in Finished
  PROVE  Slots(Flow(j))' # {}
<1>1. Pending(j) => Pending(j)'
  BY PendingHeld, TokensAre
<1>2. PICK s : s \in Slots(Flow(j))
  OBVIOUS
<1>3. s \in Slots(Flow(j))' \/ "done" \in Slots(Flow(j))'
  BY <1>1, <1>2, FlowSlots
<1> QED
  BY <1>3

(* The token of the caller, unless the step is about the root.              *)
LEMMA CallerHeld ==
  ASSUME NEW h, NEW G, Swaps(h, G), Slots(Caller) # {},
         ~(h.op = "generated" /\ h.on = FlowOf(Root)),
         status[FlowOf(Root)] = "RUNNING" => status'[FlowOf(Root)] = "RUNNING",
         RangeOf(callbacks[FlowOf(Root)]) \subseteq RangeOf(callbacks'[FlowOf(Root)]),
         rootTold # <<>> => rootTold' # <<>>
  PROVE  Slots(Caller)' # {}
<1>1. Root \notin Dependents /\ Pending(Root) => Pending(Root)'
  BY PendingHeld, TokensAre DEF FlowOf
<1>2. PICK s : s \in Slots(Caller)
  OBVIOUS
<1>3. s \in Slots(Caller)'
  <2>1. CASE s = "done"
    BY <1>2, <2>1, CallerSlots
  <2>2. CASE s # "done"
    BY <1>1, <1>2, <2>2, CallerSlots DEF FlowOf
  <2> QED
    BY <2>1, <2>2
<1> QED
  BY <1>3

(* What a step does that changes frames alone.                              *)
LEMMA FramesLive ==
  ASSUME FlowInv, LiveInv, NEW t \in Threads, Step(t), NEW h, NEW G, Swaps(h, G),
         UNCHANGED <<status, callbacks, notified, rootTold, cancelling>>,
         h.op \notin {"execute", "generated"},
         \A g \in G : KnowsCaller(g),
         \A j \in Jobs : Works(h, j) => \E g \in G : Works(g, j),
         \A k \in Tokens : k[1] # "worker" /\ Carries(h, k) => \E g \in G : Carries(g, k),
         \A j \in Dependents : \A i \in DOMAIN Dependees[j] :
            ToCome(h, j, i) /\ status[Group(j)] \notin Verdicts =>
            \E g \in G : ToCome(g, j, i) \/ IsCalled(g, j, Dependees[j][i]),
         \A j \in Dependents : Open(j) /\ status[Group(j)] \in Verdicts /\ Tells(h, j) => \E g \in G : Tells(g, j),
         \A j \in Dependents : Wakes(h, j) /\ status[Group(j)] \notin Verdicts => \E g \in G : Wakes(g, j)
  PROVE  LiveInv'
<1>1. PICK o \in Objects : o = FlowOf(Root)
  BY Names, TokensAre
<1>2. Only(o) /\ FlowInv'
  BY StepKeepsInv DEF Only, FlowInv, Shapes
<1>3. CallersKnown'
  <2>1. \A g \in G : KnowsCaller(g)'
    BY DEF KnowsCaller, Known
  <2> QED
    BY <1>2, <2>1, CallersStep DEF LiveInv
<1>4. RunningIsAsked'
  <2>1. /\ \A j \in Jobs : status[Leaf(j)] = "RUNNING" => callbacks[Leaf(j)] # <<>>
        /\ \A j \in Dependents : status[Group(j)] = "RUNNING" => callbacks[Group(j)] # <<>>
    BY DEF LiveInv, RunningIsAsked
  <2>2. o[1] # "group"
    BY <1>1, Names, TokensAre DEF FlowOf
  <2> QED
    BY <1>2, <2>1, <2>2, RunningStep DEF LiveInv
<1>5. NoTokenLost'
  <2>1. ASSUME NEW k \in Tokens, k[1] # "worker", Slots(k) # {}
        PROVE  Slots(k)' # {}
    <3>1. CASE \E j \in Dependents : k = Flow(j)
      BY <2>1, <3>1, FlowHeld
    <3>2. CASE k = Caller
      BY <2>1, <3>2, CallerHeld
    <3>3. \A j \in Jobs : k # Worker(j)
      BY <2>1 DEF Worker
    <3> QED
      BY <3>1, <3>2, <3>3, TokensAre
  <2> QED
    BY <2>1, TokensStep DEF LiveInv
<1>6. DependeesAwaited'
  <2>1. \A j \in Dependents : \A d \in Jobs : ~IsCalled(h, j, d)
    BY DEF IsCalled
  <2> QED
    BY <1>2, <2>1, AwaitsStep DEF LiveInv
<1>7. VerdictsComing'
  <2>1. \A j \in Dependents : Open(j)' <=> Open(j)
    BY DEF Open, Group
  <2> QED
    BY <2>1, VerdictsStep DEF LiveInv
<1>8. EndsComing'
  <2>1. \A j \in Dependents : Open(j)' <=> Open(j)
    BY DEF Open, Group
  <2>2. \A g \in G : \A j \in Dependents : Wakes(g, j) => Wakes(g, j)'
    BY DEF Wakes, ToCome, IsCalled, GroupCallback, Group, FlowOf, Composed, Leaf, Dependents, RangeOf
  <2>3. status[o] # "RUNNING" \/ status'[o] \notin Finished
    BY DEF Finished, Good
  <2> QED
    BY <1>2, <2>1, <2>2, <2>3, EndsStep DEF LiveInv
<1>9. CancellerWaits'
  BY CancellerStep DEF LiveInv
<1> QED
  BY <1>3, <1>4, <1>5, <1>6, <1>7, <1>8, <1>9 DEF LiveInv

-----------------------------------------------------------------------------
(* The frames that tell a list.                                             *)
LEMMA TellsNow ==
  ASSUME NEW o \in Objects, NEW list \in Lists(o), NEW s \in Verdicts, NEW fs, fs = CompletedAll(list, s),
         NEW G, G = RangeOf(fs)
  PROVE  /\ fs \in Seq(Frames)
         /\ \A g \in G : g.op = "completed" /\ g.arg = s /\ g.on \in RangeOf(list)
         /\ \A c \in RangeOf(list) : \E g \in G : g.op = "completed" /\ g.on = c
<1>1. /\ fs \in Seq(Frames) /\ DOMAIN fs = DOMAIN list
      /\ \A m \in DOMAIN fs : fs[m].op = "completed" /\ fs[m].on = list[m] /\ fs[m].arg = s
  BY TellsList
<1> QED
  BY <1>1 DEF RangeOf

(* The frames of a short sequence.                                          *)
LEMMA ShortRange ==
  /\ RangeOf(<<>>) = {}
  /\ \A x \in Frames : RangeOf(<<x>>) = {x} /\ <<x>> \in Seq(Frames)
  /\ \A x, y \in Frames : RangeOf(<<x, y>>) = {x, y} /\ <<x, y>> \in Seq(Frames)
<1>1. RangeOf(<<>>) = {}
  BY DEF RangeOf
<1>2. ASSUME NEW x \in Frames PROVE RangeOf(<<x>>) = {x} /\ <<x>> \in Seq(Frames)
  <2>1. DOMAIN <<x>> = {1} /\ <<x>>[1] = x
    OBVIOUS
  <2> QED
    BY <2>1 DEF RangeOf
<1>3. ASSUME NEW x \in Frames, NEW y \in Frames PROVE RangeOf(<<x, y>>) = {x, y} /\ <<x, y>> \in Seq(Frames)
  <2>1. DOMAIN <<x, y>> = {1, 2} /\ <<x, y>>[1] = x /\ <<x, y>>[2] = y
    OBVIOUS
  <2> QED
    BY <2>1 DEF RangeOf
<1> QED
  BY <1>1, <1>2, <1>3

(* A step that pushes no frame.                                             *)
LEMMA PopSwaps ==
  ASSUME FlowInv, NEW t \in Threads, NEW h, NEW op, Takes1(t, h, op), Then(t, <<>>), NEW G, G = {}
  PROVE  Swaps(h, G)
<1>1. <<>> \in Seq(Frames) /\ G = RangeOf(<<>>)
  BY ShortRange
<1>2. PICK fs \in Seq(Frames) : fs = <<>> /\ G = RangeOf(fs)
  BY <1>1
<1>3. Then(t, fs)
  BY <1>2
<1> QED
  BY <1>2, <1>3, StepSwaps

(* A step that pushes one frame.                                           *)
LEMMA OneSwaps ==
  ASSUME FlowInv, NEW t \in Threads, NEW h, NEW op, Takes1(t, h, op), NEW f \in Frames,
         Then(t, <<f>>) \/ \E v \in Threads : ThenStart(t, <<>>, v, <<f>>), NEW G, G = {f}
  PROVE  Swaps(h, G)
<1>1. PICK fs \in Seq(Frames) : fs = <<f>> /\ G = RangeOf(fs)
  BY ShortRange
<1>2. Then(t, fs) \/ \E v \in Threads : ThenStart(t, <<>>, v, fs)
  BY <1>1
<1> QED
  BY <1>1, <1>2, StepSwaps

(* A step that pushes two frames.                                          *)
LEMMA TwoSwaps ==
  ASSUME FlowInv, NEW t \in Threads, NEW h, NEW op, Takes1(t, h, op), NEW e \in Frames, NEW f \in Frames,
         Then(t, <<e, f>>), NEW G, G = {e, f}
  PROVE  Swaps(h, G)
<1>1. PICK fs \in Seq(Frames) : fs = <<e, f>> /\ G = RangeOf(fs)
  BY ShortRange
<1>2. Then(t, fs)
  BY <1>1
<1> QED
  BY <1>1, <1>2, StepSwaps

(* Frames that are not about callbacks concern nobody.                      *)
LEMMA PlainFrame ==
  ASSUME NEW f, f.op \in {"cancel", "release"}
  PROVE  /\ KnowsCaller(f)
         /\ \A j \in Jobs : ~Works(f, j)
         /\ \A k \in Tokens : ~Carries(f, k)
         /\ \A j, i : ~ToCome(f, j, i)
         /\ \A j : ~Tells(f, j) /\ ~Wakes(f, j)
         /\ \A j, d : ~IsCalled(f, j, d)
<1>1. \A k \in Tokens : ~Carries(f, k)
  BY CarriesFacts, TokensAre
<1> QED
  BY <1>1 DEF KnowsCaller, Works, ToCome, Tells, Wakes, IsCalled

(* A monitor is left, or a cancel() passes.                                 *)
LEMMA PlainLive ==
  ASSUME FlowInv, LiveInv, NEW t \in Threads, LeaveMonitor(t) \/ CancelFinishedLeaf(t) \/ CancelChildren(t)
  PROVE  LiveInv'
<1>1. Step(t) /\ UNCHANGED <<status, callbacks, notified, rootTold, cancelling>>
  BY DEF Step, LeaveMonitor, CancelFinishedLeaf, CancelChildren
<1>2. PICK op \in {"cancel", "release"} : Doing(t, op)
  BY DEF LeaveMonitor, CancelFinishedLeaf, CancelChildren
<1>3. PICK h : Takes1(t, h, op)
  BY <1>2, TakesTop
<1>4. h.op \in {"cancel", "release"} /\ h \in Frames /\ h.on \in Objects /\ h.on = On(t)
  BY <1>3, FrameFacts DEF Takes1
<1>5. \E G : Swaps(h, G) /\ \A g \in G : g.op = "cancel"
  <2>1. CASE Then(t, <<>>)
    <3>1. PICK G : G = {}
      OBVIOUS
    <3>2. Swaps(h, G)
      BY <2>1, <3>1, <1>3, PopSwaps
    <3> QED
      BY <3>1, <3>2
  <2>2. CASE CancelChildren(t)
    <3>1. PICK fs, G : fs = CancelFrames(h.on) /\ G = RangeOf(fs)
      OBVIOUS
    <3>2. h.on[1] # "leaf" /\ Then(t, fs)
      BY <1>4, <2>2, <3>1 DEF CancelChildren, CancelFrames
    <3>3. fs \in Seq(Frames) /\ \A g \in G : g.op = "cancel"
      BY <1>4, <3>1, <3>2, CancelFramesFacts DEF RangeOf
    <3>4. Swaps(h, G)
      BY <1>3, <3>1, <3>2, <3>3, StepSwaps
    <3> QED
      BY <3>3, <3>4
  <2> QED
    BY <2>1, <2>2 DEF LeaveMonitor, CancelFinishedLeaf
<1>6. PICK G : Swaps(h, G) /\ \A g \in G : g.op = "cancel"
  BY <1>5
<1>7. \A g \in G : KnowsCaller(g)
  BY <1>6, PlainFrame
<1>8. h.op \notin {"execute", "generated"}
  BY <1>4
<1> QED
  BY <1>1, <1>4, <1>6, <1>7, <1>8, PlainFrame, FramesLive

(* The loop of a group goes on.                                             *)
LEMMA NextChildLive ==
  ASSUME FlowInv, LiveInv, NEW t \in Threads, NextChild(t)
  PROVE  LiveInv'
<1>1. PICK h : Takes1(t, h, "children")
  BY TakesTop DEF NextChild
<1>2. PICK j \in Dependents : h.on = Group(j) /\ On(t)[2] = j
  BY <1>1, FrameFacts, Names, TokensAre DEF Takes1, Groups
<1>3. PICK i \in Nat \ {0} : i = h.arg /\ i = Arg(t)
  BY <1>1, FrameFacts DEF Takes1
<1>4. h \in Frames /\ h.op = "children" /\ h \in Now /\ j \in Jobs /\ Dependees[j] \in Seq(Jobs)
  BY <1>1, NowFacts, FlowConstants, TokensAre DEF Takes1
<1>5. callbacks[Group(j)] # <<>>
  BY <1>2, <1>4 DEF LiveInv, CallersKnown, KnowsCaller
<1>6. Step(t) /\ UNCHANGED <<status, callbacks, notified, rootTold, cancelling>>
  BY DEF NextChild, Step
<1>7. TheGroupCallback(j) = GroupCallback(j, 1)
  <2>1. PICK b \in BOOLEAN : notified[j] = <<b>>
    BY DEF FlowInv, Shapes
  <2> QED
    BY <2>1 DEF TheGroupCallback
<1>8. PICK f \in Frames : f = Children(j, i + 1) /\ f.op = "children" /\ f.on = Group(j) /\ f.arg = i + 1
  <2>1. Children(j, i + 1) \in Frames
    BY FramesMade
  <2> QED
    BY <2>1 DEF Children, Frame
<1>9. KnowsCaller(f)
  BY <1>5, <1>8 DEF KnowsCaller
<1>10. \/ i > Len(Dependees[j]) /\ Then(t, <<>>)
       \/ ~(i > Len(Dependees[j])) /\ status[Group(j)] = "FAILED" /\ Then(t, <<f>>)
       \/ /\ ~(i > Len(Dependees[j]))
          /\ Then(t, <<Execute(FlowOf(Dependees[j][i]), GroupCallback(j, 1)), f>>)
  BY <1>2, <1>3, <1>7, <1>8 DEF NextChild
<1>11. ASSUME NEW x \in Dependents, h.on = Group(x) PROVE x = j
  <2>1. Group(x)[2] = x /\ Group(j)[2] = j
    BY Names, TokensAre
  <2> QED
    BY <2>1, <1>2, <1>11
<1>12. /\ \A x \in Jobs : ~Works(h, x)
       /\ \A k \in Tokens : ~Carries(h, k)
       /\ \A x : ~Tells(h, x)
       /\ \A x \in Dependents : Wakes(h, x) => x = j /\ i <= Len(Dependees[j])
       /\ \A x \in Dependents : \A m : ToCome(h, x, m) => x = j /\ i <= m
  <2>1. \A k \in Tokens : ~Carries(h, k)
    BY <1>4, CarriesFacts, TokensAre
  <2> QED
    BY <2>1, <1>2, <1>3, <1>4, <1>11 DEF Works, Tells, Wakes, ToCome, IsCalled
<1>13. CASE i > Len(Dependees[j]) /\ Then(t, <<>>)
  <2>1. PICK G : G = {} /\ Swaps(h, G)
    BY <1>1, <1>13, PopSwaps
  <2>2. \A m \in DOMAIN Dependees[j] : ~(i <= m)
    BY <1>4, <1>13
  <2>3. ~(i <= Len(Dependees[j]))
    BY <1>4, <1>13
  <2> QED
    BY <2>1, <2>2, <2>3, <1>4, <1>6, <1>12, FramesLive
<1>14. CASE status[Group(j)] = "FAILED" /\ Then(t, <<f>>)
  <2>1. PICK G : G = {f} /\ Swaps(h, G)
    BY <1>1, <1>14, OneSwaps
  <2> QED
    BY <2>1, <1>4, <1>6, <1>9, <1>12, <1>14, FramesLive DEF Verdicts
<1>15. CASE /\ ~(i > Len(Dependees[j]))
            /\ Then(t, <<Execute(FlowOf(Dependees[j][i]), GroupCallback(j, 1)), f>>)
  <2>1. i \in DOMAIN Dependees[j]
    BY <1>4, <1>15
  <2>2. PICK d \in Jobs : d = Dependees[j][i] /\ d \in RangeOf(Dependees[j])
    BY <2>1, <1>4 DEF RangeOf
  <2>3. PICK e \in Frames : /\ e = Execute(FlowOf(d), GroupCallback(j, 1))
                            /\ e.op = "execute" /\ e.on = FlowOf(d) /\ e.arg = GroupCallback(j, 1)
    <3>1. Execute(FlowOf(d), GroupCallback(j, 1)) \in Frames
      BY Names, AllowedFacts, CallbackFacts, FramesMade
    <3> QED
      BY <3>1 DEF Execute, Frame
  <2>4. PICK G : G = {e, f} /\ Swaps(h, G)
    <3>1. Then(t, <<e, f>>)
      BY <1>15, <2>2, <2>3
    <3> QED
      BY <1>1, <3>1, TwoSwaps
  <2>5. KnowsCaller(e)
    BY <1>5, <2>3, CallbackFacts DEF KnowsCaller, Known
  <2>6. IsCalled(e, j, d) /\ Wakes(e, j)
    BY <2>2, <2>3 DEF IsCalled, Wakes
  <2>7. ASSUME NEW m \in DOMAIN Dependees[j], i <= m
        PROVE  ToCome(f, j, m) \/ IsCalled(e, j, Dependees[j][m])
    <3>1. CASE m = i
      BY <3>1, <2>2, <2>6
    <3>2. CASE m # i
      <4>1. i + 1 <= m
        BY <2>7, <3>2, <1>4
      <4> QED
        BY <4>1, <1>8 DEF ToCome
    <3> QED
      BY <3>1, <3>2
  <2>8. e \in G /\ f \in G /\ \A g \in G : KnowsCaller(g)
    BY <1>9, <2>4, <2>5
  <2>9. \A x \in Dependents : \A m \in DOMAIN Dependees[x] : ToCome(h, x, m) =>
          \E g \in G : ToCome(g, x, m) \/ IsCalled(g, x, Dependees[x][m])
    BY <1>12, <2>7, <2>8
  <2>10. \A x \in Dependents : Wakes(h, x) => \E g \in G : Wakes(g, x)
    BY <1>12, <2>6, <2>8
  <2>11. h.op \notin {"execute", "generated"}
    BY <1>4
  <2> QED
    BY <2>4, <2>8, <2>9, <2>10, <2>11, <1>6, <1>12, FramesLive
<1> QED
  BY <1>10, <1>13, <1>14, <1>15

(* The thread of a job starts.                                              *)
LEMMA LoadJobLive ==
  ASSUME FlowInv, LiveInv, NEW t \in Threads, LoadJob(t)
  PROVE  LiveInv'
<1>1. PICK h : Takes1(t, h, "load")
  BY TakesTop DEF LoadJob
<1>2. PICK j \in Jobs : h.on = Leaf(j) /\ On(t)[2] = j
  BY <1>1, FrameFacts, Names DEF Takes1, Leaves
<1>3. PICK f \in Frames : f = Running(j) /\ f.op = "running" /\ f.on = Leaf(j)
  BY FramesMade DEF Running, Frame
<1>4. Step(t) /\ UNCHANGED <<status, callbacks, notified, rootTold, cancelling>>
      /\ ThenStart(t, <<>>, JobThread(j), <<f>>) /\ JobThread(j) \in Threads
  BY <1>2, <1>3 DEF LoadJob, Step, Threads
<1>5. PICK G : G = {f} /\ Swaps(h, G)
  BY <1>1, <1>4, OneSwaps
<1>6. h.op = "load"
  BY <1>1 DEF Takes1
<1>7. /\ \A g \in G : KnowsCaller(g)
      /\ \A i \in Jobs : Works(h, i) => \E g \in G : Works(g, i)
      /\ \A x : ~Tells(h, x) /\ ~Wakes(h, x) /\ \A i : ~ToCome(h, x, i)
  BY <1>2, <1>3, <1>5, <1>6 DEF KnowsCaller, Works, Tells, Wakes, ToCome, IsCalled
<1>8. \A k \in Tokens : k[1] # "worker" => ~Carries(h, k)
  BY <1>6 DEF Carries
<1>9. h.op \notin {"execute", "generated"}
  BY <1>6
<1>10. /\ \A i \in Jobs : Works(h, i) => \E g \in G : Works(g, i)
       /\ \A x \in Dependents : \A i \in DOMAIN Dependees[x] :
            ToCome(h, x, i) /\ status[Group(x)] \notin Verdicts =>
            \E g \in G : ToCome(g, x, i) \/ IsCalled(g, x, Dependees[x][i])
       /\ \A x \in Dependents : Open(x) /\ status[Group(x)] \in Verdicts /\ Tells(h, x) => \E g \in G : Tells(g, x)
       /\ \A x \in Dependents : Wakes(h, x) /\ status[Group(x)] \notin Verdicts => \E g \in G : Wakes(g, x)
  BY <1>7
<1>11. Step(t) /\ UNCHANGED <<status, callbacks, notified, rootTold, cancelling>>
  BY <1>4
<1>12. \A g \in G : KnowsCaller(g)
  BY <1>7
<1> QED
  BY <1>5, <1>8, <1>9, <1>10, <1>11, <1>12, FramesLive

(* The callbacks of a leaf are called, in their thread.                     *)
LEMMA StartCallbackThreadLive ==
  ASSUME FlowInv, LiveInv, NEW t \in Threads, StartCallbackThread(t)
  PROVE  LiveInv'
<1>1. PICK h : Takes1(t, h, "callCallbacks")
  BY TakesTop DEF StartCallbackThread
<1>2. h \in Frames /\ h.op = "callCallbacks" /\ Says(h) /\ h \in Now /\ h.arg = Arg(t)
  BY <1>1, NowFacts DEF Takes1
<1>3. PICK j \in Jobs : h.on = Leaf(j) /\ On(t) = Leaf(j) /\ On(t)[2] = j
  BY <1>1, <1>2, FrameFacts, Names DEF Takes1, Leaves
<1>4. PICK list, s : list = h.arg /\ s = status[Leaf(j)]
  OBVIOUS
<1>5. list \in Lists(Leaf(j)) /\ s \in Verdicts /\ Leaf(j) \in Objects
  BY <1>2, <1>3, <1>4, FrameFacts, Names DEF Says, SaysOfLeaf
<1>6. PICK fs, G : fs = CompletedAll(list, s) /\ G = RangeOf(fs)
  OBVIOUS
<1>7. /\ fs \in Seq(Frames)
      /\ \A g \in G : g.op = "completed" /\ g.arg = s /\ g.on \in RangeOf(list)
      /\ \A c \in RangeOf(list) : \E g \in G : g.op = "completed" /\ g.on = c
  BY <1>5, <1>6, TellsNow
<1>8. Step(t) /\ UNCHANGED <<status, callbacks, notified, rootTold, cancelling>>
      /\ ThenStart(t, <<>>, CallbackThread(j), fs) /\ CallbackThread(j) \in Threads
  BY <1>2, <1>3, <1>4, <1>6 DEF StartCallbackThread, Step, Threads
<1>9. Swaps(h, G)
  BY <1>1, <1>6, <1>7, <1>8, StepSwaps
<1>10. \A c \in RangeOf(list) : Known(c)
  BY <1>2, <1>4 DEF LiveInv, CallersKnown, KnowsCaller, RangeOf
<1>11. \A g \in G : KnowsCaller(g)
  BY <1>7, <1>10 DEF KnowsCaller
<1>12. ASSUME NEW k \in Tokens, k[1] # "worker", Carries(h, k) PROVE \E g \in G : Carries(g, k)
  <2>1. PICK c \in RangeOf(list) : c \in Told(k)
    BY <1>2, <1>4, <1>12 DEF Carries, RangeOf
  <2> QED
    BY <2>1, <1>7, <1>12 DEF Carries
<1>13. ASSUME NEW x \in Dependents, Wakes(h, x) PROVE \E g \in G : Wakes(g, x)
  <2>1. GroupCallback(x, 1) \in RangeOf(list)
    BY <1>2, <1>4, <1>13 DEF Wakes, ToCome, IsCalled
  <2> QED
    BY <2>1, <1>7 DEF Wakes
<1>14. /\ \A i \in Jobs : ~Works(h, i)
       /\ \A x : ~Tells(h, x) /\ \A i : ~ToCome(h, x, i)
       /\ h.op \notin {"execute", "generated"}
  BY <1>2 DEF Works, Tells, ToCome
<1>20. /\ \A i \in Jobs : Works(h, i) => \E g \in G : Works(g, i)
       /\ \A x \in Dependents : \A i \in DOMAIN Dependees[x] :
            ToCome(h, x, i) /\ status[Group(x)] \notin Verdicts =>
            \E g \in G : ToCome(g, x, i) \/ IsCalled(g, x, Dependees[x][i])
       /\ \A x \in Dependents : Open(x) /\ status[Group(x)] \in Verdicts /\ Tells(h, x) => \E g \in G : Tells(g, x)
       /\ \A x \in Dependents : Wakes(h, x) /\ status[Group(x)] \notin Verdicts => \E g \in G : Wakes(g, x)
  BY <1>13, <1>14
<1>21. h.op \notin {"execute", "generated"}
  BY <1>14
<1>22. Step(t) /\ UNCHANGED <<status, callbacks, notified, rootTold, cancelling>>
  BY <1>8
<1> QED
  BY <1>9, <1>11, <1>12, <1>20, <1>21, <1>22, FramesLive

(* The depender's turn comes.                                               *)
LEMMA DependeeSucceededLive ==
  ASSUME FlowInv, LiveInv, NEW t \in Threads, DependeeSucceeded(t)
  PROVE  LiveInv'
<1>1. PICK h : Takes1(t, h, "completed")
  BY TakesTop DEF DependeeSucceeded
<1>2. h \in Frames /\ h.op = "completed" /\ h \in Now /\ h.on = On(t) /\ h.on[1] = "dependeeCallback"
  BY <1>1, NowFacts DEF Takes1, DependeeSucceeded
<1>3. PICK j \in Dependents : h.on = DependeeCallback(j) /\ On(t)[2] = j
  BY <1>2, FrameFacts, CallbackFacts
<1>4. PICK f \in Frames : /\ f = Execute(Leaf(j), DependerCallback(j))
                          /\ f.op = "execute" /\ f.on = Leaf(j) /\ f.arg = DependerCallback(j)
  <2>1. Leaf(j) \in Objects /\ DependerCallback(j) \in Allowed(Leaf(j)) /\ DependerCallback(j) \in TheCallbacks
    BY Names, AllowedFacts, CallbackFacts, TokensAre
  <2>2. Execute(Leaf(j), DependerCallback(j)) \in Frames
    BY <2>1, FramesMade
  <2> QED
    BY <2>2 DEF Execute, Frame
<1>5. Step(t) /\ UNCHANGED <<status, callbacks, notified, rootTold, cancelling>> /\ Then(t, <<f>>)
  BY <1>3, <1>4 DEF DependeeSucceeded, Step
<1>6. PICK G : G = {f} /\ Swaps(h, G)
  BY <1>1, <1>5, OneSwaps
<1>7. \A g \in G : KnowsCaller(g)
  <2>1. Known(DependeeCallback(j))
    BY <1>2, <1>3 DEF LiveInv, CallersKnown, KnowsCaller
  <2>2. Known(DependerCallback(j))
    BY <2>1, CallbackFacts DEF Known
  <2> QED
    BY <2>2, <1>4, <1>6 DEF KnowsCaller
<1>8. ASSUME NEW k \in Tokens, k[1] # "worker", Carries(h, k) PROVE \E g \in G : Carries(g, k)
  BY <1>2, <1>3, <1>4, <1>6, <1>8, TokensAre, CarriesFacts, CallbackFacts
<1>9. /\ \A i \in Jobs : ~Works(h, i)
      /\ \A x \in Dependents : ~Tells(h, x) /\ ~Wakes(h, x) /\ \A i : ~ToCome(h, x, i)
      /\ h.op \notin {"execute", "generated"}
  BY <1>2, <1>3, CallbackFacts DEF Works, Tells, Wakes, ToCome, IsCalled
<1>20. /\ \A i \in Jobs : Works(h, i) => \E g \in G : Works(g, i)
       /\ \A x \in Dependents : \A i \in DOMAIN Dependees[x] :
            ToCome(h, x, i) /\ status[Group(x)] \notin Verdicts =>
            \E g \in G : ToCome(g, x, i) \/ IsCalled(g, x, Dependees[x][i])
       /\ \A x \in Dependents : Open(x) /\ status[Group(x)] \in Verdicts /\ Tells(h, x) => \E g \in G : Tells(g, x)
       /\ \A x \in Dependents : Wakes(h, x) /\ status[Group(x)] \notin Verdicts => \E g \in G : Wakes(g, x)
  BY <1>9
<1> QED
  BY <1>5, <1>6, <1>7, <1>8, <1>9, <1>20, FramesLive

(* The caller of the root is told.                                          *)
LEMMA RootCompletedLive ==
  ASSUME FlowInv, LiveInv, NEW t \in Threads, RootCompleted(t)
  PROVE  LiveInv'
<1>1. PICK h : Takes1(t, h, "completed")
  BY TakesTop DEF RootCompleted
<1>2. h \in Frames /\ h.op = "completed" /\ h.on = RootCallback /\ h.arg = Arg(t) /\ h.arg \in Verdicts
  BY <1>1, FrameFacts DEF Takes1, RootCompleted
<1>3. Step(t) /\ UNCHANGED <<status, callbacks, notified, cancelling>> /\ Then(t, <<>>)
      /\ rootTold' = Append(rootTold, h.arg)
  BY <1>2 DEF RootCompleted, Step
<1>4. PICK G : G = {} /\ Swaps(h, G)
  BY <1>1, <1>3, PopSwaps
<1>5. rootTold' # <<>>
  BY <1>2, <1>3 DEF FlowInv, Shapes
<1>6. PICK o \in Objects : o = FlowOf(Root)
  BY Names, TokensAre
<1>7. Only(o) /\ FlowInv' /\ o[1] # "group"
  BY <1>3, <1>6, StepKeepsInv, Names, TokensAre DEF Only, FlowInv, Shapes, FlowOf
<1>8. CallersKnown'
  BY <1>3, <1>4, <1>7, CallersStep DEF LiveInv
<1>9. RunningIsAsked'
  <2>1. /\ \A j \in Jobs : status[Leaf(j)] = "RUNNING" => callbacks[Leaf(j)] # <<>>
        /\ \A j \in Jobs : ~Works(h, j)
    BY <1>2 DEF LiveInv, RunningIsAsked, Works
  <2> QED
    BY <2>1, <1>3, <1>4, <1>7, RunningStep DEF LiveInv
<1>10. NoTokenLost'
  <2>1. ASSUME NEW k \in Tokens, k[1] # "worker", Carries(h, k) \/ Slots(k) # {}
        PROVE  Slots(k)' # {}
    <3>1. CASE \E j \in Dependents : k = Flow(j)
      <4>1. PICK j \in Dependents : k = Flow(j)
        BY <3>1
      <4>2. ~Carries(h, Flow(j))
        BY <1>2, CarriesFacts, CallbackFacts
      <4> QED
        BY <2>1, <4>1, <4>2, <1>2, <1>3, <1>4, FlowHeld
    <3>2. CASE k = Caller
      BY <3>2, <1>5, CallerSlots
    <3>3. \A j \in Jobs : k # Worker(j)
      BY <2>1 DEF Worker
    <3> QED
      BY <3>1, <3>2, <3>3, TokensAre
  <2> QED
    BY <2>1, <1>4, TokensStep DEF LiveInv
<1>11. /\ \A x \in Dependents : ~Tells(h, x) /\ ~Wakes(h, x) /\ \A i : ~ToCome(h, x, i)
       /\ \A x \in Dependents : \A d \in Jobs : ~IsCalled(h, x, d)
       /\ \A x \in Dependents : Open(x)' <=> Open(x)
  BY <1>2, <1>3, CallbackFacts DEF Tells, Wakes, ToCome, IsCalled, Open, Group
<1>12. DependeesAwaited'
  BY <1>3, <1>4, <1>7, <1>11, AwaitsStep DEF LiveInv
<1>13. VerdictsComing'
  BY <1>3, <1>4, <1>11, VerdictsStep DEF LiveInv
<1>14. EndsComing'
  <2>1. status[o] # "RUNNING" \/ status'[o] \notin Finished
    BY <1>3 DEF Finished, Good
  <2> QED
    BY <2>1, <1>3, <1>4, <1>7, <1>11, EndsStep DEF LiveInv
<1>15. CancellerWaits'
  BY <1>3, CancellerStep DEF LiveInv
<1> QED
  BY <1>8, <1>9, <1>10, <1>12, <1>13, <1>14, <1>15 DEF LiveInv

-----------------------------------------------------------------------------
(* Whom the list of a depender's leaf, and of a group, names.               *)
LEMMA ListsName ==
  ASSUME NEW j \in Dependents
  PROVE  /\ \A list \in Lists(Leaf(j)) : list # <<>> => DependerCallback(j) \in RangeOf(list)
         /\ \A list \in Lists(Group(j)) : list # <<>> => DependeeCallback(j) \in RangeOf(list)
<1>1. Leaf(j) \in Objects /\ Group(j) \in Objects
  BY Names, TokensAre
<1>2. ASSUME NEW o \in {Leaf(j), Group(j)}, NEW list \in Lists(o), list # <<>>
      PROVE  \E c \in Allowed(o) : c \in RangeOf(list)
  <2>1. list \in Seq(TheCallbacks) /\ \A i \in DOMAIN list : list[i] \in Allowed(o)
    BY <1>1, <1>2, ListSingle
  <2>2. 1 \in DOMAIN list
    BY <2>1, <1>2
  <2> QED
    BY <2>1, <2>2 DEF RangeOf
<1>3. Allowed(Leaf(j)) = {DependerCallback(j)} /\ Allowed(Group(j)) = {DependeeCallback(j)}
  BY AllowedFacts
<1> QED
  BY <1>2, <1>3

(* What a step leaves of the groups that writes another object.             *)
LEMMA GroupsHeld ==
  ASSUME NEW o \in Objects, Only(o), o[1] # "group", notified' = notified
  PROVE  \A j \in Dependents :
           /\ status'[Group(j)] = status[Group(j)] /\ callbacks'[Group(j)] = callbacks[Group(j)]
           /\ Open(j)' <=> Open(j)
<1>1. ASSUME NEW j \in Dependents
      PROVE  status'[Group(j)] = status[Group(j)] /\ callbacks'[Group(j)] = callbacks[Group(j)]
  <2>1. Group(j) \in Objects /\ Group(j)[1] = "group"
    BY Names, TokensAre
  <2> QED
    BY <2>1 DEF Only
<1> QED
  BY <1>1 DEF Open, Group

(* A job ends, and its leaf gives away its list.                            *)
LEMMA JobEndsLive ==
  ASSUME FlowInv, LiveInv, NEW t \in Threads, Step(t), NEW op \in {"load", "running", "generated"},
         NEW h, Takes1(t, h, op), NEW j \in Jobs, h.on = Leaf(j), NEW s \in Verdicts,
         status' = [status EXCEPT ![Leaf(j)] = s], NEW list, list = callbacks[Leaf(j)],
         Then(t, <<CallCallbacks(j, list)>>), UNCHANGED <<callbacks, notified, rootTold, cancelling>>
  PROVE  LiveInv'
<1>1. PICK o \in Objects : o = Leaf(j)
  BY Names
<1>2. /\ Only(o) /\ FlowInv' /\ o[1] = "leaf" /\ status'[o] = s /\ s \in Finished /\ s # "RUNNING"
      /\ callbacks' = callbacks /\ list \in Lists(o) /\ list \in Seq(TheCallbacks)
  BY <1>1, StepKeepsInv, Names
  DEF Only, FlowInv, Shapes, ShapeOf, Verdicts, Status, Finished, Good
<1>3. PICK f \in Frames : f = CallCallbacks(j, list) /\ f.op = "callCallbacks" /\ f.arg = list
  <2>1. CallCallbacks(j, list) \in Frames
    BY <1>1, <1>2, FramesMade
  <2> QED
    BY <2>1 DEF CallCallbacks, Frame
<1>4. PICK G : G = {f} /\ Swaps(h, G)
  BY <1>3, OneSwaps
<1>5. h.op = op
  BY DEF Takes1
<1>6. \A x \in Dependents : /\ status'[Group(x)] = status[Group(x)]
                            /\ Open(x)' <=> Open(x)
  BY <1>2, GroupsHeld
<1>7. CallersKnown'
  <2>1. \A i \in DOMAIN list : Known(list[i])
    BY <1>1 DEF LiveInv, CallersKnown
  <2>2. \A g \in G : KnowsCaller(g)'
    BY <2>1, <1>2, <1>3, <1>4 DEF KnowsCaller, Known
  <2> QED
    BY <2>2, <1>2, <1>4, CallersStep DEF LiveInv
<1>8. RunningIsAsked'
  <2>1. \A i \in Jobs : Leaf(i) = o => status'[Leaf(i)] # "RUNNING"
    BY <1>2
  <2>2. \A i \in Jobs : Works(h, i) => Leaf(i) = o
    BY <1>1 DEF Works
  <2> QED
    BY <2>1, <2>2, <1>2, <1>4, RunningStep DEF LiveInv
<1>9. NoTokenLost'
  <2>1. ASSUME NEW x \in Dependents, Slots(Flow(x)) # {}
        PROVE  Slots(Flow(x))' # {} \/ Carries(f, Flow(x))
    <3>1. Leaf(x) \in Objects /\ Composed(x) \in Objects /\ (Leaf(x) = Leaf(j) => x = j) /\ Composed(x) # o
      BY <1>1, Names, TokensAre
    <3>2. CASE x = j
      <4>1. status'[Composed(x)] = status[Composed(x)]
        BY <3>1, <1>2 DEF Only
      <4>2. PICK r : r \in Slots(Flow(x))
        BY <2>1
      <4>3. CASE r = "leaf"
        <5>1. list # <<>>
          BY <3>2, <4>2, <4>3, FlowSlots
        <5>2. DependerCallback(x) \in RangeOf(list)
          BY <5>1, <1>1, <1>2, <3>2, ListsName
        <5> QED
          BY <5>2, <1>3, CarriesFacts DEF RangeOf
      <4>4. CASE r # "leaf"
        <5>1. r \in Slots(Flow(x))'
          BY <4>1, <4>2, <4>4, FlowSlots
        <5> QED
          BY <5>1
      <4> QED
        BY <4>3, <4>4
    <3>3. CASE x # j
      <4>1. status'[Leaf(x)] = status[Leaf(x)] /\ status'[Composed(x)] = status[Composed(x)]
            /\ ~(h.op = "generated" /\ h.on = Leaf(x))
        BY <1>1, <1>2, <3>1, <3>3 DEF Only
      <4> QED
        BY <2>1, <4>1, <1>4, FlowHeld
    <3> QED
      BY <3>2, <3>3
  <2>2. Slots(Caller) # {} => Slots(Caller)' # {} \/ Carries(f, Caller)
    <3> SUFFICES ASSUME Slots(Caller) # {}
                 PROVE  Slots(Caller)' # {} \/ Carries(f, Caller)
      OBVIOUS
    <3>1. FlowOf(Root) \in Objects
      BY Names, TokensAre
    <3>2. CASE FlowOf(Root) = o
      <4>1. PICK r : r \in Slots(Caller)
        OBVIOUS
      <4>2. CASE r = "done"
        <5>1. rootTold' = rootTold /\ rootTold # <<>>
          BY <4>1, <4>2, CallerSlots
        <5>2. "done" \in Slots(Caller)'
          BY <5>1, CallerSlots
        <5> QED
          BY <5>2
      <4>3. CASE r # "done"
        <5>1. RootCallback \in RangeOf(list)
          BY <1>1, <3>2, <4>1, <4>3, CallerSlots
        <5>2. \E i \in DOMAIN list : list[i] = RootCallback
          BY <5>1 DEF RangeOf
        <5> QED
          BY <5>2, <1>3, CarriesFacts
      <4> QED
        BY <4>2, <4>3
    <3>3. CASE FlowOf(Root) # o
      <4>1. status'[FlowOf(Root)] = status[FlowOf(Root)] /\ ~(h.op = "generated" /\ h.on = FlowOf(Root))
        BY <1>1, <1>2, <3>1, <3>3 DEF Only
      <4> QED
        BY <4>1, <1>2, <1>4, CallerHeld
    <3> QED
      BY <3>2, <3>3
  <2>3. \A k \in Tokens : k[1] # "worker" => ~Carries(h, k)
    BY <1>5 DEF Carries
  <2>4. \A k \in Tokens : k[1] # "worker" => (\E x \in Dependents : k = Flow(x)) \/ k = Caller
    BY TokensAre DEF Worker
  <2>5. \A k \in Tokens : k[1] # "worker" /\ (Carries(h, k) \/ Slots(k) # {}) =>
           Slots(k)' # {} \/ \E g \in G : Carries(g, k)
    BY <2>1, <2>2, <2>3, <2>4, <1>4
  <2> QED
    BY <2>5, <1>4, TokensStep DEF LiveInv
<1>10. \A x : ~Tells(h, x) /\ (\A d : ~IsCalled(h, x, d)) /\ (\A i : ~ToCome(h, x, i))
  BY <1>5 DEF Tells, IsCalled, ToCome
<1>11. DependeesAwaited'
  <2>1. \A x \in Dependents : /\ status[Group(x)] \in Verdicts => status'[Group(x)] \in Verdicts
                              /\ ~(callbacks[Group(x)] = <<>> /\ callbacks'[Group(x)] # <<>>)
    BY <1>2, <1>6
  <2>2. \A x \in Dependents : /\ \A d \in Jobs : ~IsCalled(h, x, d)
                              /\ \A i \in DOMAIN Dependees[x] : ~ToCome(h, x, i)
    BY <1>10
  <2>3. status'[o] \in Finished
    BY <1>2
  <2> QED
    BY <2>1, <2>2, <2>3, <1>2, <1>4, AwaitsStep DEF LiveInv
<1>12. VerdictsComing'
  BY <1>4, <1>6, <1>10, VerdictsStep DEF LiveInv
<1>13. EndsComing'
  <2>1. \A x \in Dependents : GroupCallback(x, 1) \in RangeOf(list) => Wakes(f, x)'
    BY <1>3 DEF Wakes, GroupCallback
  <2>2. \A x \in Dependents : Wakes(h, x) => GroupCallback(x, 1) \in RangeOf(list)
    BY <1>5, <1>10 DEF Wakes
  <2>3. f \in G /\ list = callbacks[o] /\ callbacks'[o] = callbacks[o]
    BY <1>1, <1>2, <1>4
  <2>4. \A x \in Dependents : callbacks'[Group(x)] = callbacks[Group(x)]
    BY <1>2
  <2> QED
    BY <2>1, <2>2, <2>3, <2>4, <1>2, <1>4, <1>6, EndsStep DEF LiveInv
<1>14. CancellerWaits'
  BY CancellerStep DEF LiveInv
<1> QED
  BY <1>7, <1>8, <1>9, <1>11, <1>12, <1>13, <1>14 DEF LiveInv

(* A job that cannot be loaded, or throws, or whose properties are set.     *)
LEMMA JobReportsLive ==
  ASSUME FlowInv, LiveInv, Careful, NEW t \in Threads, JobMissing(t) \/ JobThrows(t) \/ SetReturnProps(t)
  PROVE  LiveInv'
<1>1. PICK op \in {"load", "running", "generated"} :
        /\ Doing(t, op)
        /\ op = "generated" => SetReturnProps(t)
        /\ op # "generated" => JobMissing(t) \/ JobThrows(t)
  BY DEF JobMissing, JobThrows, SetReturnProps
<1>2. PICK h : Takes1(t, h, op)
  BY <1>1, TakesTop
<1>3. h \in Frames /\ h.op = op /\ h.on = On(t) /\ Says(h)
  BY <1>2 DEF Takes1
<1>4. PICK j \in Jobs : h.on = Leaf(j) /\ On(t) = Leaf(j) /\ On(t)[2] = j /\ Leaf(j) \in Objects
  BY <1>3, FrameFacts, Names DEF Leaves
<1>5. PICK list, s : list = callbacks[Leaf(j)] /\ s = IF op = "generated" THEN "SUCCEEDED" ELSE "FAILED"
  OBVIOUS
<1>6. s \in Verdicts /\ Step(t)
  BY <1>5 DEF Verdicts, Step
<1>7. status' = [status EXCEPT ![Leaf(j)] = s]
  <2>1. CASE op = "generated"
    <3>1. status[Leaf(j)] = "SUCCEEDED" /\ status' = status /\ status \in [Objects -> Status]
      BY <1>1, <1>3, <1>4, <2>1 DEF Says, SaysOfLeaf, SetReturnProps, FlowInv, Shapes
    <3> QED
      BY <2>1, <3>1, <1>4, <1>5
  <2>2. CASE op # "generated"
    BY <2>2, <1>1, <1>4, <1>5 DEF JobMissing, JobThrows, SetStatus
  <2> QED
    BY <2>1, <2>2
<1>8. Then(t, <<CallCallbacks(j, list)>>) /\ UNCHANGED <<callbacks, notified, rootTold, cancelling>>
  BY <1>4, <1>5 DEF JobMissing, JobThrows, SetReturnProps, Careful
<1> QED
  BY <1>2, <1>4, <1>5, <1>6, <1>7, <1>8, JobEndsLive

(* run() has returned.                                                      *)
LEMMA JobReturnsLive ==
  ASSUME FlowInv, LiveInv, NEW t \in Threads, JobReturns(t)
  PROVE  LiveInv'
<1>1. PICK h : Takes1(t, h, "running")
  BY TakesTop DEF JobReturns
<1>2. h \in Frames /\ h.op = "running" /\ h.on = On(t) /\ Says(h)
  BY <1>1 DEF Takes1
<1>3. PICK j \in Jobs : h.on = Leaf(j) /\ On(t) = Leaf(j) /\ On(t)[2] = j /\ Leaf(j) \in Objects
  BY <1>2, FrameFacts, Names DEF Leaves
<1>4. PICK o \in Objects : o = Leaf(j)
  BY <1>3
<1>5. Step(t) /\ status' = [status EXCEPT ![o] = "SUCCEEDED"] /\ Then(t, <<Generated(j)>>)
      /\ UNCHANGED <<callbacks, notified, rootTold, cancelling>>
  BY <1>3, <1>4 DEF JobReturns, SetStatus, Step
<1>6. /\ Only(o) /\ FlowInv' /\ o[1] = "leaf" /\ status'[o] = "SUCCEEDED"
      /\ "SUCCEEDED" \in Finished /\ callbacks' = callbacks
  BY <1>3, <1>4, <1>5, StepKeepsInv, Names DEF Only, FlowInv, Shapes, Status, Finished, Good
<1>7. PICK f \in Frames : f = Generated(j) /\ f.op = "generated" /\ f.on = Leaf(j)
  BY FramesMade DEF Generated, Frame
<1>8. PICK G : G = {f} /\ Swaps(h, G)
  BY <1>1, <1>5, <1>7, OneSwaps
<1>9. \A x \in Dependents : /\ status'[Group(x)] = status[Group(x)]
                            /\ Open(x)' <=> Open(x)
  BY <1>5, <1>6, GroupsHeld
<1>10. CallersKnown'
  <2>1. \A g \in G : KnowsCaller(g)'
    BY <1>7, <1>8 DEF KnowsCaller
  <2> QED
    BY <2>1, <1>6, <1>8, CallersStep DEF LiveInv
<1>11. RunningIsAsked'
  <2>1. \A i \in Jobs : Leaf(i) = o => status'[Leaf(i)] # "RUNNING"
    BY <1>6
  <2>2. \A i \in Jobs : Works(h, i) => Leaf(i) = o
    BY <1>2, <1>3, <1>4 DEF Works
  <2> QED
    BY <2>1, <2>2, <1>6, <1>8, RunningStep DEF LiveInv
<1>12. Pending(j)'
  BY <1>7, <1>8, PendingNow DEF Swaps
<1>13. NoTokenLost'
  <2>1. ASSUME NEW x \in Dependents, Slots(Flow(x)) # {}
        PROVE  Slots(Flow(x))' # {}
    <3>1. Leaf(x) \in Objects /\ Composed(x) \in Objects /\ (Leaf(x) = Leaf(j) => x = j) /\ Composed(x) # o
      BY <1>4, Names, TokensAre
    <3>2. status'[Composed(x)] = status[Composed(x)]
      BY <3>1, <1>6 DEF Only
    <3>3. CASE x = j
      <4>1. PICK r : r \in Slots(Flow(x))
        BY <2>1
      <4>2. r \in Slots(Flow(x))'
        BY <3>2, <3>3, <4>1, <1>5, <1>12, FlowSlots
      <4> QED
        BY <4>2
    <3>4. CASE x # j
      <4>1. status'[Leaf(x)] = status[Leaf(x)] /\ ~(h.op = "generated" /\ h.on = Leaf(x))
        BY <1>2, <1>4, <1>6, <3>1, <3>4 DEF Only
      <4> QED
        BY <2>1, <3>2, <4>1, <1>5, <1>8, FlowHeld
    <3> QED
      BY <3>3, <3>4
  <2>2. Slots(Caller) # {} => Slots(Caller)' # {}
    <3> SUFFICES ASSUME Slots(Caller) # {}
                 PROVE  Slots(Caller)' # {}
      OBVIOUS
    <3>1. FlowOf(Root) \in Objects /\ (FlowOf(Root) = Leaf(j) => j = Root /\ Root \notin Dependents)
      BY Names, TokensAre
    <3>2. CASE FlowOf(Root) = o
      <4>1. PICK r : r \in Slots(Caller)
        OBVIOUS
      <4>2. r \in Slots(Caller)'
        BY <3>1, <3>2, <4>1, <1>4, <1>5, <1>12, CallerSlots
      <4> QED
        BY <4>2
    <3>3. CASE FlowOf(Root) # o
      <4>1. status'[FlowOf(Root)] = status[FlowOf(Root)] /\ ~(h.op = "generated" /\ h.on = FlowOf(Root))
        BY <1>2, <1>6, <3>1, <3>3 DEF Only
      <4> QED
        BY <4>1, <1>5, <1>8, CallerHeld
    <3> QED
      BY <3>2, <3>3
  <2>3. \A k \in Tokens : k[1] # "worker" => ~Carries(h, k)
    BY <1>2 DEF Carries
  <2>4. \A k \in Tokens : k[1] # "worker" => (\E x \in Dependents : k = Flow(x)) \/ k = Caller
    BY TokensAre DEF Worker
  <2>5. \A k \in Tokens : k[1] # "worker" /\ (Carries(h, k) \/ Slots(k) # {}) => Slots(k)' # {}
    BY <2>1, <2>2, <2>3, <2>4
  <2> QED
    BY <2>5, <1>8, TokensStep DEF LiveInv
<1>14. \A x : ~Tells(h, x) /\ (\A d : ~IsCalled(h, x, d)) /\ (\A i : ~ToCome(h, x, i)) /\ ~Wakes(h, x)
  BY <1>2 DEF Tells, IsCalled, ToCome, Wakes
<1>15. \A x \in Dependents : /\ status[Group(x)] \in Verdicts => status'[Group(x)] \in Verdicts
                             /\ ~(callbacks[Group(x)] = <<>> /\ callbacks'[Group(x)] # <<>>)
  BY <1>6, <1>9
<1>16. DependeesAwaited'
  <2>1. \A x \in Dependents : /\ \A d \in Jobs : ~IsCalled(h, x, d)
                              /\ \A i \in DOMAIN Dependees[x] : ~ToCome(h, x, i)
    BY <1>14
  <2> QED
    BY <2>1, <1>6, <1>8, <1>15, AwaitsStep DEF LiveInv
<1>17. VerdictsComing'
  BY <1>8, <1>9, <1>14, VerdictsStep DEF LiveInv
<1>18. EndsComing'
  <2>1. \A x \in Dependents : GroupCallback(x, 1) \in RangeOf(callbacks[o]) => Wakes(f, x)'
    BY <1>4, <1>6, <1>7 DEF Wakes, GroupCallback, RangeOf
  <2>2. f \in G /\ callbacks'[o] = callbacks[o]
    BY <1>6, <1>8
  <2> QED
    BY <2>1, <2>2, <1>6, <1>8, <1>9, <1>14, <1>15, EndsStep DEF LiveInv
<1>19. CancellerWaits'
  BY <1>5, CancellerStep DEF LiveInv
<1> QED
  BY <1>10, <1>11, <1>13, <1>16, <1>17, <1>18, <1>19 DEF LiveInv

-----------------------------------------------------------------------------
(* Whom a callback that is given to an object belongs to.                   *)
LEMMA GivenTo ==
  ASSUME NEW o \in Objects
  PROVE  /\ \A j \in Dependents : DependeeCallback(j) \in Allowed(o) => o = Group(j)
         /\ \A j \in Dependents : DependerCallback(j) \in Allowed(o) => o = Leaf(j)
         /\ RootCallback \in Allowed(o) => o = FlowOf(Root)
<1>1. /\ o[2] \in Jobs
      /\ \/ o = Leaf(o[2]) /\ o[2] \notin Dependents
         \/ o = Leaf(o[2]) /\ o[2] \in Dependents
         \/ o = Group(o[2]) /\ o[2] \in Dependents
         \/ o = Composed(o[2]) /\ o[2] \in Dependents
  BY ObjectFacts
<1>2. CASE o = Group(o[2]) /\ o[2] \in Dependents
  <2>1. Allowed(o) = {DependeeCallback(o[2])}
    BY <1>2, AllowedFacts
  <2> QED
    BY <2>1, <1>2, CallbackFacts
<1>3. CASE o = Leaf(o[2]) /\ o[2] \in Dependents
  <2>1. Allowed(o) = {DependerCallback(o[2])}
    BY <1>3, AllowedFacts
  <2> QED
    BY <2>1, <1>3, CallbackFacts
<1>4. CASE (o = Leaf(o[2]) /\ o[2] \notin Dependents) \/ (o = Composed(o[2]) /\ o[2] \in Dependents)
  <2>1. o = FlowOf(o[2])
    BY <1>4 DEF FlowOf
  <2>2. Allowed(o) = Asked(o[2])
    BY <2>1, <1>1, AllowedFacts
  <2>3. \A c \in Allowed(o) : (c = RootCallback /\ o[2] = Root) \/ c[1] = "groupCallback"
    BY <2>2, <1>1, AllowedFacts, CallbackFacts
  <2> QED
    BY <2>1, <2>3, CallbackFacts
<1> QED
  BY <1>1, <1>2, <1>3, <1>4

(* A token whose callback was registered is with the object.                *)
LEMMA RegisteredToken ==
  ASSUME FlowInv, NEW o \in Objects, NEW h, h.op = "execute", h.arg \in Allowed(o),
         status[o] \notin Verdicts, status'[o] = "RUNNING", callbacks'[o] # <<>>,
         h.arg \in RangeOf(callbacks'[o]), notified' = notified,
         NEW k \in Tokens, k[1] # "worker", Carries(h, k)
  PROVE  Slots(k)' # {}
<1>1. CASE \E j \in Dependents : k = Flow(j)
  <2>1. PICK j \in Dependents : k = Flow(j)
    BY <1>1
  <2>2. h.arg \in {DependeeCallback(j), DependerCallback(j)}
    BY <2>1, CarriesFacts
  <2>3. CASE h.arg = DependeeCallback(j)
    <3>1. o = Group(j)
      BY <2>3, GivenTo
    <3>2. ~notified'[j][1]
      BY <3>1 DEF FlowInv, GroupsKnow
    <3>3. "group" \in Slots(Flow(j))'
      BY <3>1, <3>2, FlowSlots
    <3> QED
      BY <2>1, <3>3
  <2>4. CASE h.arg = DependerCallback(j)
    <3>1. o = Leaf(j)
      BY <2>4, GivenTo
    <3>2. Pending(j)'
      BY <3>1, PendingNow, TokensAre
    <3>3. "leaf" \in Slots(Flow(j))'
      BY <3>1, <3>2, FlowSlots
    <3> QED
      BY <2>1, <3>3
  <2> QED
    BY <2>2, <2>3, <2>4
<1>2. CASE k = Caller
  <2>1. o = FlowOf(Root) /\ h.arg = RootCallback
    BY <1>2, CarriesFacts, GivenTo
  <2>2. Root \notin Dependents => Pending(Root)'
    BY <2>1, PendingNow, TokensAre DEF FlowOf
  <2>3. "flow" \in Slots(Caller)'
    BY <2>1, <2>2, CallerSlots DEF FlowOf
  <2> QED
    BY <1>2, <2>3
<1>3. \A j \in Jobs : k # Worker(j)
  BY DEF Worker
<1> QED
  BY <1>1, <1>2, <1>3, TokensAre

(* An object is executed that is READY, or RUNNING already.                 *)
LEMMA RegistersLive ==
  ASSUME FlowInv, LiveInv, NEW t \in Threads, Step(t), NEW h, Takes1(t, h, "execute"),
         NEW o, o = h.on, status[o] \in {"READY", "RUNNING"}, status' = [status EXCEPT ![o] = "RUNNING"],
         callbacks' = [callbacks EXCEPT ![o] = Append(@, h.arg)],
         UNCHANGED <<notified, rootTold, cancelling>>, NEW G, Swaps(h, G),
         \A g \in G : KnowsCaller(g)',
         \A j \in Jobs : status[o] = "READY" /\ o = Leaf(j) => \E g \in G : Works(g, j),
         \A j \in Dependents : status[o] = "READY" /\ o = Group(j) =>
            \A i \in DOMAIN Dependees[j] : \E g \in G : ToCome(g, j, i),
         \A j \in Dependents : status[o] = "READY" /\ o = Composed(j) => \E g \in G : Carries(g, Flow(j))
  PROVE  LiveInv'
<1>1. /\ h \in Frames /\ h.op = "execute" /\ h.arg \in TheCallbacks /\ h \in Now
      /\ o \in Objects /\ h.arg \in Allowed(o)
  BY FrameFacts, NowFacts DEF Takes1
<1>2. /\ callbacks'[o] # <<>>
      /\ RangeOf(callbacks'[o]) = RangeOf(callbacks[o]) \cup {h.arg}
      /\ o[1] = "group" => callbacks[o] = <<>>
  BY <1>1, Registers DEF FlowInv, Shapes
<1>3. Only(o) /\ FlowInv' /\ status'[o] = "RUNNING"
  BY <1>1, StepKeepsInv DEF Only, FlowInv, Shapes
<1>4. "RUNNING" \notin Finished /\ "RUNNING" \notin Verdicts /\ status[o] \notin Finished /\ status[o] \notin Verdicts
  BY DEF Finished, Good, Verdicts
<1>5. CallersKnown'
  <2>1. Known(h.arg)
    BY <1>1 DEF LiveInv, CallersKnown, KnowsCaller
  <2>2. \A c \in RangeOf(callbacks'[o]) : c \in RangeOf(callbacks[o]) \/ (Known(c) /\ c \in TheCallbacks)
    BY <2>1, <1>1, <1>2
  <2> QED
    BY <2>2, <1>1, <1>2, <1>3, CallersStep DEF LiveInv
<1>6. RunningIsAsked'
  <2>1. \A j \in Jobs : ~Works(h, j)
    BY <1>1 DEF Works
  <2> QED
    BY <2>1, <1>1, <1>2, <1>3, RunningStep DEF LiveInv
<1>7. NoTokenLost'
  <2>1. \A k \in Tokens : k[1] # "worker" /\ Carries(h, k) => Slots(k)' # {}
    BY <1>1, <1>2, <1>3, <1>4, RegisteredToken
  <2>2. ASSUME NEW j \in Dependents, Slots(Flow(j)) # {}
        PROVE  Slots(Flow(j))' # {} \/ \E g \in G : Carries(g, Flow(j))
    <3>1. Leaf(j) \in Objects /\ Group(j) \in Objects /\ Composed(j) \in Objects
      BY Names, TokensAre
    <3>2. /\ status[Leaf(j)] = "RUNNING" => status'[Leaf(j)] = "RUNNING"
          /\ callbacks[Leaf(j)] # <<>> => callbacks'[Leaf(j)] # <<>>
          /\ callbacks[Group(j)] # <<>> => callbacks'[Group(j)] # <<>>
          /\ notified'[j] = notified[j]
          /\ ~(h.op = "generated" /\ h.on = Leaf(j))
      BY <3>1, <1>1, <1>2, <1>3 DEF Only
    <3>3. CASE o = Composed(j) /\ status[o] = "READY"
      BY <3>3
    <3>4. CASE ~(o = Composed(j) /\ status[o] = "READY")
      <4>1. status'[Composed(j)] = status[Composed(j)]
        BY <3>1, <3>4, <1>1, <1>3 DEF Only
      <4> QED
        BY <2>2, <3>2, <4>1, FlowHeld
    <3> QED
      BY <3>3, <3>4
  <2>3. Slots(Caller) # {} => Slots(Caller)' # {}
    <3>1. FlowOf(Root) \in Objects
      BY Names, TokensAre
    <3>2. /\ status[FlowOf(Root)] = "RUNNING" => status'[FlowOf(Root)] = "RUNNING"
          /\ RangeOf(callbacks[FlowOf(Root)]) \subseteq RangeOf(callbacks'[FlowOf(Root)])
          /\ ~(h.op = "generated" /\ h.on = FlowOf(Root))
          /\ rootTold # <<>> => rootTold' # <<>>
      BY <3>1, <1>1, <1>2, <1>3 DEF Only
    <3> QED
      BY <3>2, CallerHeld
  <2>4. \A k \in Tokens : k[1] # "worker" => (\E x \in Dependents : k = Flow(x)) \/ k = Caller
    BY TokensAre DEF Worker
  <2>5. \A k \in Tokens : k[1] # "worker" /\ (Carries(h, k) \/ Slots(k) # {}) =>
           Slots(k)' # {} \/ \E g \in G : Carries(g, k)
    BY <2>1, <2>2, <2>3, <2>4
  <2> QED
    BY <2>5, TokensStep DEF LiveInv
<1>8. ASSUME NEW x \in Dependents
      PROVE  /\ status[Group(x)] \in Verdicts => status'[Group(x)] \in Verdicts
             /\ status'[Group(x)] \in Verdicts => status[Group(x)] \in Verdicts
             /\ Open(x)' => callbacks[Group(x)] = <<>> \/ Open(x)
             /\ callbacks[Group(x)] = <<>> /\ callbacks'[Group(x)] # <<>> => o = Group(x)
             /\ status'[Group(x)] \in Verdicts => Group(x) # o
  <2>1. Group(x) \in Objects
    BY Names, TokensAre
  <2>2. Open(x)' <=> callbacks'[Group(x)] # <<>> /\ ~notified[x][1]
    BY DEF Open, Group
  <2> QED
    BY <2>1, <2>2, <1>1, <1>3, <1>4 DEF Only, Open
<1>9. ASSUME NEW x \in Dependents, callbacks[Group(x)] = <<>>, callbacks'[Group(x)] # <<>>
      PROVE  \A i \in DOMAIN Dependees[x] : \E g \in G : ToCome(g, x, i)
  <2>1. o = Group(x)
    BY <1>8, <1>9
  <2>2. status[o] # "RUNNING"
    BY <2>1, <1>9 DEF LiveInv, RunningIsAsked
  <2> QED
    BY <2>1, <2>2
<1>10. DependeesAwaited'
  <2>1. ASSUME NEW x \in Dependents, NEW d \in Jobs, IsCalled(h, x, d)
        PROVE  status'[FlowOf(d)] = "RUNNING" /\ GroupCallback(x, 1) \in RangeOf(callbacks'[FlowOf(d)])
    BY <2>1, <1>2, <1>3 DEF IsCalled
  <2>2. \A x, i : ~ToCome(h, x, i)
    BY <1>1 DEF ToCome
  <2>3. status[o] = "RUNNING" => status'[o] = "RUNNING" /\ RangeOf(callbacks[o]) \subseteq RangeOf(callbacks'[o])
    BY <1>2, <1>3
  <2> QED
    BY <2>1, <2>2, <2>3, <1>1, <1>3, <1>4, <1>8, <1>9, AwaitsStep DEF LiveInv
<1>11. VerdictsComing'
  <2>1. ASSUME NEW x \in Dependents, Open(x)', status'[Group(x)] \in Verdicts
        PROVE  Open(x) /\ status[Group(x)] \in Verdicts /\ ~Tells(h, x)
    <3>1. callbacks[Group(x)] # <<>>
      BY <2>1, <1>8 DEF Open, Group
    <3> QED
      BY <2>1, <3>1, <1>1, <1>8 DEF Tells
  <2> QED
    BY <2>1, VerdictsStep DEF LiveInv
<1>12. EndsComing'
  <2>1. ASSUME NEW x \in Dependents, Wakes(h, x), AllEnded(x)'
        PROVE  FALSE
    <3>1. PICK d \in RangeOf(Dependees[x]) : IsCalled(h, x, d)
      BY <2>1, <1>1 DEF Wakes, ToCome
    <3>2. status'[FlowOf(d)] = "RUNNING"
      BY <3>1, <1>3 DEF IsCalled
    <3>3. \A e \in RangeOf(Dependees[x]) : status'[FlowOf(e)] \in Finished
      BY <2>1 DEF AllEnded, FlowOf, Composed, Leaf, Dependents
    <3> QED
      BY <3>2, <3>3, <1>4
  <2>2. RangeOf(callbacks[o]) \subseteq RangeOf(callbacks'[o]) /\ status'[o] \notin Finished
    BY <1>2, <1>3, <1>4
  <2> QED
    BY <2>1, <2>2, <1>1, <1>3, <1>8, <1>9, EndsStep DEF LiveInv
<1>13. CancellerWaits'
  BY CancellerStep DEF LiveInv
<1> QED
  BY <1>5, <1>6, <1>7, <1>10, <1>11, <1>12, <1>13 DEF LiveInv

(* An object is executed again.                                             *)
LEMMA ExecuteRunningLive ==
  ASSUME FlowInv, LiveInv, NEW t \in Threads, ExecuteRunning(t)
  PROVE  LiveInv'
<1>1. PICK h : Takes1(t, h, "execute")
  BY TakesTop DEF ExecuteRunning
<1>2. PICK o \in Objects : o = h.on /\ o = On(t)
  BY <1>1, FrameFacts DEF Takes1
<1>3. /\ Step(t) /\ status[o] = "RUNNING" /\ status' = status /\ h.arg = Arg(t) /\ Then(t, <<>>)
      /\ callbacks' = [callbacks EXCEPT ![o] = Append(@, h.arg)]
      /\ UNCHANGED <<notified, rootTold, cancelling>>
  BY <1>1, <1>2 DEF ExecuteRunning, Step, Takes1
<1>4. status' = [status EXCEPT ![o] = "RUNNING"]
  BY <1>3 DEF FlowInv, Shapes
<1>5. PICK G : G = {} /\ Swaps(h, G)
  BY <1>1, <1>3, PopSwaps
<1>6. /\ \A g \in G : KnowsCaller(g)'
      /\ \A x \in Jobs : status[o] = "READY" /\ o = Leaf(x) => \E g \in G : Works(g, x)
      /\ \A x \in Dependents : status[o] = "READY" /\ o = Group(x) =>
           \A i \in DOMAIN Dependees[x] : \E g \in G : ToCome(g, x, i)
      /\ \A x \in Dependents : status[o] = "READY" /\ o = Composed(x) => \E g \in G : Carries(g, Flow(x))
  BY <1>3, <1>5
<1>7. status[o] \in {"READY", "RUNNING"} /\ o = h.on
  BY <1>2, <1>3
<1>8. Step(t) /\ UNCHANGED <<notified, rootTold, cancelling>>
  BY <1>3
<1>9. callbacks' = [callbacks EXCEPT ![o] = Append(@, h.arg)]
  BY <1>3
<1> QED
  BY <1>1, <1>4, <1>5, <1>6, <1>7, <1>8, <1>9, RegistersLive

(* An object is executed for the first time.                                *)
LEMMA ExecuteReadyLive ==
  ASSUME FlowInv, LiveInv, NEW t \in Threads, ExecuteReady(t)
  PROVE  LiveInv'
<1>1. PICK h : Takes1(t, h, "execute")
  BY TakesTop DEF ExecuteReady
<1>2. PICK o \in Objects : o = h.on /\ o = On(t)
  BY <1>1, FrameFacts DEF Takes1
<1>3. /\ Step(t) /\ status[o] = "READY" /\ status' = [status EXCEPT ![o] = "RUNNING"]
      /\ callbacks' = [callbacks EXCEPT ![o] = Append(@, h.arg)] /\ Then(t, Body(o))
      /\ UNCHANGED <<notified, rootTold, cancelling>>
  BY <1>1, <1>2 DEF ExecuteReady, Step, Takes1, SetStatus
<1>4. callbacks'[o] # <<>>
  <2>1. status[h.on] \in {"READY", "RUNNING"}
    BY <1>2, <1>3
  <2>2. Append(callbacks[o], h.arg) # <<>>
    BY <1>1, <1>2, <2>1, Registers
  <2> QED
    BY <1>2, <1>3, <2>2 DEF FlowInv, Shapes
<1>5. PICK j \in Jobs : /\ j = o[2]
                        /\ \/ o[1] = "leaf" /\ o = Leaf(j)
                           \/ o[1] = "group" /\ j \in Dependents /\ o = Group(j)
                           \/ o[1] = "composed" /\ j \in Dependents /\ o = Composed(j)
  BY <1>2, ObjectFacts
<1>6. PICK f \in Frames :
        /\ Body(o) = <<f>>
        /\ o[1] = "leaf" => f.op = "load" /\ f.on = Leaf(j)
        /\ o[1] = "group" => f.op = "children" /\ f.on = Group(j) /\ f.arg = 1
        /\ o[1] = "composed" => f.op = "execute" /\ f.on = Group(j) /\ f.arg = DependeeCallback(j)
  <2>1. CASE o[1] = "leaf"
    <3>1. Body(o) = <<Load(j)>> /\ Load(j) \in Frames
      BY <2>1, <1>5, FramesMade DEF Body
    <3> QED
      BY <3>1, <2>1 DEF Load, Frame
  <2>2. CASE o[1] = "group"
    <3>1. Body(o) = <<Children(j, 1)>> /\ Children(j, 1) \in Frames
      BY <2>2, <1>5, FramesMade DEF Body
    <3> QED
      BY <3>1, <2>2 DEF Children, Frame
  <2>3. CASE o[1] = "composed"
    <3>1. Group(j) \in Objects /\ DependeeCallback(j) \in Allowed(Group(j)) /\ DependeeCallback(j) \in TheCallbacks
      BY <2>3, <1>5, Names, AllowedFacts, CallbackFacts
    <3>2. Body(o) = <<Execute(Group(j), DependeeCallback(j))>> /\ Execute(Group(j), DependeeCallback(j)) \in Frames
      BY <2>3, <3>1, <1>5, FramesMade DEF Body
    <3> QED
      BY <3>2, <2>3 DEF Execute, Frame
  <2> QED
    BY <2>1, <2>2, <2>3, <1>5
<1>7. PICK G : G = {f} /\ Swaps(h, G)
  <2>1. Then(t, <<f>>)
    BY <1>3, <1>6
  <2> QED
    BY <1>1, <2>1, OneSwaps
<1>8. \A g \in G : KnowsCaller(g)'
  <2>1. CASE o[1] = "leaf"
    BY <2>1, <1>6, <1>7 DEF KnowsCaller
  <2>2. CASE o[1] = "group"
    BY <2>2, <1>4, <1>5, <1>6, <1>7 DEF KnowsCaller
  <2>3. CASE o[1] = "composed"
    <3>1. j \in Dependents /\ callbacks'[Composed(j)] # <<>>
      BY <2>3, <1>4, <1>5
    <3>2. Known(DependeeCallback(j))'
      BY <3>1, CallbackFacts DEF Known, Composed
    <3> QED
      BY <3>2, <2>3, <1>6, <1>7 DEF KnowsCaller
  <2> QED
    BY <2>1, <2>2, <2>3, <1>5
<1>9. /\ \A x \in Jobs : o = Leaf(x) => Works(f, x)
      /\ \A x \in Dependents : o = Group(x) => \A i \in DOMAIN Dependees[x] : ToCome(f, x, i)
      /\ \A x \in Dependents : o = Composed(x) => Carries(f, Flow(x))
  <2>1. \A x \in Jobs : o = Leaf(x) => o[1] = "leaf" /\ x = j
    BY <1>5, Names
  <2>2. \A x \in Dependents : o = Group(x) => o[1] = "group" /\ x = j
    BY <1>5, Names, TokensAre
  <2>3. \A x \in Dependents : o = Composed(x) => o[1] = "composed" /\ x = j
    BY <1>5, Names, TokensAre
  <2>4. ASSUME NEW x \in Dependents, o = Group(x), NEW i \in DOMAIN Dependees[x]
        PROVE  ToCome(f, x, i)
    <3>1. i \in Nat /\ 1 <= i
      BY <2>4, FlowConstants, TokensAre
    <3> QED
      BY <3>1, <2>2, <2>4, <1>6 DEF ToCome
  <2> QED
    BY <2>1, <2>3, <2>4, <1>6, CarriesFacts DEF Works
<1>10. /\ \A g \in G : KnowsCaller(g)'
       /\ \A x \in Jobs : status[o] = "READY" /\ o = Leaf(x) => \E g \in G : Works(g, x)
       /\ \A x \in Dependents : status[o] = "READY" /\ o = Group(x) =>
            \A i \in DOMAIN Dependees[x] : \E g \in G : ToCome(g, x, i)
       /\ \A x \in Dependents : status[o] = "READY" /\ o = Composed(x) => \E g \in G : Carries(g, Flow(x))
  BY <1>7, <1>8, <1>9
<1>11. status[o] \in {"READY", "RUNNING"} /\ o = h.on
  BY <1>2, <1>3
<1>12. Step(t) /\ UNCHANGED <<notified, rootTold, cancelling>>
  BY <1>3
<1>13. callbacks' = [callbacks EXCEPT ![o] = Append(@, h.arg)] /\ status' = [status EXCEPT ![o] = "RUNNING"]
  BY <1>3
<1>14. Swaps(h, G)
  BY <1>7
<1> QED
  BY <1>1, <1>10, <1>11, <1>12, <1>13, <1>14, RegistersLive

(* The callback is called right away by an object that has ended.           *)
LEMMA ExecuteFinishedLive ==
  ASSUME FlowInv, LiveInv, NEW t \in Threads, ExecuteFinished(t)
  PROVE  LiveInv'
<1>1. PICK h : Takes1(t, h, "execute")
  BY TakesTop DEF ExecuteFinished
<1>2. /\ h \in Frames /\ h.op = "execute" /\ h.on \in Objects /\ h.arg \in TheCallbacks /\ h \in Now
      /\ h.on = On(t) /\ h.arg = Arg(t)
  BY <1>1, FrameFacts, NowFacts DEF Takes1
<1>3. PICK o \in Objects, c \in TheCallbacks : o = h.on /\ c = h.arg
  BY <1>2
<1>4. PICK s \in Verdicts : s = IF status[o] = "FAILED" THEN "FAILED" ELSE "SUCCEEDED"
  BY DEF Verdicts
<1>5. PICK told \in Frames : told = Completed(c, s) /\ told.op = "completed" /\ told.on = c
  <2>1. Completed(c, s) \in Frames
    BY FramesMade
  <2> QED
    BY <2>1 DEF Completed, Frame
<1>6. PICK rel \in Frames : rel = Release(o) /\ rel.op = "release"
  BY FramesMade DEF Release, Frame
<1>7. /\ Step(t) /\ UNCHANGED <<callbacks, notified, rootTold, cancelling>>
      /\ status[o] \in Finished \/ (status[o] = "IGNORED" /\ o[1] # "composed")
      /\ SetStatus(o, IF status[o] = "IGNORED" /\ o[1] = "leaf" THEN "COMPLETED" ELSE status[o])
      /\ Then(t, <<told>>) \/ Then(t, <<told, rel>>)
  BY <1>2, <1>3, <1>4, <1>5, <1>6 DEF ExecuteFinished, Step
<1>8. \E G : Swaps(h, G) /\ told \in G /\ G \subseteq {told, rel}
  <2>1. CASE Then(t, <<told>>)
    <3>1. PICK G : G = {told} /\ Swaps(h, G)
      BY <1>1, <2>1, OneSwaps
    <3> QED
      BY <3>1
  <2>2. CASE Then(t, <<told, rel>>)
    <3>1. PICK G : G = {told, rel} /\ Swaps(h, G)
      BY <1>1, <2>2, TwoSwaps
    <3> QED
      BY <3>1
  <2> QED
    BY <2>1, <2>2, <1>7
<1>9. PICK G : Swaps(h, G) /\ told \in G /\ G \subseteq {told, rel}
  BY <1>8
<1>10. /\ Only(o) /\ FlowInv' /\ callbacks' = callbacks
       /\ status'[o] = IF status[o] = "IGNORED" /\ o[1] = "leaf" THEN "COMPLETED" ELSE status[o]
  BY <1>7, StepKeepsInv DEF Only, FlowInv, Shapes, SetStatus
<1>11. /\ status[o] # "RUNNING" /\ status'[o] # "RUNNING" /\ status'[o] \in Finished
       /\ o[1] # "leaf" => status'[o] = status[o]
  <2>1. o[1] = "group" => status[o] # "IGNORED"
    BY DEF FlowInv, Shapes, ShapeOf, Verdicts
  <2>2. o[1] \in {"leaf", "group", "composed"}
    BY ObjectFacts
  <2> QED
    BY <2>1, <2>2, <1>7, <1>10 DEF Finished, Good
<1>12. \A x \in Dependents : /\ status'[Group(x)] = status[Group(x)]
                             /\ callbacks'[Group(x)] = callbacks[Group(x)]
                             /\ Open(x)' <=> Open(x)
  <2>1. ASSUME NEW x \in Dependents PROVE status'[Group(x)] = status[Group(x)]
    <3>1. Group(x) \in Objects /\ Group(x)[1] = "group"
      BY Names, TokensAre
    <3> QED
      BY <3>1, <1>10, <1>11 DEF Only
  <2> QED
    BY <2>1, <1>7 DEF Open, Group
<1>13. CallersKnown'
  <2>1. Known(c)
    BY <1>2, <1>3 DEF LiveInv, CallersKnown, KnowsCaller
  <2>2. Known(c)'
    BY <2>1, <1>7 DEF Known
  <2>3. \A g \in G : KnowsCaller(g)'
    BY <2>2, <1>5, <1>6, <1>9 DEF KnowsCaller
  <2> QED
    BY <2>3, <1>9, <1>10, CallersStep DEF LiveInv
<1>14. RunningIsAsked'
  <2>1. /\ \A j \in Jobs : ~Works(h, j)
        /\ \A j \in Jobs : o = Leaf(j) => status'[Leaf(j)] # "RUNNING"
    BY <1>2, <1>11 DEF Works
  <2> QED
    BY <2>1, <1>9, <1>10, <1>11, RunningStep DEF LiveInv
<1>15. NoTokenLost'
  <2>1. ASSUME NEW x \in Dependents, Slots(Flow(x)) # {}
        PROVE  Slots(Flow(x))' # {}
    <3>1. Leaf(x) \in Objects /\ Composed(x) \in Objects /\ Composed(x)[1] = "composed"
      BY Names, TokensAre
    <3>2. /\ status[Leaf(x)] = "RUNNING" => status'[Leaf(x)] = "RUNNING"
          /\ status'[Composed(x)] = status[Composed(x)]
      BY <3>1, <1>10, <1>11 DEF Only
    <3> QED
      BY <2>1, <3>2, <1>2, <1>7, <1>9, FlowHeld
  <2>2. Slots(Caller) # {} => Slots(Caller)' # {}
    <3>1. FlowOf(Root) \in Objects
      BY Names, TokensAre
    <3>2. status[FlowOf(Root)] = "RUNNING" => status'[FlowOf(Root)] = "RUNNING"
      BY <3>1, <1>10, <1>11 DEF Only
    <3> QED
      BY <3>2, <1>2, <1>7, <1>9, CallerHeld
  <2>3. ASSUME NEW k \in Tokens, k[1] # "worker", Carries(h, k) PROVE Carries(told, k)
    BY <1>2, <1>3, <1>5, <2>3 DEF Carries
  <2>4. \A k \in Tokens : k[1] # "worker" => (\E x \in Dependents : k = Flow(x)) \/ k = Caller
    BY TokensAre DEF Worker
  <2>5. \A k \in Tokens : k[1] # "worker" /\ (Carries(h, k) \/ Slots(k) # {}) =>
           Slots(k)' # {} \/ \E g \in G : Carries(g, k)
    BY <2>1, <2>2, <2>3, <2>4, <1>9
  <2> QED
    BY <2>5, <1>9, TokensStep DEF LiveInv
<1>16. \A x : ~Tells(h, x) /\ (\A i : ~ToCome(h, x, i))
  BY <1>2 DEF Tells, ToCome
<1>17. DependeesAwaited'
  <2>1. \A x \in Dependents : \A d \in Jobs : IsCalled(h, x, d) => status'[FlowOf(d)] \in Finished
    BY <1>3, <1>11 DEF IsCalled
  <2>2. \A x \in Dependents : /\ status[Group(x)] \in Verdicts => status'[Group(x)] \in Verdicts
                              /\ ~(callbacks[Group(x)] = <<>> /\ callbacks'[Group(x)] # <<>>)
                              /\ \A i \in DOMAIN Dependees[x] : ~ToCome(h, x, i)
    BY <1>12, <1>16
  <2> QED
    BY <2>1, <2>2, <1>9, <1>10, <1>11, AwaitsStep DEF LiveInv
<1>18. VerdictsComing'
  BY <1>9, <1>12, <1>16, VerdictsStep DEF LiveInv
<1>19. EndsComing'
  <2>1. ASSUME NEW x \in Dependents, Wakes(h, x) PROVE Wakes(told, x)'
    <3>1. c = GroupCallback(x, 1)
      BY <2>1, <1>2, <1>3 DEF Wakes, ToCome, IsCalled
    <3> QED
      BY <3>1, <1>5 DEF Wakes, GroupCallback
  <2>2. \A x \in Dependents : Wakes(h, x) => \E g \in G : Wakes(g, x)'
    BY <2>1, <1>9
  <2>3. \A x \in Dependents : /\ status[Group(x)] \in Verdicts => status'[Group(x)] \in Verdicts
                              /\ ~(callbacks[Group(x)] = <<>> /\ callbacks'[Group(x)] # <<>>)
    BY <1>12
  <2> QED
    BY <2>2, <2>3, <1>9, <1>10, <1>11, <1>12, EndsStep DEF LiveInv
<1>20. CancellerWaits'
  BY <1>7, CancellerStep DEF LiveInv
<1> QED
  BY <1>13, <1>14, <1>15, <1>17, <1>18, <1>19, <1>20 DEF LiveInv

(* A group hears of a dependee.                                             *)
LEMMA GroupCompletedLive ==
  ASSUME FlowInv, LiveInv, NEW t \in Threads, GroupCompleted(t)
  PROVE  LiveInv'
<1>1. PICK h : Takes1(t, h, "completed")
  BY TakesTop DEF GroupCompleted
<1>2. h \in Frames /\ h.op = "completed" /\ h \in Now /\ h.on = On(t) /\ h.on[1] = "groupCallback"
  BY <1>1, NowFacts DEF Takes1, GroupCompleted
<1>3. PICK j \in Dependents : h.on = GroupCallback(j, 1) /\ On(t)[2] = j
  BY <1>2, FrameFacts, CallbackFacts
<1>4. PICK o \in Objects : o = Group(j) /\ o[1] = "group"
  BY Names, TokensAre
<1>5. PICK list \in Lists(o) : list = callbacks[o] /\ list \in Seq(TheCallbacks)
  BY DEF FlowInv, Shapes, ShapeOf
<1>6. PICK f \in Frames : f = Verdict(GroupCallback(j, 1), list) /\ f.op = "verdict"
                          /\ f.on = GroupCallback(j, 1) /\ f.arg = list
  <2>1. Verdict(GroupCallback(j, 1), list) \in Frames
    BY <1>4, <1>5, FramesMade
  <2> QED
    BY <2>1 DEF Verdict, Frame
<1>7. Step(t) /\ UpdateState(j) /\ UNCHANGED <<callbacks, notified, rootTold, cancelling>> /\ Then(t, <<f>>)
  BY <1>2, <1>3, <1>4, <1>5, <1>6 DEF GroupCompleted, Step
<1>8. PICK G : G = {f} /\ Swaps(h, G)
  BY <1>1, <1>7, OneSwaps
<1>9. /\ \/ status' = status
         \/ \E s \in Verdicts : status' = [status EXCEPT ![o] = s]
      /\ (\A d \in RangeOf(Dependees[j]) : status[FlowOf(d)] \in Finished) => status'[o] \in Verdicts
  <2>1. status \in [Objects -> Status]
    BY DEF FlowInv, Shapes
  <2> QED
    BY <2>1, <1>4, <1>7 DEF UpdateState, SetStatus, Verdicts, Finished
<1>10. /\ Only(o) /\ FlowInv' /\ callbacks' = callbacks
       /\ status'[o] \in Verdicts \/ status'[o] = status[o]
  BY <1>7, <1>9, StepKeepsInv DEF Only, FlowInv, Shapes
<1>11. callbacks[o] # <<>>
  BY <1>2, <1>3, <1>4, CallbackFacts DEF LiveInv, CallersKnown, KnowsCaller, Known
<1>12. \A x \in Dependents : /\ Group(x) # o => status'[Group(x)] = status[Group(x)]
                             /\ Group(x) = o => x = j
                             /\ Open(x)' <=> Open(x)
  <2>1. ASSUME NEW x \in Dependents
        PROVE  Group(x) \in Objects /\ (Group(x) = o => x = j)
    BY <1>4, Names, TokensAre
  <2> QED
    BY <2>1, <1>7, <1>10 DEF Only, Open, Group
<1>13. CallersKnown'
  <2>1. \A i \in DOMAIN list : Known(list[i])
    BY <1>5 DEF LiveInv, CallersKnown
  <2>2. \A g \in G : KnowsCaller(g)'
    BY <2>1, <1>5, <1>6, <1>7, <1>8, <1>11 DEF KnowsCaller, Known
  <2> QED
    BY <2>2, <1>8, <1>10, CallersStep DEF LiveInv
<1>14. RunningIsAsked'
  <2>1. /\ \A i \in Jobs : ~Works(h, i)
        /\ \A i \in Jobs : Leaf(i) # o
    BY <1>2, <1>4, Names DEF Works
  <2> QED
    BY <2>1, <1>8, <1>10, <1>11, RunningStep DEF LiveInv
<1>15. NoTokenLost'
  <2>1. ASSUME NEW x \in Dependents, Slots(Flow(x)) # {}
        PROVE  Slots(Flow(x))' # {}
    <3>1. Leaf(x) \in Objects /\ Composed(x) \in Objects /\ Leaf(x) # o /\ Composed(x) # o
      BY <1>4, Names, TokensAre
    <3>2. status'[Leaf(x)] = status[Leaf(x)] /\ status'[Composed(x)] = status[Composed(x)]
      BY <3>1, <1>10 DEF Only
    <3> QED
      BY <2>1, <3>2, <1>2, <1>7, <1>8, FlowHeld
  <2>2. Slots(Caller) # {} => Slots(Caller)' # {}
    <3>1. FlowOf(Root) \in Objects /\ FlowOf(Root) # o
      BY <1>4, Names, TokensAre
    <3>2. status'[FlowOf(Root)] = status[FlowOf(Root)]
      BY <3>1, <1>10 DEF Only
    <3> QED
      BY <3>2, <1>2, <1>7, <1>8, CallerHeld
  <2>3. \A k \in Tokens : k[1] # "worker" => ~Carries(h, k)
    BY <1>2, <1>3, TokensAre, CarriesFacts, CallbackFacts DEF Worker
  <2>4. \A k \in Tokens : k[1] # "worker" => (\E x \in Dependents : k = Flow(x)) \/ k = Caller
    BY TokensAre DEF Worker
  <2>5. \A k \in Tokens : k[1] # "worker" /\ (Carries(h, k) \/ Slots(k) # {}) => Slots(k)' # {}
    BY <2>1, <2>2, <2>3, <2>4
  <2> QED
    BY <2>5, <1>8, TokensStep DEF LiveInv
<1>16. /\ \A x : (\A d : ~IsCalled(h, x, d)) /\ (\A i : ~ToCome(h, x, i))
       /\ \A x \in Dependents : Tells(h, x) \/ Wakes(h, x) => x = j
  BY <1>2, <1>3, CallbackFacts DEF Tells, ToCome, IsCalled, Wakes
<1>17. \A x \in Dependents : /\ status[Group(x)] \in Verdicts => status'[Group(x)] \in Verdicts
                             /\ ~(callbacks[Group(x)] = <<>> /\ callbacks'[Group(x)] # <<>>)
  BY <1>10, <1>12
<1>18. DependeesAwaited'
  <2>1. /\ status[o] \in Finished => status'[o] \in Finished
        /\ status[o] = "RUNNING" => \/ status'[o] \in Finished
                                    \/ status'[o] = "RUNNING" /\ RangeOf(callbacks[o]) \subseteq RangeOf(callbacks'[o])
    BY <1>10 DEF Finished, Good, Verdicts
  <2>2. \A x \in Dependents : /\ \A d \in Jobs : ~IsCalled(h, x, d)
                              /\ \A i \in DOMAIN Dependees[x] : ~ToCome(h, x, i)
    BY <1>16
  <2> QED
    BY <2>1, <2>2, <1>8, <1>10, <1>17, AwaitsStep DEF LiveInv
<1>19. VerdictsComing'
  <2>1. Tells(f, j) /\ f \in G
    BY <1>6, <1>8 DEF Tells
  <2> QED
    BY <2>1, <1>8, <1>12, <1>16, VerdictsStep DEF LiveInv
<1>20. EndsComing'
  <2>1. ASSUME NEW x \in Dependents, Wakes(h, x), AllEnded(x)' PROVE status'[Group(x)] \in Verdicts
    <3>1. x = j
      BY <1>16, <2>1
    <3>2. ASSUME NEW d \in RangeOf(Dependees[j]) PROVE status[FlowOf(d)] \in Finished
      <4>1. d \in Jobs
        BY FlowConstants, TokensAre DEF RangeOf
      <4>2. FlowOf(d) \in Objects /\ FlowOf(d) # o
        BY <4>1, <1>4, Names, TokensAre
      <4>3. \A e \in RangeOf(Dependees[j]) : status'[FlowOf(e)] \in Finished
        BY <2>1, <3>1 DEF AllEnded, FlowOf, Composed, Leaf, Dependents
      <4> QED
        BY <4>2, <4>3, <1>10 DEF Only
    <3> QED
      BY <3>1, <3>2, <1>4, <1>9
  <2>2. ASSUME NEW x \in Dependents PROVE GroupCallback(x, 1) \notin RangeOf(callbacks[o])
    <3>1. \A i \in DOMAIN list : list[i] \in Allowed(o)
      BY ListSingle
    <3>2. Allowed(o) = {DependeeCallback(j)}
      BY <1>4, AllowedFacts
    <3> QED
      BY <3>1, <3>2, <1>5, CallbackFacts DEF RangeOf
  <2> QED
    BY <2>1, <2>2, <1>8, <1>10, <1>12, <1>17, EndsStep DEF LiveInv
<1>21. CancellerWaits'
  BY <1>7, CancellerStep DEF LiveInv
<1> QED
  BY <1>13, <1>14, <1>15, <1>18, <1>19, <1>20, <1>21 DEF LiveInv

(* A callback of a group finds out whether to tell.                         *)
LEMMA GroupVerdictLive ==
  ASSUME FlowInv, LiveInv, NEW t \in Threads, GroupVerdict(t)
  PROVE  LiveInv'
<1>1. PICK h : Takes1(t, h, "verdict")
  BY TakesTop DEF GroupVerdict
<1>2. h \in Frames /\ h.op = "verdict" /\ h \in Now /\ h.on = On(t) /\ h.arg = Arg(t)
  BY <1>1, NowFacts DEF Takes1
<1>3. PICK j \in Dependents : /\ h.on = GroupCallback(j, 1) /\ h.on[2] = j /\ h.on[3] = 1
                              /\ h.arg \in Lists(Group(j)) /\ h.arg \in Seq(TheCallbacks)
  BY <1>2, FrameFacts, CallbackFacts
<1>4. PICK o \in Objects : o = Group(j) /\ o[1] = "group"
  BY Names, TokensAre
<1>5. PICK list \in Lists(o) : list = h.arg /\ list \in Seq(TheCallbacks)
  BY <1>3, <1>4
<1>6. PICK final \in BOOLEAN : final = (status[o] \in Verdicts /\ ~notified[j][1])
  OBVIOUS
<1>7. /\ Step(t) /\ UNCHANGED <<status, callbacks, rootTold, cancelling>>
      /\ notified' = [notified EXCEPT ![j][1] = @ \/ final]
      /\ Then(t, IF final THEN CompletedAll(list, status[o]) ELSE <<>>)
  <2>1. On(t) = h.on /\ Arg(t) = list
    BY <1>2, <1>5
  <2>2. On(t)[2] = j /\ On(t)[3] = 1
    BY <2>1, <1>3
  <2>3. final = (status[Group(j)] \in {"SUCCEEDED", "FAILED"} /\ ~notified[j][1])
    BY <1>4, <1>6 DEF Verdicts
  <2> QED
    BY <2>1, <2>2, <2>3, <1>4 DEF GroupVerdict, Step
<1>8. /\ \A x \in Dependents : notified[x] \in {<<b>> : b \in BOOLEAN}
      /\ \A x \in Dependents \ {j} : notified'[x] = notified[x]
      /\ notified'[j][1] = (notified[j][1] \/ final)
  BY <1>7 DEF FlowInv, Shapes
<1>9. list # <<>> /\ \A i \in DOMAIN list : Known(list[i])
  BY <1>2, <1>5 DEF LiveInv, CallersKnown, KnowsCaller
<1>10. \E G : /\ Swaps(h, G)
              /\ ~final => G = {}
              /\ final => /\ \A g \in G : g.op = "completed" /\ g.on \in RangeOf(list)
                          /\ \A c \in RangeOf(list) : \E g \in G : g.op = "completed" /\ g.on = c
  <2>1. CASE final
    <3>1. PICK s \in Verdicts : s = status[o]
      BY <2>1, <1>6
    <3>2. PICK fs, G : fs = CompletedAll(list, s) /\ G = RangeOf(fs)
      OBVIOUS
    <3>3. /\ fs \in Seq(Frames)
          /\ \A g \in G : g.op = "completed" /\ g.arg = s /\ g.on \in RangeOf(list)
          /\ \A c \in RangeOf(list) : \E g \in G : g.op = "completed" /\ g.on = c
      BY <3>2, TellsNow
    <3>4. Then(t, fs)
      BY <2>1, <3>1, <3>2, <1>7
    <3>5. Swaps(h, G)
      BY <1>1, <3>2, <3>3, <3>4, StepSwaps
    <3> QED
      BY <2>1, <3>3, <3>5
  <2>2. CASE ~final
    <3>1. Then(t, <<>>)
      BY <2>2, <1>7
    <3>2. PICK G : G = {} /\ Swaps(h, G)
      BY <1>1, <3>1, PopSwaps
    <3> QED
      BY <2>2, <3>2
  <2> QED
    BY <2>1, <2>2
<1>11. PICK G : /\ Swaps(h, G)
                /\ ~final => G = {}
                /\ final => /\ \A g \in G : g.op = "completed" /\ g.on \in RangeOf(list)
                            /\ \A c \in RangeOf(list) : \E g \in G : g.op = "completed" /\ g.on = c
  BY <1>10
<1>12. Only(o) /\ FlowInv'
  BY <1>7, StepKeepsInv DEF Only, FlowInv, Shapes
<1>13. CallersKnown'
  <2>1. \A d \in RangeOf(list) : Known(d)
    BY <1>9 DEF RangeOf
  <2>2. \A g \in G : KnowsCaller(g)
    BY <2>1, <1>11 DEF KnowsCaller
  <2>3. \A g \in G : KnowsCaller(g)'
    BY <2>2, <1>7 DEF KnowsCaller, Known
  <2> QED
    BY <2>3, <1>7, <1>11, <1>12, CallersStep DEF LiveInv
<1>14. RunningIsAsked'
  <2>1. /\ \A i \in Jobs : ~Works(h, i)
        /\ \A i \in Jobs : Leaf(i) # o
        /\ status[o] = "RUNNING" => callbacks[o] # <<>>
    BY <1>2, <1>4, Names DEF Works, LiveInv, RunningIsAsked
  <2> QED
    BY <2>1, <1>7, <1>11, <1>12, RunningStep DEF LiveInv
<1>15. NoTokenLost'
  <2>1. ASSUME NEW x \in Dependents, Slots(Flow(x)) # {}
        PROVE  Slots(Flow(x))' # {} \/ \E g \in G : Carries(g, Flow(x))
    <3>1. CASE x = j /\ final
      <4>1. DependeeCallback(j) \in RangeOf(list)
        BY <1>4, <1>5, <1>9, ListsName
      <4>2. PICK g \in G : g.op = "completed" /\ g.on = DependeeCallback(j)
        BY <3>1, <4>1, <1>11
      <4> QED
        BY <3>1, <4>2, CarriesFacts
    <3>2. CASE ~(x = j /\ final)
      <4>1. notified'[x] = notified[x]
        <5>1. CASE x # j
          BY <5>1, <1>8
        <5>2. CASE x = j /\ ~final
          BY <5>2, <1>7 DEF FlowInv, Shapes
        <5> QED
          BY <3>2, <5>1, <5>2
      <4>2. ~(h.op = "generated" /\ h.on = Leaf(x))
        BY <1>2
      <4> QED
        BY <2>1, <4>1, <4>2, <1>7, <1>11, FlowHeld
    <3> QED
      BY <3>1, <3>2
  <2>2. Slots(Caller) # {} => Slots(Caller)' # {}
    BY <1>2, <1>7, <1>11, CallerHeld
  <2>3. \A k \in Tokens : k[1] # "worker" => ~Carries(h, k)
    BY <1>2 DEF Carries
  <2>4. \A k \in Tokens : k[1] # "worker" => (\E x \in Dependents : k = Flow(x)) \/ k = Caller
    BY TokensAre DEF Worker
  <2>5. \A k \in Tokens : k[1] # "worker" /\ (Carries(h, k) \/ Slots(k) # {}) =>
           Slots(k)' # {} \/ \E g \in G : Carries(g, k)
    BY <2>1, <2>2, <2>3, <2>4
  <2> QED
    BY <2>5, <1>11, TokensStep DEF LiveInv
<1>16. /\ \A x : (\A d : ~IsCalled(h, x, d)) /\ (\A i : ~ToCome(h, x, i)) /\ ~Wakes(h, x)
       /\ \A x \in Dependents : Tells(h, x) => x = j
  BY <1>2, <1>3, CallbackFacts DEF Tells, ToCome, IsCalled, Wakes
<1>17. \A x \in Dependents : Open(x)' => Open(x)
  BY <1>7, <1>8 DEF Open, Group
<1>18. DependeesAwaited'
  <2>1. \A x \in Dependents : /\ \A d \in Jobs : ~IsCalled(h, x, d)
                              /\ \A i \in DOMAIN Dependees[x] : ~ToCome(h, x, i)
    BY <1>16
  <2> QED
    BY <2>1, <1>7, <1>11, <1>12, AwaitsStep DEF LiveInv
<1>19. VerdictsComing'
  <2>1. ASSUME NEW x \in Dependents, Open(x)', status'[Group(x)] \in Verdicts PROVE ~Tells(h, x)
    <3> SUFFICES ASSUME x = j PROVE FALSE
      BY <1>16
    <3>1. ~notified'[j][1]
      BY <2>1 DEF Open
    <3>2. status[o] \in Verdicts
      BY <2>1, <1>4, <1>7
    <3> QED
      BY <3>1, <3>2, <1>6, <1>8
  <2> QED
    BY <2>1, <1>7, <1>11, <1>17, VerdictsStep DEF LiveInv
<1>20. EndsComing'
  <2>1. status[o] # "RUNNING" \/ status'[o] \notin Finished
    BY <1>7 DEF Finished, Good
  <2>2. \A x \in Dependents : ~Wakes(h, x)
    BY <1>16
  <2> QED
    BY <2>1, <2>2, <1>7, <1>11, <1>12, <1>17, EndsStep DEF LiveInv
<1>21. CancellerWaits'
  BY <1>7, CancellerStep DEF LiveInv
<1> QED
  BY <1>13, <1>14, <1>15, <1>18, <1>19, <1>20, <1>21 DEF LiveInv

(* A composed flow ends, and tells its list.                                *)
LEMMA ComposedEndsLive ==
  ASSUME FlowInv, LiveInv, NEW t \in Threads, Step(t), NEW h, Takes1(t, h, "completed"),
         NEW j \in Dependents, h.on \in {DependeeCallback(j), DependerCallback(j)},
         NEW s \in Verdicts, NEW list, list = callbacks[Composed(j)],
         status' = [status EXCEPT ![Composed(j)] = s], Then(t, CompletedAll(list, s)),
         UNCHANGED <<callbacks, notified, rootTold, cancelling>>
  PROVE  LiveInv'
<1>1. h \in Frames /\ h.op = "completed" /\ h \in Now
  BY NowFacts DEF Takes1
<1>2. PICK o \in Objects : o = Composed(j) /\ o[1] = "composed"
  BY Names, TokensAre
<1>3. list \in Lists(o) /\ list = callbacks[o]
  BY <1>2 DEF FlowInv, Shapes, ShapeOf
<1>4. /\ Only(o) /\ FlowInv' /\ callbacks' = callbacks
      /\ status'[o] = s /\ s \in Finished /\ s # "RUNNING"
  BY <1>2, StepKeepsInv DEF Only, FlowInv, Shapes, Verdicts, Status, Finished, Good
<1>5. PICK fs, G : fs = CompletedAll(list, s) /\ G = RangeOf(fs)
  OBVIOUS
<1>6. /\ fs \in Seq(Frames)
      /\ \A g \in G : g.op = "completed" /\ g.arg = s /\ g.on \in RangeOf(list)
      /\ \A c \in RangeOf(list) : \E g \in G : g.op = "completed" /\ g.on = c
  BY <1>3, <1>5, TellsNow
<1>7. Swaps(h, G)
  BY <1>5, <1>6, StepSwaps
<1>8. status[o] = "RUNNING"
  <2>1. Carries(h, Flow(j))
    BY <1>1, CarriesFacts
  <2>2. Slots(Flow(j)) = {}
    BY <2>1, TakenToken, TokensAre
  <2>3. status[o] # "READY" /\ status[o] \notin Finished
    BY <2>2, <1>2, FlowSlots
  <2> QED
    BY <2>3, <1>2 DEF FlowInv, Shapes, ShapeOf, Status, Finished, Good
<1>9. \A x \in Dependents : /\ status'[Group(x)] = status[Group(x)] /\ callbacks'[Group(x)] = callbacks[Group(x)]
                            /\ Open(x)' <=> Open(x)
  BY <1>2, <1>4, GroupsHeld
<1>10. CallersKnown'
  <2>1. \A c \in RangeOf(list) : Known(c)
    BY <1>3 DEF LiveInv, CallersKnown, RangeOf
  <2>2. \A g \in G : KnowsCaller(g)
    BY <2>1, <1>6 DEF KnowsCaller
  <2>3. \A g \in G : KnowsCaller(g)'
    BY <2>2 DEF KnowsCaller, Known
  <2> QED
    BY <2>3, <1>4, <1>7, CallersStep DEF LiveInv
<1>11. RunningIsAsked'
  <2>1. /\ \A i \in Jobs : ~Works(h, i)
        /\ \A i \in Jobs : Leaf(i) # o
    BY <1>1, <1>2, Names DEF Works
  <2> QED
    BY <2>1, <1>2, <1>4, <1>7, RunningStep DEF LiveInv
<1>12. NoTokenLost'
  <2>1. ASSUME NEW x \in Dependents, Slots(Flow(x)) # {} \/ x = j
        PROVE  Slots(Flow(x))' # {}
    <3>1. CASE x = j
      <4>1. "done" \in Slots(Flow(j))'
        BY <1>2, <1>4, FlowSlots
      <4> QED
        BY <3>1, <4>1
    <3>2. CASE x # j
      <4>1. Leaf(x) \in Objects /\ Composed(x) \in Objects /\ Leaf(x) # o /\ Composed(x) # o
        BY <1>2, <3>2, Names, TokensAre
      <4>2. status'[Leaf(x)] = status[Leaf(x)] /\ status'[Composed(x)] = status[Composed(x)]
            /\ ~(h.op = "generated" /\ h.on = Leaf(x))
        BY <4>1, <1>1, <1>4 DEF Only
      <4> QED
        BY <2>1, <3>2, <4>2, <1>7, FlowHeld
    <3> QED
      BY <3>1, <3>2
  <2>2. Slots(Caller) # {} => Slots(Caller)' # {} \/ \E g \in G : Carries(g, Caller)
    <3> SUFFICES ASSUME Slots(Caller) # {}
                 PROVE  Slots(Caller)' # {} \/ \E g \in G : Carries(g, Caller)
      OBVIOUS
    <3>1. FlowOf(Root) \in Objects /\ Root \in Jobs /\ j \in Jobs
      BY Names, TokensAre
    <3>2. CASE FlowOf(Root) = o
      <4>1. PICK r : r \in Slots(Caller)
        OBVIOUS
      <4>2. CASE r = "done"
        <5>1. "done" \in Slots(Caller)'
          BY <4>1, <4>2, CallerSlots
        <5> QED
          BY <5>1
      <4>3. CASE r # "done"
        <5>1. RootCallback \in RangeOf(list)
          BY <1>3, <3>2, <4>1, <4>3, CallerSlots
        <5> QED
          BY <5>1, <1>6, CarriesFacts
      <4> QED
        BY <4>2, <4>3
    <3>3. CASE FlowOf(Root) # o
      <4>1. status'[FlowOf(Root)] = status[FlowOf(Root)] /\ ~(h.op = "generated" /\ h.on = FlowOf(Root))
        BY <1>1, <1>4, <3>1, <3>3 DEF Only
      <4> QED
        BY <4>1, <1>4, <1>7, CallerHeld
    <3> QED
      BY <3>2, <3>3
  <2>3. \A x \in Dependents : Carries(h, Flow(x)) => x = j
    BY <1>1, CarriesFacts, CallbackFacts
  <2>4. ~Carries(h, Caller)
    BY <1>1, CarriesFacts, CallbackFacts
  <2>5. \A k \in Tokens : k[1] # "worker" => (\E x \in Dependents : k = Flow(x)) \/ k = Caller
    BY TokensAre DEF Worker
  <2>6. \A k \in Tokens : k[1] # "worker" /\ (Carries(h, k) \/ Slots(k) # {}) =>
           Slots(k)' # {} \/ \E g \in G : Carries(g, k)
    BY <2>1, <2>2, <2>3, <2>4, <2>5
  <2> QED
    BY <2>6, <1>7, TokensStep DEF LiveInv
<1>13. \A x \in Dependents : /\ (\A d \in Jobs : ~IsCalled(h, x, d)) /\ (\A i : ~ToCome(h, x, i))
                             /\ ~Wakes(h, x) /\ ~Tells(h, x)
  BY <1>1, CallbackFacts DEF Tells, ToCome, IsCalled, Wakes
<1>14. \A x \in Dependents : /\ status[Group(x)] \in Verdicts => status'[Group(x)] \in Verdicts
                             /\ ~(callbacks[Group(x)] = <<>> /\ callbacks'[Group(x)] # <<>>)
  BY <1>9
<1>15. DependeesAwaited'
  BY <1>4, <1>7, <1>13, <1>14, AwaitsStep DEF LiveInv
<1>16. VerdictsComing'
  BY <1>7, <1>9, <1>13, VerdictsStep DEF LiveInv
<1>17. EndsComing'
  <2>1. \A g \in G : \A x \in Dependents : g.on = GroupCallback(x, 1) => Wakes(g, x)'
    BY <1>6 DEF Wakes, GroupCallback
  <2>2. \A x \in Dependents : GroupCallback(x, 1) \in RangeOf(callbacks[o]) => \E g \in G : Wakes(g, x)'
    BY <2>1, <1>3, <1>6
  <2> QED
    BY <2>2, <1>4, <1>7, <1>9, <1>13, <1>14, EndsStep DEF LiveInv
<1>18. CancellerWaits'
  BY CancellerStep DEF LiveInv
<1> QED
  BY <1>10, <1>11, <1>12, <1>15, <1>16, <1>17, <1>18 DEF LiveInv

(* The depender ended, or will not run.                                     *)
LEMMA FlowEndsLive ==
  ASSUME FlowInv, LiveInv, NEW t \in Threads, DependeeFailed(t) \/ DependerCompleted(t)
  PROVE  LiveInv'
<1>1. PICK h : Takes1(t, h, "completed")
  BY TakesTop DEF DependeeFailed, DependerCompleted
<1>2. /\ h \in Frames /\ h.op = "completed" /\ h.on = On(t) /\ h.arg = Arg(t) /\ h.arg \in Verdicts
      /\ h.on[1] \in {"dependeeCallback", "dependerCallback"}
  BY <1>1, FrameFacts DEF Takes1, DependeeFailed, DependerCompleted
<1>3. PICK j \in Dependents : h.on \in {DependeeCallback(j), DependerCallback(j)} /\ On(t)[2] = j
  BY <1>2, FrameFacts, CallbackFacts
<1>4. PICK list : list = callbacks[Composed(j)]
  OBVIOUS
<1>8. PICK s \in Verdicts : s = h.arg
  BY <1>2
<1>5. Step(t)
  BY DEF Step
<1>6. status' = [status EXCEPT ![Composed(j)] = s] /\ Then(t, CompletedAll(list, s))
  BY <1>2, <1>3, <1>4, <1>8 DEF DependeeFailed, DependerCompleted, SetStatus
<1>7. UNCHANGED <<callbacks, notified, rootTold, cancelling>>
  BY DEF DependeeFailed, DependerCompleted
<1> QED
  BY <1>1, <1>3, <1>4, <1>5, <1>6, <1>7, <1>8, ComposedEndsLive

(* cancel() comes to a leaf that has not ended.                             *)
LEMMA CancelLeafLive ==
  ASSUME FlowInv, LiveInv, NEW t \in Threads, CancelLeaf(t)
  PROVE  LiveInv'
<1>1. PICK h : Takes1(t, h, "cancel")
  BY TakesTop DEF CancelLeaf
<1>2. h \in Frames /\ h.op = "cancel" /\ h \in Now /\ h.on \in Objects /\ h.on = On(t)
  BY <1>1, NowFacts, FrameFacts DEF Takes1
<1>3. PICK o \in Objects : o = h.on
  BY <1>2
<1>4. PICK j \in Jobs : o = Leaf(j) /\ o[1] = "leaf"
  BY <1>2, <1>3, ObjectFacts DEF CancelLeaf
<1>5. PICK list \in Lists(o) : list = callbacks[o] /\ list \in Seq(TheCallbacks)
  BY DEF FlowInv, Shapes, ShapeOf
<1>6. PICK s \in Verdicts : s = "FAILED"
  BY DEF Verdicts
<1>7. PICK fs, G : fs = CompletedAll(list, s) /\ G = RangeOf(fs)
  OBVIOUS
<1>8. /\ Step(t) /\ UNCHANGED <<notified, rootTold, cancelling>>
      /\ status[o] \in {"READY", "RUNNING"}
      /\ status' = [status EXCEPT ![o] = s]
      /\ callbacks' = [callbacks EXCEPT ![o] = <<>>]
      /\ Then(t, fs)
  BY <1>2, <1>3, <1>5, <1>6, <1>7 DEF CancelLeaf, SetStatus, Step
<1>9. /\ fs \in Seq(Frames)
      /\ \A g \in G : g.op = "completed" /\ g.arg = s /\ g.on \in RangeOf(list)
      /\ \A c \in RangeOf(list) : \E g \in G : g.op = "completed" /\ g.on = c
  BY <1>5, <1>7, TellsNow
<1>10. Swaps(h, G)
  BY <1>1, <1>7, <1>8, <1>9, StepSwaps
<1>11. /\ Only(o) /\ FlowInv' /\ callbacks'[o] = <<>>
       /\ status'[o] = s /\ s \in Finished /\ s # "RUNNING"
  BY <1>6, <1>8, StepKeepsInv DEF Only, FlowInv, Shapes, Verdicts, Status, Finished, Good
<1>12. \A x \in Dependents : /\ status'[Group(x)] = status[Group(x)]
                             /\ callbacks'[Group(x)] = callbacks[Group(x)]
                             /\ Open(x)' <=> Open(x)
  BY <1>4, <1>8, <1>11, GroupsHeld
<1>13. CallersKnown'
  <2>1. \A c \in RangeOf(list) : Known(c) /\ c \in TheCallbacks
    BY <1>5 DEF LiveInv, CallersKnown, RangeOf
  <2>2. ASSUME NEW c \in RangeOf(list) PROVE Known(c)'
    <3>1. Known(c) /\ c \in TheCallbacks
      BY <2>1
    <3>2. c[1] \in {"groupCallback", "dependeeCallback", "dependerCallback"} => c[2] \in Dependents
      BY <3>1, CallbackFacts
    <3>3. c[2] \in Dependents => /\ callbacks'[Group(c[2])] = callbacks[Group(c[2])]
                                 /\ callbacks'[Composed(c[2])] = callbacks[Composed(c[2])]
      <4> SUFFICES ASSUME c[2] \in Dependents
                   PROVE  /\ callbacks'[Group(c[2])] = callbacks[Group(c[2])]
                          /\ callbacks'[Composed(c[2])] = callbacks[Composed(c[2])]
        OBVIOUS
      <4>1. /\ Group(c[2]) \in Objects /\ Composed(c[2]) \in Objects
            /\ Group(c[2]) # o /\ Composed(c[2]) # o
        BY <1>4, Names, TokensAre
      <4> QED
        BY <4>1, <1>11 DEF Only
    <3> QED
      BY <3>1, <3>2, <3>3, Zenon DEF Known, Group, Composed
  <2>3. \A g \in G : KnowsCaller(g)'
    BY <2>2, <1>9 DEF KnowsCaller
  <2>4. \A c \in RangeOf(callbacks'[o]) : FALSE
    BY <1>11 DEF RangeOf
  <2> QED
    BY <2>3, <2>4, <1>4, <1>10, <1>11, CallersStep DEF LiveInv
<1>14. RunningIsAsked'
  <2>1. /\ \A i \in Jobs : ~Works(h, i)
        /\ \A i \in Jobs : Leaf(i) = o => status'[Leaf(i)] # "RUNNING"
    BY <1>2, <1>11 DEF Works
  <2> QED
    BY <2>1, <1>4, <1>10, <1>11, RunningStep DEF LiveInv
<1>15. NoTokenLost'
  <2>1. ASSUME NEW x \in Dependents, Slots(Flow(x)) # {}
        PROVE  Slots(Flow(x))' # {} \/ \E g \in G : Carries(g, Flow(x))
    <3>1. /\ Leaf(x) \in Objects /\ Composed(x) \in Objects /\ Composed(x) # o /\ (Leaf(x) = Leaf(j) => x = j)
          /\ callbacks'[Group(x)] = callbacks[Group(x)] /\ notified'[x] = notified[x]
      BY <1>4, <1>8, <1>12, Names, TokensAre
    <3>2. status'[Composed(x)] = status[Composed(x)]
      BY <3>1, <1>11 DEF Only
    <3>3. CASE x = j
      <4>1. PICK r : r \in Slots(Flow(x))
        BY <2>1
      <4>2. CASE r = "leaf"
        <5>1. list # <<>>
          BY <3>3, <4>1, <4>2, <1>4, <1>5, FlowSlots
        <5>2. DependerCallback(x) \in RangeOf(list)
          BY <5>1, <1>4, <1>5, <3>3, ListsName
        <5>3. PICK g \in G : g.op = "completed" /\ g.on = DependerCallback(x)
          BY <5>2, <1>9
        <5> QED
          BY <5>3, CarriesFacts
      <4>3. CASE r # "leaf"
        <5>1. r \in Slots(Flow(x))'
          BY <3>1, <3>2, <4>1, <4>3, FlowSlots
        <5> QED
          BY <5>1
      <4> QED
        BY <4>2, <4>3
    <3>4. CASE x # j
      <4>1. status'[Leaf(x)] = status[Leaf(x)] /\ callbacks'[Leaf(x)] = callbacks[Leaf(x)]
            /\ ~(h.op = "generated" /\ h.on = Leaf(x))
        BY <1>2, <1>4, <1>11, <3>1, <3>4 DEF Only
      <4> QED
        BY <2>1, <3>1, <3>2, <4>1, <1>10, FlowHeld
    <3> QED
      BY <3>3, <3>4
  <2>2. Slots(Caller) # {} => Slots(Caller)' # {} \/ \E g \in G : Carries(g, Caller)
    <3> SUFFICES ASSUME Slots(Caller) # {}
                 PROVE  Slots(Caller)' # {} \/ \E g \in G : Carries(g, Caller)
      OBVIOUS
    <3>1. FlowOf(Root) \in Objects
      BY Names, TokensAre
    <3>2. CASE FlowOf(Root) = o
      <4>1. PICK r : r \in Slots(Caller)
        OBVIOUS
      <4>2. CASE r = "done"
        <5>1. "done" \in Slots(Caller)'
          BY <4>1, <4>2, <1>8, CallerSlots
        <5> QED
          BY <5>1
      <4>3. CASE r # "done"
        <5>1. RootCallback \in RangeOf(list)
          BY <1>5, <3>2, <4>1, <4>3, CallerSlots
        <5>2. PICK g \in G : g.op = "completed" /\ g.on = RootCallback
          BY <5>1, <1>9
        <5> QED
          BY <5>2, CarriesFacts
      <4> QED
        BY <4>2, <4>3
    <3>3. CASE FlowOf(Root) # o
      <4>1. /\ status'[FlowOf(Root)] = status[FlowOf(Root)] /\ callbacks'[FlowOf(Root)] = callbacks[FlowOf(Root)]
            /\ ~(h.op = "generated" /\ h.on = FlowOf(Root)) /\ rootTold' = rootTold
        BY <1>2, <1>8, <1>11, <3>1, <3>3 DEF Only
      <4> QED
        BY <4>1, <1>10, CallerHeld
    <3> QED
      BY <3>2, <3>3
  <2>3. \A k \in Tokens : ~Carries(h, k)
    BY <1>2, PlainFrame
  <2>4. \A k \in Tokens : k[1] # "worker" => (\E x \in Dependents : k = Flow(x)) \/ k = Caller
    BY TokensAre DEF Worker
  <2>5. \A k \in Tokens : k[1] # "worker" /\ (Carries(h, k) \/ Slots(k) # {}) =>
           Slots(k)' # {} \/ \E g \in G : Carries(g, k)
    BY <2>1, <2>2, <2>3, <2>4
  <2> QED
    BY <2>5, <1>10, TokensStep DEF LiveInv
<1>16. \A x : (\A d : ~IsCalled(h, x, d)) /\ (\A i : ~ToCome(h, x, i)) /\ ~Wakes(h, x) /\ ~Tells(h, x)
  BY <1>2, PlainFrame
<1>17. \A x \in Dependents : /\ status[Group(x)] \in Verdicts => status'[Group(x)] \in Verdicts
                             /\ ~(callbacks[Group(x)] = <<>> /\ callbacks'[Group(x)] # <<>>)
  BY <1>12
<1>18. DependeesAwaited'
  <2>1. \A x \in Dependents : /\ \A d \in Jobs : ~IsCalled(h, x, d)
                              /\ \A i \in DOMAIN Dependees[x] : ~ToCome(h, x, i)
    BY <1>16
  <2>2. status'[o] \in Finished
    BY <1>11
  <2> QED
    BY <2>1, <2>2, <1>10, <1>11, <1>17, AwaitsStep DEF LiveInv
<1>19. VerdictsComing'
  BY <1>10, <1>12, <1>16, VerdictsStep DEF LiveInv
<1>20. EndsComing'
  <2>1. \A g \in G : \A x \in Dependents : g.on = GroupCallback(x, 1) => Wakes(g, x)'
    BY <1>9 DEF Wakes, GroupCallback
  <2>2. \A x \in Dependents : GroupCallback(x, 1) \in RangeOf(callbacks[o]) => \E g \in G : Wakes(g, x)'
    BY <2>1, <1>5, <1>9
  <2>3. ASSUME NEW f \in Now, f.op = "generated", f.on = o PROVE FALSE
    <3>1. status[o] = "SUCCEEDED"
      BY <2>3, NowFacts DEF Says, SaysOfLeaf
    <3> QED
      BY <3>1, <1>8
  <2> QED
    BY <2>2, <2>3, <1>10, <1>11, <1>12, <1>16, <1>17, EndsStep DEF LiveInv
<1>21. CancellerWaits'
  BY <1>8, CancellerStep DEF LiveInv
<1> QED
  BY <1>13, <1>14, <1>15, <1>18, <1>19, <1>20, <1>21 DEF LiveInv

(* Frames come up that concern nobody.                                      *)
LEMMA MoreFramesLive ==
  ASSUME FlowInv, LiveInv, UNCHANGED <<status, callbacks, notified, rootTold>>,
         Now \subseteq Now', \A f \in Now' \ Now : KnowsCaller(f), CancellerWaits'
  PROVE  LiveInv'
<1>1. CallersKnown'
  <2>1. \A f \in Now' : KnowsCaller(f)
    BY DEF LiveInv, CallersKnown
  <2>2. \A f \in Now' : KnowsCaller(f)'
    BY <2>1 DEF KnowsCaller, Known
  <2>3. (\A o \in Objects : \A i \in DOMAIN callbacks[o] : Known(callbacks[o][i]))'
    BY DEF LiveInv, CallersKnown, Known
  <2> QED
    BY <2>2, <2>3 DEF CallersKnown
<1>2. RunningIsAsked'
  BY DEF LiveInv, RunningIsAsked, Works, Leaf, Group
<1>3. NoTokenLost'
  <2>1. \A j \in Jobs : Pending(j) => Pending(j)'
    BY PendingNow
  <2>2. ASSUME NEW x \in Dependents, Slots(Flow(x)) # {} PROVE Slots(Flow(x))' # {}
    <3>1. PICK s : s \in Slots(Flow(x))
      BY <2>2
    <3>2. s \in Slots(Flow(x))'
      BY <3>1, <2>1, FlowSlots, TokensAre
    <3> QED
      BY <3>2
  <2>3. ASSUME Slots(Caller) # {} PROVE Slots(Caller)' # {}
    <3>1. PICK s : s \in Slots(Caller)
      BY <2>3
    <3>2. s \in Slots(Caller)'
      BY <3>1, <2>1, CallerSlots, TokensAre
    <3> QED
      BY <3>2
  <2>4. \A k \in Tokens : k[1] # "worker" => (\E x \in Dependents : k = Flow(x)) \/ k = Caller
    BY TokensAre DEF Worker
  <2>5. \A k \in Tokens : k[1] # "worker" => Slots(k)' # {} \/ \E f \in Now' : Carries(f, k)
    BY <2>2, <2>3, <2>4 DEF LiveInv, NoTokenLost, Kept
  <2> QED
    BY <2>5 DEF NoTokenLost, Kept, Tokens, Flow, Worker, Caller, Carries
<1>4. DependeesAwaited'
  <2>1. \A j, d : Awaits(j, d) => Awaits(j, d)'
    BY DEF Awaits, IsCalled, FlowOf, Composed, Leaf, Dependents, RangeOf, GroupCallback
  <2>2. \A j, i : (\E f \in Now : ToCome(f, j, i)) => (\E f \in Now : ToCome(f, j, i))'
    BY DEF ToCome, Group
  <2> QED
    BY <2>1, <2>2 DEF LiveInv, DependeesAwaited, Group
<1>5. VerdictsComing'
  BY DEF LiveInv, VerdictsComing, Open, Tells, Group, GroupCallback
<1>6. EndsComing'
  <2>1. \A f, j : Wakes(f, j) => Wakes(f, j)'
    BY DEF Wakes, ToCome, IsCalled, GroupCallback, Group, FlowOf, Composed, Leaf, Dependents, RangeOf
  <2>2. \A j : AllEnded(j)' => AllEnded(j)
    BY DEF AllEnded, FlowOf, Composed, Leaf, Dependents, RangeOf
  <2>3. \A j : Open(j)' => Open(j)
    BY DEF Open, Group
  <2> QED
    BY <2>1, <2>2, <2>3 DEF LiveInv, EndsComing, Group
<1> QED
  BY <1>1, <1>2, <1>3, <1>4, <1>5, <1>6 DEF LiveInv

(* The flow is cancelled.                                                   *)
LEMMA CancelRootLive ==
  ASSUME FlowInv, LiveInv, CancelRoot
  PROVE  LiveInv'
<1>1. UNCHANGED <<status, callbacks, notified, rootTold>> /\ cancelling' /\ ~cancelling
      /\ stack' = [stack EXCEPT ![Canceller] = <<Cancel(FlowOf(Root))>>]
  BY DEF CancelRoot
<1>2. stack[Canceller] = <<>> /\ stack \in [Threads -> Seq(Frames)] /\ Canceller \in Threads
  BY <1>1 DEF LiveInv, CancellerWaits, FlowInv, Shapes, Threads
<1>3. PICK f \in Frames : f = Cancel(FlowOf(Root)) /\ f.op = "cancel"
  <2>1. FlowOf(Root) \in Objects
    BY Names, TokensAre
  <2>2. Cancel(FlowOf(Root)) \in Frames
    BY <2>1, FramesMade
  <2> QED
    BY <2>2 DEF Cancel, Frame
<1>4. /\ \A u \in Threads \ {Canceller} : stack'[u] = stack[u]
      /\ stack'[Canceller] = <<f>>
  BY <1>1, <1>2, <1>3
<1>5. /\ \A u \in Threads \ {Canceller} : RangeOf(stack'[u]) = RangeOf(stack[u])
      /\ RangeOf(stack'[Canceller]) = {f}
      /\ RangeOf(stack[Canceller]) = {}
  BY <1>2, <1>4, ShortRange
<1>6. Now' = UNION {RangeOf(stack'[u]) : u \in Threads}
  BY DEF Now, RangeOf
<1>7. Now \subseteq Now' /\ Now' \subseteq Now \cup {f}
  BY <1>2, <1>5, <1>6 DEF Now
<1>8. \A g \in Now' \ Now : KnowsCaller(g)
  BY <1>3, <1>7, PlainFrame
<1>9. CancellerWaits'
  BY <1>1 DEF CancellerWaits
<1> QED
  BY <1>1, <1>7, <1>8, <1>9, MoreFramesLive

-----------------------------------------------------------------------------
(* A new execution.                                                         *)
LEMMA InitLive == Init => LiveInv
<1> SUFFICES ASSUME Init
             PROVE  LiveInv
  OBVIOUS
<1>1. PICK f \in Frames : f = Execute(FlowOf(Root), RootCallback) /\ f.op = "execute" /\ f.on = FlowOf(Root)
                          /\ f.arg = RootCallback
  <2>1. FlowOf(Root) \in Objects /\ RootCallback \in Allowed(FlowOf(Root)) /\ RootCallback \in TheCallbacks
    BY Names, TokensAre, AllowedFacts, CallbackFacts DEF Asked
  <2>2. Execute(FlowOf(Root), RootCallback) \in Frames
    BY <2>1, FramesMade
  <2> QED
    BY <2>2 DEF Execute, Frame
<1>2. /\ stack = [t \in Threads |-> IF t = Main THEN <<f>> ELSE <<>>]
      /\ \A o \in Objects : callbacks[o] = <<>>
      /\ ~cancelling
  BY <1>1 DEF Init
<1>3. Main \in Threads /\ Canceller \in Threads /\ Main # Canceller
  BY DEF Threads, Main, Canceller
<1>4. Now = {f}
  <2>1. \A t \in Threads : RangeOf(stack[t]) = IF t = Main THEN {f} ELSE {}
    BY <1>2, ShortRange
  <2> QED
    BY <2>1, <1>3 DEF Now
<1>5. /\ \A o \in Objects : status[o] # "RUNNING"
      /\ \A j \in Dependents : status[Composed(j)] \in {"READY", "COMPLETED"}
  <2>1. \A o \in Objects : status[o] \in {"READY", "IGNORED", "COMPLETED"}
    BY DEF Init, InitStatus
  <2>2. ASSUME NEW j \in Dependents PROVE status[Composed(j)] # "IGNORED"
    <3>1. Composed(j) \in Objects /\ \A k \in Jobs : Leaf(k) # Composed(j)
      BY Names, TokensAre
    <3> QED
      BY <3>1 DEF Init, InitStatus
  <2> QED
    BY <2>1, <2>2, Names, TokensAre
<1>6. CallersKnown
  <2>1. KnowsCaller(f)
    BY <1>1, CallbackFacts DEF KnowsCaller, Known
  <2>2. \A o \in Objects : DOMAIN callbacks[o] = {}
    BY <1>2
  <2> QED
    BY <2>1, <2>2, <1>4 DEF CallersKnown
<1>7. RunningIsAsked
  BY <1>5, Names, TokensAre DEF RunningIsAsked
<1>8. NoTokenLost
  <2>1. ASSUME NEW j \in Dependents PROVE Slots(Flow(j)) # {}
    <3>1. "new" \in Slots(Flow(j)) \/ "done" \in Slots(Flow(j))
      BY <1>5, FlowSlots DEF Finished, Good
    <3> QED
      BY <3>1
  <2>2. Carries(f, Caller)
    BY <1>1, CarriesFacts
  <2>3. \A k \in Tokens : k[1] # "worker" => (\E x \in Dependents : k = Flow(x)) \/ k = Caller
    BY TokensAre DEF Worker
  <2> QED
    BY <2>1, <2>2, <2>3, <1>4 DEF NoTokenLost, Kept
<1>9. \A j \in Dependents : callbacks[Group(j)] = <<>>
  BY <1>2, Names, TokensAre
<1>10. DependeesAwaited /\ VerdictsComing /\ EndsComing
  BY <1>9 DEF DependeesAwaited, VerdictsComing, EndsComing, Open
<1>11. CancellerWaits
  BY <1>2, <1>3 DEF CancellerWaits
<1> QED
  BY <1>6, <1>7, <1>8, <1>10, <1>11 DEF LiveInv

(* Every step, when reports and saves do not fail.                          *)
LEMMA StepLive ==
  ASSUME FlowInv, LiveInv, Careful, NEW t \in Threads, Step(t)
  PROVE  LiveInv'
<1>1. ~DependeeSaveFails(t)
  BY DEF DependeeSaveFails, Careful
<1>2. CASE ExecuteReady(t) \/ ExecuteRunning(t) \/ ExecuteFinished(t)
  BY <1>2, ExecuteReadyLive, ExecuteRunningLive, ExecuteFinishedLive
<1>3. CASE LeaveMonitor(t) \/ CancelFinishedLeaf(t) \/ CancelChildren(t)
  BY <1>3, PlainLive
<1>4. CASE NextChild(t) \/ LoadJob(t) \/ StartCallbackThread(t) \/ JobReturns(t)
  BY <1>4, NextChildLive, LoadJobLive, StartCallbackThreadLive, JobReturnsLive
<1>5. CASE JobMissing(t) \/ JobThrows(t) \/ SetReturnProps(t)
  BY <1>5, JobReportsLive
<1>6. CASE RootCompleted(t) \/ GroupCompleted(t) \/ GroupVerdict(t)
  BY <1>6, RootCompletedLive, GroupCompletedLive, GroupVerdictLive
<1>7. CASE DependeeSucceeded(t)
  BY <1>7, DependeeSucceededLive
<1>8. CASE DependeeFailed(t) \/ DependerCompleted(t)
  BY <1>8, FlowEndsLive
<1>9. CASE CancelLeaf(t)
  BY <1>9, CancelLeafLive
<1> QED
  BY <1>1, <1>2, <1>3, <1>4, <1>5, <1>6, <1>7, <1>8, <1>9 DEF Step

(* Nothing happens.                                                         *)
LEMMA StillLive ==
  ASSUME FlowInv, LiveInv, UNCHANGED vars
  PROVE  LiveInv'
<1>1. UNCHANGED <<status, callbacks, notified, rootTold, stack, cancelling>>
  BY DEF vars
<1>2. Now' = Now
  BY <1>1 DEF Now, RangeOf
<1>3. CancellerWaits'
  BY <1>1 DEF LiveInv, CancellerWaits, Canceller
<1> QED
  BY <1>1, <1>2, <1>3, MoreFramesLive

(* The caller is told once.                                                 *)
LEMMA ToldOnceStep ==
  ASSUME FlowInv, ToldOnce, NEW t \in Threads, Step(t)
  PROVE  ToldOnce'
<1>1. CASE RootCompleted(t)
  <2>1. PICK h : Takes1(t, h, "completed") /\ h.on = RootCallback
    BY <1>1, TakesTop DEF RootCompleted, Takes1
  <2>2. Carries(h, Caller)
    BY <2>1, CarriesFacts DEF Takes1
  <2>3. Slots(Caller) = {}
    BY <2>1, <2>2, TakenToken, TokensAre
  <2>4. rootTold = <<>>
    BY <2>3, CallerSlots
  <2>5. rootTold' = Append(rootTold, Arg(t))
    BY <1>1 DEF RootCompleted
  <2> QED
    BY <2>4, <2>5 DEF ToldOnce
<1>2. CASE ~RootCompleted(t)
  <2>1. rootTold' = rootTold
    BY <1>2 DEF Step, ExecuteReady, ExecuteRunning, ExecuteFinished, LeaveMonitor, NextChild, LoadJob,
       JobMissing, JobThrows, JobReturns, SetReturnProps, StartCallbackThread, GroupCompleted, GroupVerdict,
       DependeeSucceeded, DependeeSaveFails, DependeeFailed, DependerCompleted, CancelChildren,
       CancelFinishedLeaf, CancelLeaf
  <2> QED
    BY <2>1 DEF ToldOnce
<1> QED
  BY <1>1, <1>2

(* Whoever waits is waited for, in every state of an execution whose        *)
(* reports and saves do not fail.                                           *)
THEOREM NobodyIsForgotten == Spec /\ Careful => [](FlowInv /\ LiveInv /\ ToldOnce)
<1>1. Init => LiveInv /\ ToldOnce
  <2>1. Init => ToldOnce
    BY DEF Init, ToldOnce
  <2> QED
    BY <2>1, InitLive
<1>2. ASSUME FlowInv, LiveInv /\ ToldOnce, Careful, [Next]_vars
      PROVE  (LiveInv /\ ToldOnce)'
  <2>1. CASE \E t \in Threads : Step(t)
    BY <1>2, <2>1, StepLive, ToldOnceStep
  <2>2. CASE CancelRoot
    <3>1. ToldOnce'
      BY <1>2, <2>2 DEF CancelRoot, ToldOnce
    <3> QED
      BY <1>2, <2>2, <3>1, CancelRootLive
  <2>3. CASE UNCHANGED vars
    <3>1. ToldOnce'
      BY <1>2, <2>3 DEF vars, ToldOnce
    <3> QED
      BY <1>2, <2>3, <3>1, StillLive
  <2> QED
    BY <1>2, <2>1, <2>2, <2>3 DEF Next, Quiesced
<1>3. Spec => []FlowInv
  BY InvAlways
<1>4. Careful => []Careful
  <2>1. Careful => Careful'
    BY DEF Careful
  <2> QED
    BY <2>1, PTL
<1> QED
  BY <1>1, <1>2, <1>3, <1>4, PTL DEF Spec

(* When every thread has run to its end, nobody waits any more.             *)
LEMMA IdleAnswered ==
  ASSUME FlowInv, LiveInv, ToldOnce
  PROVE  Answered
<1> SUFFICES ASSUME Idle
             PROVE  Len(rootTold) = 1 /\ \A o \in Objects : status[o] # "RUNNING"
  BY DEF Answered
<1>1. Now = {}
  BY ShortRange DEF Idle, Now
<1>2. \A j \in Jobs : status[Leaf(j)] # "RUNNING" /\ ~Pending(j)
  BY <1>1, PendingNow DEF LiveInv, RunningIsAsked
<1>3. ASSUME NEW j \in Dependents, status[Composed(j)] = "RUNNING"
      PROVE  Open(j)
  <2>1. PICK s : s \in Slots(Flow(j))
    BY <1>1, TokensAre DEF LiveInv, NoTokenLost, Kept, Flow
  <2> QED
    BY <2>1, <1>2, <1>3, FlowSlots, TokensAre DEF Open, Finished, Good
<1>4. ASSUME NEW j \in Dependents, Open(j)
      PROVE  \E d \in RangeOf(Dependees[j]) : d \in Dependents /\ Open(d)
  <2>1. status[Group(j)] \notin Verdicts
    BY <1>1, <1>4 DEF LiveInv, VerdictsComing
  <2>2. \A i \in DOMAIN Dependees[j] : Awaits(j, Dependees[j][i])
    BY <1>1, <1>4, <2>1 DEF LiveInv, DependeesAwaited, Open
  <2>3. ~AllEnded(j)
    BY <1>1, <1>4, <2>1 DEF LiveInv, EndsComing
  <2>4. PICK i \in DOMAIN Dependees[j] : status[FlowOf(Dependees[j][i])] \notin Finished
    BY <2>3 DEF AllEnded, RangeOf
  <2>5. PICK d \in Jobs : d = Dependees[j][i] /\ d \in RangeOf(Dependees[j])
    BY FlowConstants, TokensAre DEF RangeOf
  <2>6. status[FlowOf(d)] = "RUNNING"
    BY <2>2, <2>4, <2>5, <1>1 DEF Awaits
  <2>7. d \in Dependents /\ status[Composed(d)] = "RUNNING"
    BY <2>6, <1>2 DEF FlowOf
  <2> QED
    BY <2>5, <2>7, <1>3
<1>5. \A j \in Dependents : ~Open(j)
  <2>1. PICK S : S = {j \in Dependents : Open(j)}
    OBVIOUS
  <2>2. S \in SUBSET Jobs
    BY <2>1, TokensAre
  <2>3. ASSUME S # {} PROVE FALSE
    <3>1. PICK j \in S : RangeOf(Dependees[j]) \cap S = {}
      BY <2>2, <2>3, DependenciesEnd
    <3>2. j \in Dependents /\ Open(j)
      BY <2>1
    <3> QED
      BY <3>1, <3>2, <1>4, <2>1
  <2> QED
    BY <2>1, <2>3
<1>6. ASSUME NEW o \in Objects PROVE status[o] # "RUNNING"
  <2>1. CASE \E j \in Jobs : o = Leaf(j)
    BY <2>1, <1>2
  <2>2. CASE \E j \in Dependents : o = Composed(j)
    BY <2>2, <1>3, <1>5
  <2>3. ASSUME NEW j \in Dependents, o = Group(j) PROVE status[o] # "RUNNING"
    <3>1. notified[j][1] => status[o] # "RUNNING"
      BY <2>3 DEF FlowInv, GroupsKnow, Verdicts
    <3>2. status[o] = "RUNNING" => callbacks[Group(j)] # <<>>
      BY <2>3 DEF LiveInv, RunningIsAsked
    <3> QED
      BY <3>1, <3>2, <1>5 DEF Open
  <2> QED
    BY <2>1, <2>2, <2>3, ObjectFacts
<1>7. rootTold # <<>>
  <2>1. PICK s : s \in Slots(Caller)
    BY <1>1, TokensAre DEF LiveInv, NoTokenLost, Kept, Caller
  <2>2. Root \in Dependents => status[Composed(Root)] # "RUNNING"
    BY <1>3, <1>5
  <2> QED
    BY <2>1, <2>2, <1>2, CallerSlots, TokensAre
<1>8. Len(rootTold) = 1
  <2>1. rootTold \in Seq(Verdicts) /\ Len(rootTold) <= 1
    BY DEF ToldOnce, FlowInv, Shapes
  <2>2. Len(rootTold) \in Nat /\ Len(rootTold) # 0
    BY <2>1, <1>7
  <2> QED
    BY <2>1, <2>2
<1> QED
  BY <1>6, <1>8

(* When every thread has run to its end, the caller of the root was told,   *)
(* once, and no object is left RUNNING.                                     *)
THEOREM CallerIsAnswered == Spec /\ Careful => []Answered
BY NobodyIsForgotten, IdleAnswered, PTL

-----------------------------------------------------------------------------
(* The flow that is built from the file.                                    *)

(* buildFlow() of job j, given what the flows of its dependees are built as. *)
LoadedOf(j, f) ==
  LET ds == RangeOf(Dependees[j]) IN
  CASE Dependees[j] = <<>>     -> LoadedLeaf(j)
    [] Len(Dependees[j]) = 1 -> ComposedState(LoadedLeaf(j), f[Dependees[j][1]])
    [] OTHER                 -> ComposedState(LoadedLeaf(j), GroupState({f[d] : d \in ds}))

(* f says of the jobs of D, and of all they depend on, what they are built as. *)
Built(D, f) ==
  /\ D \subseteq Jobs /\ \A j \in D : RangeOf(Dependees[j]) \subseteq D
  /\ \A j \in D : f[j] = LoadedOf(j, f)

(* Dependees are jobs, and a job has some or none.                          *)
LEMMA DependeesOfJob ==
  ASSUME NEW j \in Jobs
  PROVE  /\ Dependees[j] \in Seq(Jobs) /\ RangeOf(Dependees[j]) \subseteq Jobs
         /\ Dependees[j] = <<>> <=> RangeOf(Dependees[j]) = {}
         /\ Len(Dependees[j]) = 1 => /\ Dependees[j][1] \in RangeOf(Dependees[j])
                                     /\ RangeOf(Dependees[j]) = {Dependees[j][1]}
         /\ j \in Dependents <=> Dependees[j] # <<>>
<1>1. Dependees[j] \in Seq(Jobs)
  BY FlowConstants
<1>2. DOMAIN Dependees[j] = 1 .. Len(Dependees[j]) /\ Len(Dependees[j]) \in Nat
  BY <1>1
<1>3. RangeOf(Dependees[j]) \subseteq Jobs
  BY <1>1, <1>2 DEF RangeOf
<1>4. Dependees[j] = <<>> <=> RangeOf(Dependees[j]) = {}
  <2>1. ASSUME Dependees[j] # <<>>
        PROVE  Dependees[j][1] \in RangeOf(Dependees[j])
    BY <1>1, <1>2, <2>1 DEF RangeOf
  <2>2. ASSUME Dependees[j] = <<>>
        PROVE  RangeOf(Dependees[j]) = {}
    BY <2>2 DEF RangeOf
  <2> QED
    BY <2>1, <2>2
<1>5. Len(Dependees[j]) = 1 => /\ Dependees[j][1] \in RangeOf(Dependees[j])
                               /\ RangeOf(Dependees[j]) = {Dependees[j][1]}
  BY <1>2 DEF RangeOf
<1> QED
  BY <1>1, <1>3, <1>4, <1>5 DEF Dependents

(* What a flow is built as depends on its dependees' flows only.            *)
LEMMA BuiltLocally ==
  ASSUME NEW j \in Jobs, NEW f, NEW g, \A d \in RangeOf(Dependees[j]) : f[d] = g[d]
  PROVE  LoadedOf(j, f) = LoadedOf(j, g)
<1>1. {f[d] : d \in RangeOf(Dependees[j])} = {g[d] : d \in RangeOf(Dependees[j])}
  OBVIOUS
<1>2. Len(Dependees[j]) = 1 => f[Dependees[j][1]] = g[Dependees[j][1]]
  BY DependeesOfJob
<1>3. CASE Dependees[j] = <<>>
  BY <1>3 DEF LoadedOf
<1>4. CASE Dependees[j] # <<>> /\ Len(Dependees[j]) = 1
  BY <1>4, <1>2 DEF LoadedOf
<1>5. CASE Dependees[j] # <<>> /\ Len(Dependees[j]) # 1
  BY <1>5, <1>1 DEF LoadedOf
<1> QED
  BY <1>3, <1>4, <1>5

(* There is one way to build a flow.                                        *)
LEMMA BuiltAlike ==
  ASSUME NEW D, NEW f, Built(D, f), NEW E, NEW g, Built(E, g)
  PROVE  \A j \in D \cap E : f[j] = g[j]
<1> DEFINE S == {j \in D \cap E : f[j] # g[j]}
<1>1. SUFFICES ASSUME S # {} PROVE FALSE
  OBVIOUS
<1>2. S \in (SUBSET Jobs) \ {{}}
  BY <1>1 DEF Built
<1>3. PICK j \in S : RangeOf(Dependees[j]) \cap S = {}
  BY <1>2, DependenciesEnd
<1>4. RangeOf(Dependees[j]) \subseteq D \cap E /\ j \in Jobs
  BY <1>3 DEF Built
<1>5. \A d \in RangeOf(Dependees[j]) : f[d] = g[d]
  BY <1>3, <1>4
<1>6. LoadedOf(j, f) = LoadedOf(j, g)
  BY <1>4, <1>5, BuiltLocally
<1> QED
  BY <1>3, <1>6 DEF Built

(* Every flow can be built.                                                 *)
LEMMA AllBuilt == \E f : f = [j \in Jobs |-> LoadedOf(j, f)]
<1> DEFINE Can(j) == \E D : \E f : j \in D /\ Built(D, f)
           C == {j \in Jobs : Can(j)}
           Is(j, v) == \E D : \E f : j \in D /\ Built(D, f) /\ v = f[j]
           V == [j \in C |-> CHOOSE v : Is(j, v)]
<1>1. \A D, f : Built(D, f) => D \subseteq C /\ \A j \in D : V[j] = f[j]
  <2> SUFFICES ASSUME NEW D, NEW f, Built(D, f)
               PROVE  D \subseteq C /\ \A j \in D : V[j] = f[j]
    OBVIOUS
  <2>1. D \subseteq C
    BY <1>1 DEF Built
  <2>2. ASSUME NEW j \in D
        PROVE  V[j] = f[j]
    <3>1. Is(j, f[j])
      OBVIOUS
    <3>2. \A v : Is(j, v) => v = f[j]
      BY BuiltAlike
    <3>3. (CHOOSE v : Is(j, v)) = f[j]
      <4> HIDE DEF Is
      <4> QED
        BY <3>1, <3>2
    <3> HIDE DEF Is
    <3> QED
      BY <2>1, <3>3
  <2> HIDE DEF V, C
  <2> QED
    BY <2>1, <2>2
<1>2. Built(C, V)
  <2>1. ASSUME NEW j \in C
        PROVE  RangeOf(Dependees[j]) \subseteq C /\ V[j] = LoadedOf(j, V)
    <3>1. PICK D : \E f : j \in D /\ Built(D, f)
      BY <2>1
    <3>2. PICK f : j \in D /\ Built(D, f)
      BY <3>1
    <3> HIDE DEF V, C
    <3>3. D \subseteq C /\ \A i \in D : V[i] = f[i]
      BY <1>1, <3>2
    <3>4. RangeOf(Dependees[j]) \subseteq D /\ j \in Jobs /\ f[j] = LoadedOf(j, f)
      BY <3>2 DEF Built
    <3>5. \A d \in RangeOf(Dependees[j]) : V[d] = f[d]
      BY <3>3, <3>4
    <3>6. LoadedOf(j, V) = LoadedOf(j, f)
      BY <3>4, <3>5, BuiltLocally
    <3> QED
      BY <3>2, <3>3, <3>4, <3>6
  <2> HIDE DEF V
  <2> QED
    BY <2>1 DEF Built
<1>3. C = Jobs
  <2> SUFFICES ASSUME Jobs \ C # {}
               PROVE  FALSE
    OBVIOUS
  <2>1. PICK j \in Jobs \ C : RangeOf(Dependees[j]) \cap (Jobs \ C) = {}
    <3> HIDE DEF C
    <3>1. Jobs \ C \in (SUBSET Jobs) \ {{}}
      OBVIOUS
    <3> QED
      BY <3>1, DependenciesEnd
  <2> DEFINE W == [k \in C \cup {j} |-> IF k = j THEN LoadedOf(j, V) ELSE V[k]]
  <2>2. RangeOf(Dependees[j]) \subseteq C
    <3> HIDE DEF C
    <3> QED
      BY <2>1, DependeesOfJob
  <2>3. Built(C \cup {j}, W)
    <3> HIDE DEF C, V
    <3>1. \A k \in C : RangeOf(Dependees[k]) \subseteq C /\ V[k] = LoadedOf(k, V) /\ k \in Jobs
      BY <1>2 DEF Built
    <3>2. \A k \in C : W[k] = V[k]
      BY <2>1
    <3>3. \A k \in C : LoadedOf(k, W) = LoadedOf(k, V)
      <4> HIDE DEF W
      <4> TAKE k \in C
      <4>1. \A d \in RangeOf(Dependees[k]) : W[d] = V[d]
        BY <3>1, <3>2
      <4>2. k \in Jobs
        BY <3>1
      <4> QED
        BY <4>1, <4>2, BuiltLocally
    <3>4. LoadedOf(j, W) = LoadedOf(j, V)
      <4> HIDE DEF W
      <4>1. \A d \in RangeOf(Dependees[j]) : W[d] = V[d]
        BY <2>2, <3>2
      <4> QED
        BY <4>1, <2>1, BuiltLocally
    <3>5. W[j] = LoadedOf(j, V)
      OBVIOUS
    <3> HIDE DEF W
    <3>6. \A k \in C \cup {j} : W[k] = LoadedOf(k, W)
      BY <3>1, <3>2, <3>3, <3>4, <3>5
    <3> QED
      BY <3>1, <3>6, <2>1, <2>2 DEF Built
  <2>4. Can(j)
    <3> HIDE DEF W, C
    <3> QED
      BY <2>3
  <2> QED
    BY <2>1, <2>4
<1>4. V = [j \in Jobs |-> V[j]]
  BY <1>3
<1>5. \A j \in Jobs : V[j] = LoadedOf(j, V)
  <2> HIDE DEF V, C
  <2> QED
    BY <1>2, <1>3 DEF Built
<1> HIDE DEF V
<1> QED
  BY <1>4, <1>5

(* buildFlow() is what it is defined as.                                    *)
LEMMA LoadedIs == \A j \in Jobs : LoadedFlow[j] = LoadedOf(j, LoadedFlow)
<1> DEFINE Sol(f) == f = [j \in Jobs |-> LoadedOf(j, f)]
<1>1. LoadedFlow = CHOOSE f : Sol(f)
  BY DEF LoadedFlow, LoadedOf
<1>2. \E f : Sol(f)
  BY AllBuilt
<1>3. Sol(LoadedFlow)
  <2> HIDE DEF Sol
  <2> QED
    BY <1>1, <1>2
<1> QED
  BY <1>3

(* What a flow is loaded as: what its leaf says, if that has ended, or      *)
(* FAILED if a dependee is.                                                 *)
LEMMA LoadedFacts ==
  ASSUME NEW j \in Jobs
  PROVE  /\ j \notin Dependents => LoadedFlow[j] = LoadedLeaf(j)
         /\ j \in Dependents => LoadedFlow[j] =
              IF LoadedLeaf(j) \in Finished THEN LoadedLeaf(j)
              ELSE IF \E d \in RangeOf(Dependees[j]) : LoadedFlow[d] = "FAILED" THEN "FAILED" ELSE "READY"
<1> DEFINE ds == RangeOf(Dependees[j])
           failed == \E d \in ds : LoadedFlow[d] = "FAILED"
<1>1. LoadedFlow[j] = LoadedOf(j, LoadedFlow)
  BY LoadedIs
<1>2. CASE Dependees[j] = <<>>
  BY <1>1, <1>2 DEF LoadedOf, Dependents
<1>3. CASE Dependees[j] # <<>> /\ Len(Dependees[j]) = 1
  <2>1. failed <=> LoadedFlow[Dependees[j][1]] = "FAILED"
    BY <1>3, DependeesOfJob
  <2>2. LoadedFlow[j] = ComposedState(LoadedLeaf(j), LoadedFlow[Dependees[j][1]])
    BY <1>1, <1>3 DEF LoadedOf
  <2> QED
    BY <1>3, <2>1, <2>2 DEF ComposedState, Dependents
<1>4. CASE Dependees[j] # <<>> /\ Len(Dependees[j]) # 1
  <2>1. failed <=> GroupState({LoadedFlow[d] : d \in ds}) = "FAILED"
    BY DEF GroupState
  <2>2. LoadedFlow[j] = ComposedState(LoadedLeaf(j), GroupState({LoadedFlow[d] : d \in ds}))
    BY <1>1, <1>4 DEF LoadedOf
  <2> QED
    BY <1>4, <2>1, <2>2 DEF ComposedState, Dependents
<1> QED
  BY <1>2, <1>3, <1>4


-----------------------------------------------------------------------------
(* What a step does to a leaf and to a composed flow, which frames it       *)
(* leaves, and who goes on with a frame that would have saved.              *)
WillSave(f) == f.op \in {"load", "running", "generated", "callCallbacks", "completed", "verdict"}

LeafDoes(h, G, j) ==
  \/ status'[Leaf(j)] = status[Leaf(j)]
  \/ /\ h.op = "execute" /\ h.on = Leaf(j)
     /\ \/ status[Leaf(j)] = "READY" /\ status'[Leaf(j)] = "RUNNING" /\ \E g \in G : Works(g, j)
        \/ status[Leaf(j)] = "IGNORED" /\ status'[Leaf(j)] = "COMPLETED" /\ \E g \in G : WillSave(g)
  \/ Works(h, j) /\ status'[Leaf(j)] \in Verdicts /\ (ReportFails \/ \E g \in G : WillSave(g))
  \/ h.op = "cancel" /\ status[Leaf(j)] \in {"READY", "RUNNING"} /\ status'[Leaf(j)] = "FAILED"

ComposedDoes(h, j) ==
  \/ status'[Composed(j)] = status[Composed(j)]
  \/ status[Composed(j)] = "READY" /\ status'[Composed(j)] = "RUNNING"
  \/ /\ h.op = "completed" /\ h.on \in {DependeeCallback(j), DependerCallback(j)}
     /\ status'[Composed(j)] = h.arg /\ (h.on = DependeeCallback(j) => h.arg = "FAILED")

FrameDoes(h, g) ==
  /\ g.op = "load" => h.op = "execute" /\ h.on = g.on
  /\ g.op = "running" => h.op = "load" /\ h.on = g.on
  /\ g.op = "generated" => h.op = "running" /\ h.on = g.on /\ callbacks'[g.on] = callbacks[g.on]
  /\ g.op = "callCallbacks" =>
       h.op \in {"load", "running", "generated"} /\ h.on = g.on /\ g.arg = callbacks[g.on]
  /\ \A j \in Dependents : g.op = "completed" /\ g.on = DependerCallback(j) /\ g.arg = "SUCCEEDED" =>
       status'[Leaf(j)] \in Good

Goes(t, h, G) ==
  WillSave(h) =>
    \/ \E g \in G : WillSave(g)
    \/ SavesNext(t) \/ ReportFails \/ SaveFails
    \/ h.op \in {"callCallbacks", "verdict"} /\ h.arg = <<>>
    \/ /\ h.op = "completed" /\ h.on[1] \in {"dependeeCallback", "dependerCallback"}
       /\ callbacks[Composed(h.on[2])] = <<>>

Does(t, h, G) ==
  /\ Takes1(t, h, h.op) /\ Swaps(h, G)
  /\ \A j \in Jobs : LeafDoes(h, G, j)
  /\ \A j \in Dependents : ComposedDoes(h, j)
  /\ \A o \in Objects : callbacks[o] # <<>> /\ callbacks'[o] = <<>> => h.op = "cancel"
  /\ \A g \in G : FrameDoes(h, g)
  /\ Goes(t, h, G)

(* A step that writes one object.                                           *)
LEMMA OneDoes ==
  ASSUME NEW t, NEW h, NEW op, Takes1(t, h, op), NEW G, Swaps(h, G), NEW o \in Objects, Only(o),
         \A j \in Jobs : o = Leaf(j) => LeafDoes(h, G, j),
         \A j \in Dependents : o = Composed(j) => ComposedDoes(h, j),
         callbacks[o] # <<>> /\ callbacks'[o] = <<>> => h.op = "cancel",
         \A g \in G : FrameDoes(h, g), Goes(t, h, G)
  PROVE  Does(t, h, G)
<1>1. ASSUME NEW j \in Jobs PROVE LeafDoes(h, G, j)
  <2>1. Leaf(j) \in Objects
    BY Names
  <2> QED
    BY <2>1 DEF Only, LeafDoes
<1>2. ASSUME NEW j \in Dependents PROVE ComposedDoes(h, j)
  <2>1. Composed(j) \in Objects
    BY Names, TokensAre
  <2> QED
    BY <2>1 DEF Only, ComposedDoes
<1>3. \A x \in Objects : callbacks[x] # <<>> /\ callbacks'[x] = <<>> => h.op = "cancel"
  BY DEF Only
<1>4. Takes1(t, h, h.op)
  BY DEF Takes1
<1> QED
  BY <1>1, <1>2, <1>3, <1>4 DEF Does

(* A step that writes none.                                                 *)
LEMMA SameDoes ==
  ASSUME NEW t, NEW h, NEW op, Takes1(t, h, op), NEW G, Swaps(h, G), status' = status, callbacks' = callbacks,
         \A g \in G : FrameDoes(h, g), Goes(t, h, G)
  PROVE  Does(t, h, G)
BY DEF Does, LeafDoes, ComposedDoes, Takes1

(* Frames of which nothing is asked.                                        *)
LEMMA OtherFrames ==
  ASSUME NEW h, NEW g, g.op \in {"execute", "children", "cancel", "release", "verdict"}
  PROVE  FrameDoes(h, g)
BY DEF FrameDoes

(* A list tells the truth of a depender.                                    *)
LEMMA TellsDoes ==
  ASSUME NEW h, NEW g, NEW o \in Objects, NEW list \in Lists(o), list \in Seq(TheCallbacks),
         NEW s, g.op = "completed", g.arg = s, g.on \in RangeOf(list),
         \A j \in Dependents : o = Leaf(j) /\ s = "SUCCEEDED" => status'[Leaf(j)] \in Good
  PROVE  FrameDoes(h, g)
<1>1. g.on \in Allowed(o)
  BY ListSingle DEF RangeOf
<1> QED
  BY <1>1, GivenTo DEF FrameDoes

(* The frame that is taken is the one the step looks at.                    *)
LEMMA TakesDoing ==
  ASSUME FlowInv, NEW t \in Threads, NEW h, NEW op, Takes1(t, h, op)
  PROVE  Doing(t, op) /\ On(t) = h.on /\ Arg(t) = h.arg /\ h \in Now /\ h \in Frames /\ h.op = op
<1>1. Doing(t, op)
  BY TopFacts DEF Takes1
<1> QED
  BY <1>1, NowFacts DEF Takes1

(* Calls that return, and those that only go on.                            *)
LEMMA PopDoes ==
  ASSUME FlowInv, NEW t \in Threads,
         LeaveMonitor(t) \/ CancelFinishedLeaf(t) \/ DependeeSaveFails(t) \/ RootCompleted(t)
  PROVE  \E h, G : Does(t, h, G)
<1>1. PICK op : Doing(t, op) /\ op \in {"release", "cancel", "completed"}
                /\ (op = "completed" => SaveFails \/ On(t) = RootCallback)
  BY DEF LeaveMonitor, CancelFinishedLeaf, DependeeSaveFails, RootCompleted
<1>2. PICK h : Takes1(t, h, op)
  BY <1>1, TakesTop
<1>3. Then(t, <<>>) /\ status' = status /\ callbacks' = callbacks
  BY DEF LeaveMonitor, CancelFinishedLeaf, DependeeSaveFails, RootCompleted
<1>4. PICK G : G = {} /\ Swaps(h, G)
  BY <1>2, <1>3, PopSwaps
<1>5. Goes(t, h, G)
  BY <1>1, <1>2, TakesDoing DEF Goes, WillSave, SavesNext
<1> QED
  BY <1>2, <1>3, <1>4, <1>5, SameDoes

(* cancel() goes down.                                                      *)
LEMMA CancelChildrenDoes ==
  ASSUME FlowInv, NEW t \in Threads, CancelChildren(t)
  PROVE  \E h, G : Does(t, h, G)
<1>1. PICK h : Takes1(t, h, "cancel")
  BY TakesTop DEF CancelChildren
<1>2. h.op = "cancel" /\ h.on = On(t) /\ h.on \in Objects
  BY <1>1, FrameFacts DEF Takes1
<1>3. PICK fs, G : fs = CancelFrames(On(t)) /\ G = RangeOf(fs)
  OBVIOUS
<1>4. /\ fs \in Seq(Frames) /\ \A m \in DOMAIN fs : fs[m].op = "cancel"
      /\ Then(t, fs) /\ status' = status /\ callbacks' = callbacks
  BY <1>2, <1>3, CancelFramesFacts DEF CancelChildren, CancelFrames
<1>5. Swaps(h, G)
  BY <1>1, <1>3, <1>4, StepSwaps
<1>6. \A g \in G : g.op = "cancel"
  BY <1>3, <1>4 DEF RangeOf
<1>7. \A g \in G : FrameDoes(h, g)
  BY <1>6, OtherFrames
<1>8. Goes(t, h, G)
  BY <1>2 DEF Goes, WillSave
<1> QED
  BY <1>1, <1>4, <1>5, <1>7, <1>8, SameDoes

(* The loop over the dependees.                                             *)
LEMMA NextChildDoes ==
  ASSUME FlowInv, NEW t \in Threads, NextChild(t)
  PROVE  \E h, G : Does(t, h, G)
<1>1. PICK h : Takes1(t, h, "children")
  BY TakesTop DEF NextChild
<1>2. PICK j \in Dependents : h.on = Group(j) /\ On(t)[2] = j
  BY <1>1, FrameFacts, Names, TokensAre DEF Takes1, Groups
<1>3. PICK i \in Nat \ {0} : i = h.arg /\ i = Arg(t)
  BY <1>1, FrameFacts DEF Takes1
<1>4. h.op = "children" /\ status' = status /\ callbacks' = callbacks
  BY <1>1 DEF Takes1, NextChild
<1>5. PICK f \in Frames : f = Children(j, i + 1) /\ f.op = "children"
  <2>1. Children(j, i + 1) \in Frames
    BY FramesMade
  <2> QED
    BY <2>1 DEF Children, Frame
<1>6. TheGroupCallback(j) = GroupCallback(j, 1)
  <2>1. PICK b \in BOOLEAN : notified[j] = <<b>>
    BY DEF FlowInv, Shapes
  <2> QED
    BY <2>1 DEF TheGroupCallback
<1>7. \/ Then(t, <<>>) \/ Then(t, <<f>>)
      \/ i <= Len(Dependees[j]) /\ Then(t, <<Execute(FlowOf(Dependees[j][i]), GroupCallback(j, 1)), f>>)
  <2>1. Len(Dependees[j]) \in Nat
    BY DependeesOfJob, TokensAre
  <2> QED
    BY <2>1, <1>2, <1>3, <1>5, <1>6 DEF NextChild
<1>8. \E G : Swaps(h, G) /\ \A g \in G : g.op \in {"children", "execute"}
  <2>1. CASE Then(t, <<>>)
    BY <2>1, <1>1, PopSwaps
  <2>2. CASE Then(t, <<f>>)
    <3>1. PICK G : G = {f} /\ Swaps(h, G)
      BY <2>2, <1>1, OneSwaps
    <3> QED
      BY <3>1, <1>5
  <2>3. CASE i <= Len(Dependees[j]) /\ Then(t, <<Execute(FlowOf(Dependees[j][i]), GroupCallback(j, 1)), f>>)
    <3>1. PICK d \in Jobs : d = Dependees[j][i]
      BY <2>3, <1>3, DependeesOfJob, TokensAre
    <3>2. PICK e \in Frames : e = Execute(FlowOf(d), GroupCallback(j, 1)) /\ e.op = "execute"
      <4>1. FlowOf(d) \in Objects /\ GroupCallback(j, 1) \in Allowed(FlowOf(d)) /\ GroupCallback(j, 1) \in TheCallbacks
        BY Names, AllowedFacts, CallbackFacts
      <4>2. Execute(FlowOf(d), GroupCallback(j, 1)) \in Frames
        BY <4>1, FramesMade
      <4> QED
        BY <4>2 DEF Execute, Frame
    <3>3. PICK G : G = {e, f} /\ Swaps(h, G)
      BY <2>3, <3>1, <3>2, <1>1, TwoSwaps
    <3> QED
      BY <3>2, <3>3, <1>5
  <2> QED
    BY <1>7, <2>1, <2>2, <2>3
<1>9. PICK G : Swaps(h, G) /\ \A g \in G : g.op \in {"children", "execute"}
  BY <1>8
<1>10. \A g \in G : FrameDoes(h, g)
  BY <1>9, OtherFrames
<1>11. Goes(t, h, G)
  BY <1>4 DEF Goes, WillSave
<1> QED
  BY <1>1, <1>4, <1>9, <1>10, <1>11, SameDoes

(* The job of a leaf is loaded.                                             *)
LEMMA LoadJobDoes ==
  ASSUME FlowInv, NEW t \in Threads, LoadJob(t)
  PROVE  \E h, G : Does(t, h, G)
<1>1. PICK h : Takes1(t, h, "load")
  BY TakesTop DEF LoadJob
<1>2. PICK j \in Jobs : h.on = Leaf(j) /\ On(t) = Leaf(j) /\ On(t)[2] = j
  BY <1>1, FrameFacts, Names DEF Takes1, Leaves
<1>3. PICK f \in Frames : f = Running(j) /\ f.op = "running" /\ f.on = Leaf(j)
  <2>1. Running(j) \in Frames
    BY FramesMade
  <2> QED
    BY <2>1 DEF Running, Frame
<1>4. h.op = "load" /\ status' = status /\ callbacks' = callbacks
  BY <1>1 DEF Takes1, LoadJob
<1>5. JobThread(j) \in Threads /\ ThenStart(t, <<>>, JobThread(j), <<f>>)
  BY <1>2, <1>3 DEF LoadJob, Threads
<1>6. PICK G : G = {f} /\ Swaps(h, G)
  BY <1>1, <1>5, OneSwaps
<1>7. FrameDoes(h, f)
  BY <1>2, <1>3, <1>4 DEF FrameDoes
<1>8. Goes(t, h, G)
  BY <1>3, <1>6 DEF Goes, WillSave
<1> QED
  BY <1>1, <1>4, <1>6, <1>7, <1>8, SameDoes

(* A job ends, or has not been found.                                       *)
LEMMA JobEndsDoes ==
  ASSUME FlowInv, NEW t \in Threads, JobMissing(t) \/ JobThrows(t) \/ SetReturnProps(t)
  PROVE  \E h, G : Does(t, h, G)
<1>1. PICK op : Doing(t, op) /\ op \in {"load", "running", "generated"}
                /\ (op = "generated" => SetReturnProps(t)) /\ (op # "generated" => JobMissing(t) \/ JobThrows(t))
  BY DEF JobMissing, JobThrows, SetReturnProps
<1>2. PICK h : Takes1(t, h, op)
  BY <1>1, TakesTop
<1>3. PICK j \in Jobs : h.on = Leaf(j) /\ On(t) = Leaf(j) /\ On(t)[2] = j /\ Leaf(j) \in Objects
  BY <1>1, <1>2, FrameFacts, Names DEF Takes1, Leaves
<1>4. PICK o \in Objects : o = Leaf(j)
  BY <1>3
<1>5. PICK list \in Lists(o) : list = callbacks[o] /\ list \in Seq(TheCallbacks)
  BY DEF FlowInv, Shapes, ShapeOf
<1>6. PICK f \in Frames : f = CallCallbacks(j, list) /\ f.op = "callCallbacks" /\ f.on = Leaf(j) /\ f.arg = list
  <2>1. CallCallbacks(j, list) \in Frames
    BY <1>4, <1>5, FramesMade
  <2> QED
    BY <2>1 DEF CallCallbacks, Frame
<1>7. /\ op = "generated" => status' = status
      /\ op # "generated" => status' = [status EXCEPT ![o] = "FAILED"]
      /\ callbacks' = callbacks
      /\ Then(t, <<f>>) \/ (ReportFails /\ Then(t, <<>>))
  BY <1>1, <1>3, <1>4, <1>5, <1>6 DEF JobMissing, JobThrows, SetReturnProps, SetStatus
<1>8. /\ Only(o) /\ (op = "generated" \/ status'[o] = "FAILED") /\ (op = "generated" => status'[o] = status[o])
  BY <1>7 DEF Only, FlowInv, Shapes, Status
<1>9. h.op = op
  BY <1>2 DEF Takes1
<1>10. \E G : Swaps(h, G) /\ (ReportFails \/ f \in G) /\ G \subseteq {f}
  <2>1. CASE Then(t, <<f>>)
    <3>1. PICK G : G = {f} /\ Swaps(h, G)
      BY <1>2, <2>1, OneSwaps
    <3> QED
      BY <3>1
  <2>2. CASE ReportFails /\ Then(t, <<>>)
    <3>1. PICK G : G = {} /\ Swaps(h, G)
      BY <1>2, <2>2, PopSwaps
    <3> QED
      BY <3>1, <2>2
  <2> QED
    BY <1>7, <2>1, <2>2
<1>11. PICK G : Swaps(h, G) /\ (ReportFails \/ f \in G) /\ G \subseteq {f}
  BY <1>10
<1>12. FrameDoes(h, f)
  BY <1>1, <1>3, <1>4, <1>5, <1>6, <1>9 DEF FrameDoes
<1>13. ReportFails \/ \E g \in G : WillSave(g)
  BY <1>6, <1>11 DEF WillSave
<1>14. Goes(t, h, G)
  BY <1>13 DEF Goes
<1>15. ASSUME NEW i \in Jobs, o = Leaf(i) PROVE LeafDoes(h, G, i)
  <2>1. i = j
    BY <1>4, <1>15 DEF Leaf
  <2> QED
    BY <2>1, <1>1, <1>3, <1>4, <1>8, <1>9, <1>13 DEF LeafDoes, Works, Verdicts
<1>16. \A i \in Dependents : o # Composed(i)
  BY <1>4, Names, TokensAre
<1>17. \A g \in G : FrameDoes(h, g)
  BY <1>11, <1>12
<1>18. Does(t, h, G)
  BY <1>2, <1>7, <1>8, <1>11, <1>14, <1>15, <1>16, <1>17, OneDoes
<1> QED
  BY <1>18

(* A job returns: its leaf has succeeded, but does not tell yet.            *)
LEMMA JobReturnsDoes ==
  ASSUME FlowInv, NEW t \in Threads, JobReturns(t)
  PROVE  \E h, G : Does(t, h, G)
<1>1. PICK h : Takes1(t, h, "running")
  BY TakesTop DEF JobReturns
<1>2. PICK j \in Jobs : h.on = Leaf(j) /\ On(t) = Leaf(j) /\ On(t)[2] = j /\ Leaf(j) \in Objects
  BY <1>1, FrameFacts, Names DEF Takes1, Leaves
<1>3. PICK o \in Objects : o = Leaf(j)
  BY <1>2
<1>4. PICK f \in Frames : f = Generated(j) /\ f.op = "generated" /\ f.on = Leaf(j)
  <2>1. Generated(j) \in Frames
    BY FramesMade
  <2> QED
    BY <2>1 DEF Generated, Frame
<1>5. status' = [status EXCEPT ![o] = "SUCCEEDED"] /\ callbacks' = callbacks /\ Then(t, <<f>>)
  BY <1>2, <1>3, <1>4 DEF JobReturns, SetStatus
<1>6. Only(o) /\ status'[o] = "SUCCEEDED"
  BY <1>5 DEF Only, FlowInv, Shapes, Status
<1>7. h.op = "running"
  BY <1>1 DEF Takes1
<1>8. PICK G : G = {f} /\ Swaps(h, G)
  BY <1>1, <1>5, OneSwaps
<1>9. \A g \in G : FrameDoes(h, g)
  BY <1>2, <1>3, <1>4, <1>5, <1>7, <1>8 DEF FrameDoes
<1>10. \E g \in G : WillSave(g)
  BY <1>4, <1>8 DEF WillSave
<1>11. Goes(t, h, G)
  BY <1>10 DEF Goes
<1>12. ASSUME NEW i \in Jobs, o = Leaf(i) PROVE LeafDoes(h, G, i)
  <2>1. i = j
    BY <1>3, <1>12 DEF Leaf
  <2> QED
    BY <2>1, <1>2, <1>3, <1>6, <1>7, <1>10 DEF LeafDoes, Works, Verdicts
<1>13. \A i \in Dependents : o # Composed(i)
  BY <1>3, Names, TokensAre
<1>14. Does(t, h, G)
  BY <1>1, <1>5, <1>6, <1>8, <1>9, <1>11, <1>12, <1>13, OneDoes
<1> QED
  BY <1>14

(* A leaf tells what became of it.                                          *)
LEMMA StartCallbackThreadDoes ==
  ASSUME FlowInv, NEW t \in Threads, StartCallbackThread(t)
  PROVE  \E h, G : Does(t, h, G)
<1>1. PICK h : Takes1(t, h, "callCallbacks")
  BY TakesTop DEF StartCallbackThread
<1>2. h \in Frames /\ h.op = "callCallbacks" /\ Says(h) /\ h.arg = Arg(t)
  BY <1>1 DEF Takes1
<1>3. PICK j \in Jobs : h.on = Leaf(j) /\ On(t) = Leaf(j) /\ On(t)[2] = j
  BY <1>1, <1>2, FrameFacts, Names DEF Takes1, Leaves
<1>4. PICK list, s : list = h.arg /\ s = status[Leaf(j)]
  OBVIOUS
<1>5. list \in Lists(Leaf(j)) /\ s \in Verdicts /\ Leaf(j) \in Objects /\ list \in Seq(TheCallbacks)
  BY <1>2, <1>3, <1>4, FrameFacts, Names DEF Says, SaysOfLeaf
<1>6. PICK fs, G : fs = CompletedAll(list, s) /\ G = RangeOf(fs)
  OBVIOUS
<1>7. /\ fs \in Seq(Frames)
      /\ \A g \in G : g.op = "completed" /\ g.arg = s /\ g.on \in RangeOf(list)
      /\ \A c \in RangeOf(list) : \E g \in G : g.op = "completed" /\ g.on = c
  BY <1>5, <1>6, TellsNow
<1>8. /\ status' = status /\ callbacks' = callbacks
      /\ ThenStart(t, <<>>, CallbackThread(j), fs) /\ CallbackThread(j) \in Threads
  BY <1>2, <1>3, <1>4, <1>6 DEF StartCallbackThread, Threads
<1>9. Swaps(h, G)
  BY <1>1, <1>6, <1>7, <1>8, StepSwaps
<1>10. \A i \in Dependents : Leaf(j) = Leaf(i) /\ s = "SUCCEEDED" => status'[Leaf(i)] \in Good
  BY <1>4, <1>8 DEF Good
<1>11. \A g \in G : FrameDoes(h, g)
  BY <1>5, <1>7, <1>10, TellsDoes
<1>12. ASSUME list # <<>> PROVE \E c : c \in RangeOf(list)
  <2>1. 1 \in DOMAIN list
    BY <1>5, <1>12
  <2> QED
    BY <2>1 DEF RangeOf
<1>13. Goes(t, h, G)
  BY <1>2, <1>4, <1>7, <1>12 DEF Goes, WillSave
<1> QED
  BY <1>1, <1>8, <1>9, <1>11, <1>13, SameDoes

(* A group hears of a dependee.                                             *)
LEMMA GroupCompletedDoes ==
  ASSUME FlowInv, NEW t \in Threads, GroupCompleted(t)
  PROVE  \E h, G : Does(t, h, G)
<1>1. PICK h : Takes1(t, h, "completed")
  BY TakesTop DEF GroupCompleted
<1>2. h \in Frames /\ h.op = "completed" /\ h.on = On(t) /\ h.on[1] = "groupCallback"
  BY <1>1 DEF Takes1, GroupCompleted
<1>3. PICK j \in Dependents : h.on = GroupCallback(j, 1) /\ On(t)[2] = j
  BY <1>2, FrameFacts, CallbackFacts
<1>4. PICK o \in Objects : o = Group(j) /\ o[1] = "group"
  BY Names, TokensAre
<1>5. PICK list \in Lists(o) : list = callbacks[o] /\ list \in Seq(TheCallbacks)
  BY DEF FlowInv, Shapes, ShapeOf
<1>6. PICK f \in Frames : f = Verdict(GroupCallback(j, 1), list) /\ f.op = "verdict"
  <2>1. Verdict(GroupCallback(j, 1), list) \in Frames
    BY <1>4, <1>5, FramesMade
  <2> QED
    BY <2>1 DEF Verdict, Frame
<1>7. UpdateState(j) /\ callbacks' = callbacks /\ Then(t, <<f>>)
  BY <1>2, <1>3, <1>4, <1>5, <1>6 DEF GroupCompleted
<1>8. PICK G : G = {f} /\ Swaps(h, G)
  BY <1>1, <1>7, OneSwaps
<1>9. status' = status \/ \E s \in Verdicts : status' = [status EXCEPT ![o] = s]
  <2>1. status \in [Objects -> Status]
    BY DEF FlowInv, Shapes
  <2> QED
    BY <2>1, <1>4, <1>7 DEF UpdateState, SetStatus, Verdicts
<1>10. Only(o)
  BY <1>7, <1>9 DEF Only, FlowInv, Shapes, Verdicts, Status
<1>11. \A g \in G : FrameDoes(h, g)
  BY <1>6, <1>8, OtherFrames
<1>12. Goes(t, h, G)
  BY <1>6, <1>8 DEF Goes, WillSave
<1>13. /\ \A i \in Jobs : o # Leaf(i)
       /\ \A i \in Dependents : o # Composed(i)
  BY <1>4, Names, TokensAre
<1>14. Does(t, h, G)
  BY <1>1, <1>7, <1>8, <1>10, <1>11, <1>12, <1>13, OneDoes
<1> QED
  BY <1>14

(* A callback of a group finds out whether to tell.                         *)
LEMMA GroupVerdictDoes ==
  ASSUME FlowInv, NEW t \in Threads, GroupVerdict(t)
  PROVE  \E h, G : Does(t, h, G)
<1>1. PICK h : Takes1(t, h, "verdict")
  BY TakesTop DEF GroupVerdict
<1>2. h \in Frames /\ h.op = "verdict" /\ h.on = On(t) /\ h.arg = Arg(t) /\ Doing(t, "verdict")
  BY <1>1, TakesDoing DEF Takes1
<1>3. PICK j \in Dependents : /\ h.on = GroupCallback(j, 1) /\ h.on[2] = j /\ h.on[3] = 1
                              /\ h.arg \in Lists(Group(j)) /\ h.arg \in Seq(TheCallbacks)
  BY <1>2, FrameFacts, CallbackFacts
<1>4. PICK o \in Objects : o = Group(j) /\ o[1] = "group"
  BY Names, TokensAre
<1>5. PICK list \in Lists(o) : list = h.arg /\ list \in Seq(TheCallbacks)
  BY <1>3, <1>4
<1>6. PICK final \in BOOLEAN : final = (status[o] \in Verdicts /\ ~notified[j][1])
  OBVIOUS
<1>7. /\ status' = status /\ callbacks' = callbacks
      /\ Then(t, IF final THEN CompletedAll(list, status[o]) ELSE <<>>)
      /\ ~final => SavesNext(t)
  <2>1. On(t) = h.on /\ Arg(t) = list
    BY <1>2, <1>5
  <2>2. On(t)[2] = j /\ On(t)[3] = 1
    BY <2>1, <1>3
  <2>3. final = (status[Group(j)] \in {"SUCCEEDED", "FAILED"} /\ ~notified[j][1])
    BY <1>4, <1>6 DEF Verdicts
  <2> QED
    BY <2>1, <2>2, <2>3, <1>2, <1>4 DEF GroupVerdict, SavesNext
<1>8. \E G : /\ Swaps(h, G)
             /\ ~final => G = {}
             /\ final => /\ \A g \in G : FrameDoes(h, g)
                         /\ \A c \in RangeOf(list) : \E g \in G : g.op = "completed"
  <2>1. CASE final
    <3>1. PICK s \in Verdicts : s = status[o]
      BY <2>1, <1>6
    <3>2. PICK fs, G : fs = CompletedAll(list, s) /\ G = RangeOf(fs)
      OBVIOUS
    <3>3. /\ fs \in Seq(Frames)
          /\ \A g \in G : g.op = "completed" /\ g.arg = s /\ g.on \in RangeOf(list)
          /\ \A c \in RangeOf(list) : \E g \in G : g.op = "completed" /\ g.on = c
      BY <3>2, TellsNow
    <3>4. Then(t, fs)
      BY <2>1, <3>1, <3>2, <1>7
    <3>5. Swaps(h, G)
      BY <1>1, <3>2, <3>3, <3>4, StepSwaps
    <3>6. \A i \in Dependents : o = Leaf(i) /\ s = "SUCCEEDED" => status'[Leaf(i)] \in Good
      BY <1>4, Names, TokensAre
    <3>7. \A g \in G : FrameDoes(h, g)
      BY <1>5, <3>3, <3>6, TellsDoes
    <3> QED
      BY <2>1, <3>3, <3>5, <3>7
  <2>2. CASE ~final
    <3>1. Then(t, <<>>)
      BY <2>2, <1>7
    <3>2. PICK G : G = {} /\ Swaps(h, G)
      BY <1>1, <3>1, PopSwaps
    <3> QED
      BY <2>2, <3>2
  <2> QED
    BY <2>1, <2>2
<1>9. PICK G : /\ Swaps(h, G)
               /\ ~final => G = {}
               /\ final => /\ \A g \in G : FrameDoes(h, g)
                           /\ \A c \in RangeOf(list) : \E g \in G : g.op = "completed"
  BY <1>8
<1>10. \A g \in G : FrameDoes(h, g)
  BY <1>9
<1>11. ASSUME list # <<>> PROVE \E c : c \in RangeOf(list)
  <2>1. 1 \in DOMAIN list
    BY <1>5, <1>11
  <2> QED
    BY <2>1 DEF RangeOf
<1>12. Goes(t, h, G)
  BY <1>2, <1>5, <1>7, <1>9, <1>11 DEF Goes, WillSave
<1> QED
  BY <1>1, <1>7, <1>9, <1>10, <1>12, SameDoes

(* The dependees of a composed flow have succeeded: its leaf is executed.   *)
LEMMA DependeeSucceededDoes ==
  ASSUME FlowInv, NEW t \in Threads, DependeeSucceeded(t)
  PROVE  \E h, G : Does(t, h, G)
<1>1. PICK h : Takes1(t, h, "completed")
  BY TakesTop DEF DependeeSucceeded
<1>2. h \in Frames /\ h.op = "completed" /\ h.on = On(t) /\ h.on[1] = "dependeeCallback"
  BY <1>1 DEF Takes1, DependeeSucceeded
<1>3. PICK j \in Dependents : h.on = DependeeCallback(j) /\ On(t)[2] = j
  BY <1>2, FrameFacts, CallbackFacts
<1>4. PICK f \in Frames : f = Execute(Leaf(j), DependerCallback(j)) /\ f.op = "execute"
  <2>1. Leaf(j) \in Objects /\ DependerCallback(j) \in Allowed(Leaf(j)) /\ DependerCallback(j) \in TheCallbacks
    BY Names, TokensAre, AllowedFacts, CallbackFacts
  <2>2. Execute(Leaf(j), DependerCallback(j)) \in Frames
    BY <2>1, FramesMade
  <2> QED
    BY <2>2 DEF Execute, Frame
<1>5. /\ status' = status /\ callbacks' = callbacks /\ Then(t, <<f>>)
      /\ SavesNext(t)
  BY <1>3, <1>4 DEF DependeeSucceeded, SavesNext
<1>6. PICK G : G = {f} /\ Swaps(h, G)
  BY <1>1, <1>5, OneSwaps
<1>7. \A g \in G : FrameDoes(h, g)
  BY <1>4, <1>6, OtherFrames
<1>8. Goes(t, h, G)
  BY <1>5 DEF Goes
<1> QED
  BY <1>1, <1>5, <1>6, <1>7, <1>8, SameDoes

(* The depender ended, or will not run.                                     *)
LEMMA FlowEndsDoes ==
  ASSUME FlowInv, NEW t \in Threads, DependeeFailed(t) \/ DependerCompleted(t)
  PROVE  \E h, G : Does(t, h, G)
<1>1. PICK h : Takes1(t, h, "completed")
  BY TakesTop DEF DependeeFailed, DependerCompleted
<1>2. /\ h \in Frames /\ h.op = "completed" /\ h.on = On(t) /\ h.arg = Arg(t) /\ h.arg \in Verdicts
      /\ h.on[1] \in {"dependeeCallback", "dependerCallback"}
      /\ h.on[1] = "dependeeCallback" => h.arg = "FAILED"
  BY <1>1, FrameFacts DEF Takes1, DependeeFailed, DependerCompleted
<1>3. PICK j \in Dependents : h.on \in {DependeeCallback(j), DependerCallback(j)} /\ On(t)[2] = j
  BY <1>2, FrameFacts, CallbackFacts
<1>4. PICK o \in Objects : o = Composed(j) /\ o[1] = "composed"
  BY Names, TokensAre
<1>5. PICK s \in Verdicts : s = h.arg
  BY <1>2
<1>6. PICK list \in Lists(o) : list = callbacks[o] /\ list \in Seq(TheCallbacks)
  BY DEF FlowInv, Shapes, ShapeOf
<1>7. /\ status' = [status EXCEPT ![o] = s] /\ Then(t, CompletedAll(list, s))
      /\ callbacks' = callbacks
  BY <1>2, <1>3, <1>4, <1>5, <1>6 DEF DependeeFailed, DependerCompleted, SetStatus
<1>8. Only(o) /\ status'[o] = s
  BY <1>7 DEF Only, FlowInv, Shapes, Verdicts, Status
<1>9. PICK fs, G : fs = CompletedAll(list, s) /\ G = RangeOf(fs)
  OBVIOUS
<1>10. /\ fs \in Seq(Frames)
       /\ \A g \in G : g.op = "completed" /\ g.arg = s /\ g.on \in RangeOf(list)
       /\ \A c \in RangeOf(list) : \E g \in G : g.op = "completed" /\ g.on = c
  BY <1>9, TellsNow
<1>11. Swaps(h, G)
  BY <1>1, <1>7, <1>9, <1>10, StepSwaps
<1>12. /\ \A i \in Jobs : o # Leaf(i)
       /\ \A i \in Dependents : o = Composed(i) => i = j
  BY <1>4, Names, TokensAre
<1>13. \A g \in G : FrameDoes(h, g)
  <2>1. \A i \in Dependents : o = Leaf(i) /\ s = "SUCCEEDED" => status'[Leaf(i)] \in Good
    BY <1>12, TokensAre
  <2> QED
    BY <2>1, <1>6, <1>10, TellsDoes
<1>14. ASSUME NEW i \in Dependents, o = Composed(i) PROVE ComposedDoes(h, i)
  <2>1. i = j
    BY <1>12, <1>14
  <2>2. h.on = DependeeCallback(j) => h.arg = "FAILED"
    BY <1>2, CallbackFacts
  <2> QED
    BY <2>1, <2>2, <1>2, <1>3, <1>4, <1>5, <1>8 DEF ComposedDoes
<1>15. ASSUME list # <<>> PROVE \E c : c \in RangeOf(list)
  <2>1. 1 \in DOMAIN list
    BY <1>6, <1>15
  <2> QED
    BY <2>1 DEF RangeOf
<1>16. h.on[2] = j
  BY <1>3, CallbackFacts
<1>17. Goes(t, h, G)
  BY <1>2, <1>4, <1>6, <1>10, <1>15, <1>16 DEF Goes, WillSave
<1>18. Does(t, h, G)
  BY <1>1, <1>7, <1>8, <1>11, <1>12, <1>13, <1>14, <1>17, OneDoes
<1> QED
  BY <1>18

(* cancel() comes to a leaf that has not ended.                             *)
LEMMA CancelLeafDoes ==
  ASSUME FlowInv, NEW t \in Threads, CancelLeaf(t)
  PROVE  \E h, G : Does(t, h, G)
<1>1. PICK h : Takes1(t, h, "cancel")
  BY TakesTop DEF CancelLeaf
<1>2. h \in Frames /\ h.op = "cancel" /\ h.on \in Objects /\ h.on = On(t)
  BY <1>1, FrameFacts DEF Takes1
<1>3. PICK o \in Objects : o = h.on
  BY <1>2
<1>4. PICK j \in Jobs : o = Leaf(j) /\ o[1] = "leaf"
  BY <1>2, <1>3, ObjectFacts DEF CancelLeaf
<1>5. PICK list \in Lists(o) : list = callbacks[o] /\ list \in Seq(TheCallbacks)
  BY DEF FlowInv, Shapes, ShapeOf
<1>6. PICK s \in Verdicts : s = "FAILED"
  BY DEF Verdicts
<1>7. PICK fs, G : fs = CompletedAll(list, s) /\ G = RangeOf(fs)
  OBVIOUS
<1>8. /\ status[o] \in {"READY", "RUNNING"}
      /\ status' = [status EXCEPT ![o] = s]
      /\ callbacks' = [callbacks EXCEPT ![o] = <<>>]
      /\ Then(t, fs)
  BY <1>2, <1>3, <1>5, <1>6, <1>7 DEF CancelLeaf, SetStatus
<1>9. /\ fs \in Seq(Frames)
      /\ \A g \in G : g.op = "completed" /\ g.arg = s /\ g.on \in RangeOf(list)
  BY <1>5, <1>7, TellsNow
<1>10. Swaps(h, G)
  BY <1>1, <1>7, <1>8, <1>9, StepSwaps
<1>11. Only(o) /\ status'[o] = s
  BY <1>6, <1>8 DEF Only, FlowInv, Shapes, Verdicts, Status
<1>12. \A g \in G : FrameDoes(h, g)
  <2>1. s # "SUCCEEDED"
    BY <1>6
  <2> QED
    BY <2>1, <1>5, <1>9, TellsDoes
<1>13. Goes(t, h, G)
  BY <1>2 DEF Goes, WillSave
<1>14. \A i \in Jobs : o = Leaf(i) => LeafDoes(h, G, i)
  BY <1>2, <1>6, <1>8, <1>11 DEF LeafDoes
<1>15. \A i \in Dependents : o # Composed(i)
  BY <1>4, Names, TokensAre
<1>16. Does(t, h, G)
  BY <1>1, <1>2, <1>10, <1>11, <1>12, <1>13, <1>14, <1>15, OneDoes
<1> QED
  BY <1>16

(* An object is executed again.                                             *)
LEMMA ExecuteRunningDoes ==
  ASSUME FlowInv, NEW t \in Threads, ExecuteRunning(t)
  PROVE  \E h, G : Does(t, h, G)
<1>1. PICK h : Takes1(t, h, "execute")
  BY TakesTop DEF ExecuteRunning
<1>2. PICK o \in Objects : o = h.on /\ o = On(t)
  BY <1>1, FrameFacts DEF Takes1
<1>3. /\ status[o] = "RUNNING" /\ status' = status /\ h.arg = Arg(t) /\ Then(t, <<>>) /\ h.op = "execute"
      /\ callbacks' = [callbacks EXCEPT ![o] = Append(@, h.arg)]
  BY <1>1, <1>2 DEF ExecuteRunning, Takes1
<1>4. PICK G : G = {} /\ Swaps(h, G)
  BY <1>1, <1>3, PopSwaps
<1>5. /\ Append(callbacks[o], h.arg) \in Lists(o)
      /\ Append(callbacks[o], h.arg) # <<>>
  <2>1. status[h.on] \in {"READY", "RUNNING"}
    BY <1>2, <1>3
  <2> QED
    BY <1>1, <1>2, <2>1, Registers
<1>6. Append(callbacks[o], h.arg) \in Seq(TheCallbacks)
  BY <1>5, ListSingle
<1>7. Only(o) /\ callbacks'[o] # <<>>
  BY <1>3, <1>5, <1>6 DEF Only, FlowInv, Shapes
<1>8. Goes(t, h, G)
  BY <1>3 DEF Goes, WillSave
<1>9. /\ \A j \in Jobs : o = Leaf(j) => LeafDoes(h, G, j)
      /\ \A j \in Dependents : o = Composed(j) => ComposedDoes(h, j)
  BY <1>3 DEF LeafDoes, ComposedDoes
<1>10. Does(t, h, G)
  BY <1>1, <1>4, <1>7, <1>8, <1>9, OneDoes
<1> QED
  BY <1>10

(* An object is executed for the first time.                                *)
LEMMA ExecuteReadyDoes ==
  ASSUME FlowInv, NEW t \in Threads, ExecuteReady(t)
  PROVE  \E h, G : Does(t, h, G)
<1>1. PICK h : Takes1(t, h, "execute")
  BY TakesTop DEF ExecuteReady
<1>2. PICK o \in Objects : o = h.on /\ o = On(t)
  BY <1>1, FrameFacts DEF Takes1
<1>3. /\ status[o] = "READY" /\ status' = [status EXCEPT ![o] = "RUNNING"] /\ h.op = "execute"
      /\ callbacks' = [callbacks EXCEPT ![o] = Append(@, h.arg)] /\ Then(t, Body(o))
  BY <1>1, <1>2 DEF ExecuteReady, Takes1, SetStatus
<1>4. /\ Append(callbacks[o], h.arg) \in Lists(o)
      /\ Append(callbacks[o], h.arg) # <<>>
  <2>1. status[h.on] \in {"READY", "RUNNING"}
    BY <1>2, <1>3
  <2> QED
    BY <1>1, <1>2, <2>1, Registers
<1>5. Append(callbacks[o], h.arg) \in Seq(TheCallbacks)
  BY <1>4, ListSingle
<1>6. Only(o) /\ callbacks'[o] # <<>> /\ status'[o] = "RUNNING"
  BY <1>3, <1>4, <1>5 DEF Only, FlowInv, Shapes, Status
<1>7. PICK j \in Jobs : /\ j = o[2]
                        /\ \/ o[1] = "leaf" /\ o = Leaf(j)
                           \/ o[1] = "group" /\ j \in Dependents /\ o = Group(j)
                           \/ o[1] = "composed" /\ j \in Dependents /\ o = Composed(j)
  BY <1>2, ObjectFacts
<1>8. PICK f \in Frames :
        /\ Body(o) = <<f>>
        /\ o[1] = "leaf" => f.op = "load" /\ f.on = Leaf(j)
        /\ o[1] # "leaf" => f.op \in {"children", "execute"}
  <2>1. CASE o[1] = "leaf"
    <3>1. Body(o) = <<Load(j)>> /\ Load(j) \in Frames
      BY <2>1, <1>7, FramesMade DEF Body
    <3> QED
      BY <3>1, <2>1 DEF Load, Frame
  <2>2. CASE o[1] = "group"
    <3>1. Body(o) = <<Children(j, 1)>> /\ Children(j, 1) \in Frames
      BY <2>2, <1>7, FramesMade DEF Body
    <3> QED
      BY <3>1, <2>2 DEF Children, Frame
  <2>3. CASE o[1] = "composed"
    <3>1. Group(j) \in Objects /\ DependeeCallback(j) \in Allowed(Group(j)) /\ DependeeCallback(j) \in TheCallbacks
      BY <2>3, <1>7, Names, AllowedFacts, CallbackFacts
    <3>2. Body(o) = <<Execute(Group(j), DependeeCallback(j))>> /\ Execute(Group(j), DependeeCallback(j)) \in Frames
      BY <2>3, <3>1, <1>7, FramesMade DEF Body
    <3> QED
      BY <3>2, <2>3 DEF Execute, Frame
  <2> QED
    BY <2>1, <2>2, <2>3, <1>7
<1>9. PICK G : G = {f} /\ Swaps(h, G)
  <2>1. Then(t, <<f>>)
    BY <1>3, <1>8
  <2> QED
    BY <1>1, <2>1, OneSwaps
<1>10. FrameDoes(h, f)
  <2>1. CASE o[1] = "leaf"
    BY <2>1, <1>2, <1>3, <1>7, <1>8 DEF FrameDoes
  <2>2. CASE o[1] # "leaf"
    BY <2>2, <1>8 DEF FrameDoes
  <2> QED
    BY <2>1, <2>2
<1>11. Goes(t, h, G)
  BY <1>3 DEF Goes, WillSave
<1>12. ASSUME NEW i \in Jobs, o = Leaf(i) PROVE LeafDoes(h, G, i)
  <2>1. o[1] = "leaf" /\ Leaf(j) = Leaf(i)
    BY <1>7, <1>12, Names, TokensAre
  <2>2. Works(f, i)
    BY <2>1, <1>8 DEF Works
  <2> QED
    BY <2>2, <1>2, <1>3, <1>6, <1>9, <1>12 DEF LeafDoes
<1>13. \A i \in Dependents : o = Composed(i) => ComposedDoes(h, i)
  BY <1>3, <1>6 DEF ComposedDoes
<1>14. \A g \in G : FrameDoes(h, g)
  BY <1>9, <1>10
<1>15. Swaps(h, G)
  BY <1>9
<1>16. Does(t, h, G)
  BY <1>1, <1>6, <1>11, <1>12, <1>13, <1>14, <1>15, OneDoes
<1> QED
  BY <1>16

(* The callback is called right away by an object that has ended.           *)
LEMMA ExecuteFinishedDoes ==
  ASSUME FlowInv, NEW t \in Threads, ExecuteFinished(t)
  PROVE  \E h, G : Does(t, h, G)
<1>1. PICK h : Takes1(t, h, "execute")
  BY TakesTop DEF ExecuteFinished
<1>2. /\ h \in Frames /\ h.op = "execute" /\ h.on \in Objects /\ h.arg \in TheCallbacks
      /\ h.arg \in Allowed(h.on) /\ h.on = On(t) /\ h.arg = Arg(t)
  BY <1>1, FrameFacts DEF Takes1
<1>3. PICK o \in Objects, c \in TheCallbacks : o = h.on /\ c = h.arg /\ c \in Allowed(o)
  BY <1>2
<1>4. PICK s \in Verdicts : s = IF status[o] = "FAILED" THEN "FAILED" ELSE "SUCCEEDED"
  BY DEF Verdicts
<1>5. PICK told \in Frames : told = Completed(c, s) /\ told.op = "completed" /\ told.on = c /\ told.arg = s
  <2>1. Completed(c, s) \in Frames
    BY FramesMade
  <2> QED
    BY <2>1 DEF Completed, Frame
<1>6. PICK rel \in Frames : rel = Release(o) /\ rel.op = "release"
  BY FramesMade DEF Release, Frame
<1>7. /\ callbacks' = callbacks
      /\ status[o] \in Finished \/ (status[o] = "IGNORED" /\ o[1] # "composed")
      /\ SetStatus(o, IF status[o] = "IGNORED" /\ o[1] = "leaf" THEN "COMPLETED" ELSE status[o])
      /\ Then(t, <<told>>) \/ Then(t, <<told, rel>>)
  BY <1>2, <1>3, <1>4, <1>5, <1>6 DEF ExecuteFinished
<1>8. \E G : Swaps(h, G) /\ told \in G /\ G \subseteq {told, rel}
  <2>1. CASE Then(t, <<told>>)
    <3>1. PICK G : G = {told} /\ Swaps(h, G)
      BY <1>1, <2>1, OneSwaps
    <3> QED
      BY <3>1
  <2>2. CASE Then(t, <<told, rel>>)
    <3>1. PICK G : G = {told, rel} /\ Swaps(h, G)
      BY <1>1, <2>2, TwoSwaps
    <3> QED
      BY <3>1
  <2> QED
    BY <2>1, <2>2, <1>7
<1>9. PICK G : Swaps(h, G) /\ told \in G /\ G \subseteq {told, rel}
  BY <1>8
<1>10. /\ Only(o)
       /\ status'[o] = IF status[o] = "IGNORED" /\ o[1] = "leaf" THEN "COMPLETED" ELSE status[o]
  BY <1>7 DEF Only, FlowInv, Shapes, SetStatus, Status
<1>11. FrameDoes(h, told)
  <2> SUFFICES ASSUME NEW j \in Dependents, c = DependerCallback(j), s = "SUCCEEDED"
               PROVE  status'[Leaf(j)] \in Good
    BY <1>5 DEF FrameDoes
  <2>1. o = Leaf(j) /\ o[1] = "leaf"
    <3>1. DependerCallback(j) \in Allowed(o)
      BY <1>3
    <3>2. o = Leaf(j)
      BY <3>1, GivenTo
    <3> QED
      BY <3>2 DEF Leaf
  <2> QED
    BY <2>1, <1>4, <1>7, <1>10 DEF Finished, Good
<1>12. FrameDoes(h, rel)
  BY <1>6, OtherFrames
<1>13. \A g \in G : FrameDoes(h, g)
  BY <1>9, <1>11, <1>12
<1>14. Goes(t, h, G)
  BY <1>2 DEF Goes, WillSave
<1>15. \E g \in G : WillSave(g)
  BY <1>5, <1>9 DEF WillSave
<1>16. ASSUME NEW j \in Jobs, o = Leaf(j) PROVE LeafDoes(h, G, j)
  BY <1>2, <1>3, <1>10, <1>15, <1>16, Zenon DEF LeafDoes
<1>17. ASSUME NEW j \in Dependents, o = Composed(j) PROVE ComposedDoes(h, j)
  <2>1. o[1] # "leaf"
    BY <1>17, Names, TokensAre
  <2> QED
    BY <2>1, <1>10, <1>17 DEF ComposedDoes
<1>18. /\ \A j \in Jobs : o = Leaf(j) => LeafDoes(h, G, j)
       /\ \A j \in Dependents : o = Composed(j) => ComposedDoes(h, j)
  BY <1>16, <1>17
<1>19. Swaps(h, G)
  BY <1>9
<1>20. Does(t, h, G)
  BY <1>1, <1>7, <1>10, <1>13, <1>14, <1>18, <1>19, OneDoes
<1> QED
  BY <1>20

(* What every step of a thread does.                                        *)
LEMMA StepDoes ==
  ASSUME FlowInv, NEW t \in Threads, Step(t)
  PROVE  \E h, G : Does(t, h, G)
<1>1. \/ LeaveMonitor(t) \/ CancelFinishedLeaf(t) \/ DependeeSaveFails(t) \/ RootCompleted(t)
      \/ JobMissing(t) \/ JobThrows(t) \/ SetReturnProps(t)
      \/ DependeeFailed(t) \/ DependerCompleted(t)
      \/ ExecuteReady(t) \/ ExecuteRunning(t) \/ ExecuteFinished(t) \/ NextChild(t) \/ LoadJob(t)
      \/ JobReturns(t) \/ StartCallbackThread(t) \/ GroupCompleted(t) \/ GroupVerdict(t)
      \/ DependeeSucceeded(t) \/ CancelChildren(t) \/ CancelLeaf(t)
  BY DEF Step
<1>2. CASE LeaveMonitor(t) \/ CancelFinishedLeaf(t) \/ DependeeSaveFails(t) \/ RootCompleted(t)
  BY <1>2, PopDoes
<1>3. CASE JobMissing(t) \/ JobThrows(t) \/ SetReturnProps(t)
  BY <1>3, JobEndsDoes
<1>4. CASE DependeeFailed(t) \/ DependerCompleted(t)
  BY <1>4, FlowEndsDoes
<1> QED
  BY <1>1, <1>2, <1>3, <1>4, ExecuteReadyDoes, ExecuteRunningDoes, ExecuteFinishedDoes, NextChildDoes, LoadJobDoes,
     JobReturnsDoes, StartCallbackThreadDoes, GroupCompletedDoes, GroupVerdictDoes, DependeeSucceededDoes,
     CancelChildrenDoes, CancelLeafDoes

-----------------------------------------------------------------------------
(* What stays.                                                              *)

(* No thread's step is the call of cancel().                                *)
LEMMA StepUncancelled ==
  ASSUME NEW t \in Threads, Step(t)
  PROVE  cancelling' = cancelling
BY DEF Step, ExecuteReady, ExecuteRunning, ExecuteFinished, LeaveMonitor, NextChild, LoadJob,
   JobMissing, JobThrows, JobReturns, SetReturnProps, StartCallbackThread, RootCompleted, GroupCompleted,
   GroupVerdict, DependeeSucceeded, DependeeSaveFails, DependeeFailed, DependerCompleted, CancelChildren,
   CancelFinishedLeaf, CancelLeaf

(* A job that has run well stays so, and so does a composed flow that has   *)
(* ended; until a cancel nothing comes back from FAILED.                    *)
LEMMA EndsHold ==
  ASSUME FlowInv, NEW t \in Threads, NEW h, NEW G, Does(t, h, G)
  PROVE  /\ \A j \in Jobs : status[Leaf(j)] \in Good => status'[Leaf(j)] = status[Leaf(j)]
         /\ \A j \in Dependents : status[Composed(j)] \in Finished => status'[Composed(j)] = status[Composed(j)]
         /\ \A j \in Jobs : AllGood(j) => \A d \in RangeOf(Dependees[j]) : status'[FlowOf(d)] \in Good
         /\ \A j \in Jobs : ~cancelling /\ status[Leaf(j)] = "FAILED" => status'[Leaf(j)] = "FAILED"
         /\ \A j \in Jobs : ~cancelling /\ SomeFailed(j) =>
              \E d \in RangeOf(Dependees[j]) : status'[FlowOf(d)] = "FAILED"
<1>1. Takes1(t, h, h.op) /\ h \in Frames /\ SaysOfLeaf(h) /\ SaysOfCancel(h)
  BY DEF Does, Takes1, Says
<1>2. ASSUME NEW j \in Jobs, status[Leaf(j)] \in Good
      PROVE  status'[Leaf(j)] = status[Leaf(j)]
  <2>1. LeafDoes(h, G, j)
    BY DEF Does
  <2>2. ~Works(h, j)
    BY <1>1, <1>2 DEF Works, SaysOfLeaf, Good
  <2> QED
    BY <2>1, <2>2, <1>2 DEF LeafDoes, Good
<1>3. ASSUME NEW j \in Dependents, status[Composed(j)] \in Finished
      PROVE  status'[Composed(j)] = status[Composed(j)]
  <2>1. ComposedDoes(h, j)
    BY DEF Does
  <2>2. ASSUME h.op = "completed", h.on \in {DependeeCallback(j), DependerCallback(j)}
        PROVE  FALSE
    <3>1. Carries(h, Flow(j))
      BY <2>2, CarriesFacts
    <3>2. Slots(Flow(j)) = {}
      BY <1>1, <3>1, TakenToken, TokensAre
    <3> QED
      BY <3>2, <1>3, FlowSlots
  <2> QED
    BY <2>1, <2>2, <1>3 DEF ComposedDoes, Finished, Good
<1>4. ASSUME NEW j \in Jobs, ~cancelling, status[Leaf(j)] = "FAILED"
      PROVE  status'[Leaf(j)] = "FAILED"
  <2>1. LeafDoes(h, G, j)
    BY DEF Does
  <2>2. ~Works(h, j)
    BY <1>1, <1>4 DEF Works, SaysOfLeaf
  <2> QED
    BY <2>1, <2>2, <1>4 DEF LeafDoes
<1>5. ASSUME NEW j \in Jobs
      PROVE  /\ status[FlowOf(j)] \in Good => status'[FlowOf(j)] \in Good
             /\ ~cancelling /\ status[FlowOf(j)] = "FAILED" => status'[FlowOf(j)] = "FAILED"
  <2>1. CASE j \in Dependents
    BY <2>1, <1>3 DEF FlowOf, Finished, Good
  <2>2. CASE j \notin Dependents
    BY <2>2, <1>2, <1>4 DEF FlowOf
  <2> QED
    BY <2>1, <2>2
<1>6. ASSUME NEW j \in Jobs
      PROVE  /\ AllGood(j) => \A d \in RangeOf(Dependees[j]) : status'[FlowOf(d)] \in Good
             /\ ~cancelling /\ SomeFailed(j) =>
                  \E d \in RangeOf(Dependees[j]) : status'[FlowOf(d)] = "FAILED"
  BY <1>5, DependeesOfJob DEF AllGood, SomeFailed
<1> QED
  BY <1>2, <1>3, <1>4, <1>6

(* A frame that comes up after a job's is of the job that was at work.      *)
LEMMA WorkGoesOn ==
  ASSUME FlowInv, NEW t \in Threads, NEW h, NEW G, Does(t, h, G), NEW j \in Jobs,
         AtWork(j)'
  PROVE  AtWork(j) \/ (h.op = "execute" /\ h.on = Leaf(j))
<1>1. h \in Now /\ Now' \subseteq Now \cup G /\ LeafDoes(h, G, j) /\ \A g \in G : FrameDoes(h, g)
  BY DEF Does, Swaps
<1>2. status'[Leaf(j)] \in {"RUNNING", "SUCCEEDED"} \/ \E f \in Now' : Works(f, j)
  BY DEF AtWork, Works, Leaf
<1>3. Works(h, j) => AtWork(j)
  BY <1>1 DEF AtWork
<1>4. CASE status'[Leaf(j)] \in {"RUNNING", "SUCCEEDED"}
  BY <1>1, <1>3, <1>4 DEF LeafDoes, AtWork
<1>5. ASSUME NEW f \in Now', Works(f, j)
      PROVE  AtWork(j) \/ (h.op = "execute" /\ h.on = Leaf(j))
  <2>1. CASE f \in Now
    BY <2>1, <1>5 DEF AtWork
  <2>2. CASE f \in G
    <3>1. FrameDoes(h, f)
      BY <1>1, <2>2
    <3>2. (h.op = "execute" \/ h.op = "load") /\ h.on = Leaf(j)
      BY <3>1, <1>5 DEF FrameDoes, Works
    <3> QED
      BY <3>2, <1>3 DEF Works
  <2> QED
    BY <1>1, <2>1, <2>2
<1> QED
  BY <1>2, <1>4, <1>5

(* A job is at work after its dependees.                                    *)
LEMMA AfterStep ==
  ASSUME FlowInv, AfterDependees, NEW t \in Threads, NEW h, NEW G, Does(t, h, G)
  PROVE  AfterDependees'
<1>1. ASSUME NEW j \in Jobs, AtWork(j)'
      PROVE  AllGood(j)'
  <2>1. AtWork(j) \/ (h.op = "execute" /\ h.on = Leaf(j))
    BY <1>1, WorkGoesOn
  <2>2. SaysOfDependees(h)
    BY DEF Does, Takes1, Says
  <2>3. j \notin Dependents => AllGood(j)
    BY DependeesOfJob DEF AllGood
  <2>4. AllGood(j)
    BY <2>1, <2>2, <2>3 DEF AfterDependees, SaysOfDependees
  <2>5. \A d \in RangeOf(Dependees[j]) : status'[FlowOf(d)] \in Good
    BY <2>4, EndsHold
  <2> QED
    BY <2>5 DEF AllGood, RangeOf, FlowOf, Dependents, Leaf, Composed
<1> QED
  BY <1>1 DEF AfterDependees

(* What composed flows, and those that are to tell them, know.              *)
LEMMA KnowStep ==
  ASSUME FlowInv, ComposedKnow, NEW t \in Threads, NEW h, NEW G, Does(t, h, G)
  PROVE  ComposedKnow'
<1>1. h \in Now /\ h \in Frames /\ Now' \subseteq Now \cup G /\ \A g \in G : FrameDoes(h, g)
  BY DEF Does, Swaps, Takes1
<1>2. \A j \in Dependents : status[Leaf(j)] \in Good => status'[Leaf(j)] \in Good
  BY EndsHold, TokensAre
<1>3. ASSUME NEW j \in Dependents
      PROVE  /\ status'[Composed(j)] # "COMPLETED"
             /\ status'[Composed(j)] = "SUCCEEDED" => status'[Leaf(j)] \in Good
  <2>1. ComposedDoes(h, j)
    BY DEF Does
  <2>2. h.op = "completed" => h.arg \in Verdicts
    BY <1>1, FrameFacts
  <2>3. h.op = "completed" /\ h.on = DependerCallback(j) /\ h.arg = "SUCCEEDED" => status[Leaf(j)] \in Good
    BY <1>1 DEF ComposedKnow
  <2>4. /\ status[Composed(j)] # "COMPLETED"
        /\ status[Composed(j)] = "SUCCEEDED" => status[Leaf(j)] \in Good
    BY DEF ComposedKnow
  <2> QED
    BY <1>2, <2>1, <2>2, <2>3, <2>4 DEF ComposedDoes, Verdicts
<1>4. ASSUME NEW f \in Now', NEW j \in Dependents, f.op = "completed", f.on = DependerCallback(j), f.arg = "SUCCEEDED"
      PROVE  status'[Leaf(j)] \in Good
  <2>1. CASE f \in Now
    BY <2>1, <1>2, <1>4 DEF ComposedKnow
  <2>2. CASE f \in G
    BY <2>2, <1>1, <1>4 DEF FrameDoes
  <2> QED
    BY <1>1, <2>1, <2>2
<1> QED
  BY <1>3, <1>4 DEF ComposedKnow, Composed, Leaf, DependerCallback

(* Until a cancel, what a leaf has to tell when it ends is not nothing.     *)
LEMMA ListsStep ==
  ASSUME FlowInv, RunningIsAsked, ListsFull, NEW t \in Threads, Step(t), NEW h, NEW G, Does(t, h, G)
  PROVE  ListsFull'
<1> SUFFICES ASSUME ~cancelling', NEW f \in Now'
             PROVE  /\ f.op = "callCallbacks" => f.arg # <<>>
                    /\ f.op = "generated" => callbacks'[f.on] # <<>>
  BY DEF ListsFull
<1>1. /\ h \in Now /\ h \in Frames /\ Now' \subseteq Now \cup G /\ (FrameDoes(h, f) \/ f \in Now)
      /\ SaysOfLeaf(h) /\ SaysOfCancel(h)
  BY DEF Does, Swaps, Takes1, Says
<1>2. ~cancelling /\ h.op # "cancel"
  BY <1>1, StepUncancelled DEF SaysOfCancel
<1>3. ASSUME h.op \in {"load", "running", "generated"}
      PROVE  callbacks[h.on] # <<>>
  <2>1. CASE h.op = "generated"
    BY <2>1, <1>1, <1>2 DEF ListsFull
  <2>2. CASE h.op \in {"load", "running"}
    <3>1. status[h.on] = "RUNNING"
      BY <2>2, <1>1, <1>2 DEF SaysOfLeaf
    <3>2. h.on \in Leaves
      BY <2>2, <1>1, FrameFacts
    <3> QED
      BY <3>1, <3>2 DEF RunningIsAsked, Leaves
  <2> QED
    BY <1>3, <2>1, <2>2
<1>4. CASE f \in Now
  <2>1. /\ f.op = "callCallbacks" => f.arg # <<>>
        /\ f.op = "generated" => callbacks[f.on] # <<>>
    BY <1>2, <1>4 DEF ListsFull
  <2>2. f.op = "generated" => f.on \in Objects
    BY <1>4, NowFacts, FrameFacts, Names DEF Leaves
  <2> QED
    BY <2>1, <2>2, <1>2 DEF Does
<1>5. CASE FrameDoes(h, f)
  BY <1>3, <1>5 DEF FrameDoes
<1> QED
  BY <1>1, <1>4, <1>5

(* Until a cancel, a composed flow ended as its depender did or after a     *)
(* dependee failed.                                                         *)
LEMMA EndedStep ==
  ASSUME FlowInv, ComposedKnow, ComposedEnded, NEW t \in Threads, Step(t), NEW h, NEW G, Does(t, h, G),
         ComposedKnow'
  PROVE  ComposedEnded'
<1> SUFFICES ASSUME ~cancelling', NEW j \in Dependents
             PROVE  /\ status'[Composed(j)] = "SUCCEEDED" => status'[Leaf(j)] \in Good
                    /\ status'[Composed(j)] = "FAILED" =>
                         status'[Leaf(j)] = "FAILED" \/ (NotRun(j) /\ SomeFailed(j))'
  BY DEF ComposedEnded, Composed, Leaf
<1>1. /\ Takes1(t, h, h.op) /\ h \in Frames /\ SaysOfLeaf(h) /\ SaysOfCancel(h) /\ SaysOfTurn(h)
      /\ SaysOfVerdict(h) /\ SaysOfDependees(h) /\ LeafDoes(h, G, j) /\ ComposedDoes(h, j)
  BY TokensAre DEF Does, Takes1, Says
<1>2. ~cancelling /\ h.op # "cancel"
  BY <1>1, StepUncancelled DEF SaysOfCancel
<1>3. status'[Composed(j)] = "SUCCEEDED" => status'[Leaf(j)] \in Good
  BY DEF ComposedKnow, Composed, Leaf
<1>4. /\ status[Leaf(j)] = "FAILED" => status'[Leaf(j)] = "FAILED"
      /\ SomeFailed(j) => SomeFailed(j)'
  <2>1. /\ status[Leaf(j)] = "FAILED" => status'[Leaf(j)] = "FAILED"
        /\ SomeFailed(j) => \E d \in RangeOf(Dependees[j]) : status'[FlowOf(d)] = "FAILED"
    BY <1>2, EndsHold, TokensAre
  <2> QED
    BY <2>1 DEF SomeFailed, RangeOf, FlowOf, Dependents, Leaf, Composed
<1>5. NotRun(j)' <=> status'[Leaf(j)] \in {"READY", "IGNORED"}
  BY DEF NotRun, Leaf
<1>6. ASSUME status'[Composed(j)] = "FAILED"
      PROVE  status'[Leaf(j)] = "FAILED" \/ (NotRun(j)' /\ SomeFailed(j)')
  <2>1. CASE status'[Composed(j)] = status[Composed(j)]
    <3>1. status[Leaf(j)] = "FAILED" \/ (NotRun(j) /\ SomeFailed(j))
      BY <2>1, <1>2, <1>6 DEF ComposedEnded
    <3>2. ~Works(h, j) \/ ~NotRun(j)
      BY <1>1, <1>2 DEF Works, SaysOfLeaf, NotRun
    <3>3. ASSUME h.op = "execute", h.on = Leaf(j)
          PROVE  FALSE
      <4>1. h.arg = DependerCallback(j)
        BY <3>3, <1>1, FrameFacts, AllowedFacts
      <4>2. Carries(h, Flow(j))
        BY <3>3, <4>1, CarriesFacts
      <4>3. Slots(Flow(j)) = {}
        BY <1>1, <4>2, TakenToken, TokensAre
      <4> QED
        BY <4>3, <2>1, <1>6, FlowSlots DEF Finished
    <3>4. NotRun(j) => NotRun(j)'
      BY <3>2, <3>3, <1>1, <1>2, <1>5 DEF LeafDoes, NotRun
    <3> QED
      BY <3>1, <3>4, <1>4
  <2>2. CASE h.op = "completed" /\ h.arg = "FAILED" /\ h.on = DependerCallback(j)
    <3>1. status[Leaf(j)] = "FAILED"
      BY <2>2, <1>1, <1>2 DEF SaysOfVerdict, Means
    <3> QED
      BY <3>1, <1>4
  <2>3. CASE h.op = "completed" /\ h.arg = "FAILED" /\ h.on = DependeeCallback(j)
    <3>1. NotRun(j) /\ SomeFailed(j)
      BY <2>3, <1>1, <1>2 DEF SaysOfTurn, SaysOfDependees
    <3>2. status'[Leaf(j)] = status[Leaf(j)]
      BY <2>3, <1>1 DEF LeafDoes, Works
    <3> QED
      BY <3>1, <3>2, <1>4, <1>5 DEF NotRun
  <2> QED
    BY <2>1, <2>2, <2>3, <1>1, <1>6 DEF ComposedDoes
<1> QED
  BY <1>3, <1>6

(* A cancel(), or nothing, changes no state and takes no frame on.          *)
LEMMA QuietNow ==
  ASSUME FlowInv, CancelRoot \/ UNCHANGED vars
  PROVE  /\ status' = status /\ callbacks' = callbacks /\ (cancelling => cancelling')
         /\ \A f \in Now' : f \in Now \/ f.op = "cancel"
<1>1. CASE CancelRoot
  <2>1. UNCHANGED <<status, callbacks>> /\ cancelling'
        /\ stack' = [stack EXCEPT ![Canceller] = <<Cancel(FlowOf(Root))>>]
    BY <1>1 DEF CancelRoot
  <2>2. stack \in [Threads -> Seq(Frames)] /\ Canceller \in Threads
    BY DEF FlowInv, Shapes, Threads
  <2>3. PICK f \in Frames : f = Cancel(FlowOf(Root)) /\ f.op = "cancel"
    <3>1. Cancel(FlowOf(Root)) \in Frames
      BY FramesMade, Names, TokensAre
    <3> QED
      BY <3>1 DEF Cancel, Frame
  <2>4. /\ \A u \in Threads \ {Canceller} : stack'[u] = stack[u]
        /\ stack'[Canceller] = <<f>>
    BY <2>1, <2>2, <2>3
  <2>5. /\ \A u \in Threads \ {Canceller} : RangeOf(stack'[u]) = RangeOf(stack[u])
        /\ RangeOf(stack'[Canceller]) = {f}
    BY <2>4, ShortRange
  <2>6. Now' = UNION {RangeOf(stack'[u]) : u \in Threads}
    BY DEF Now, RangeOf
  <2>7. Now' \subseteq Now \cup {f}
    BY <2>5, <2>6 DEF Now
  <2> QED
    BY <2>1, <2>3, <2>7
<1>2. CASE UNCHANGED vars
  <2>1. UNCHANGED <<status, callbacks, stack, cancelling>>
    BY <1>2 DEF vars
  <2>2. Now' = Now
    BY <2>1 DEF Now, RangeOf
  <2> QED
    BY <2>1, <2>2
<1> QED
  BY <1>1, <1>2

(* ... and leaves what is known.                                            *)
LEMMA QuietSteps ==
  ASSUME FlowInv, CancelRoot \/ UNCHANGED vars
  PROVE  /\ AfterDependees => AfterDependees'
         /\ ComposedKnow => ComposedKnow'
         /\ ListsFull => ListsFull'
         /\ ComposedEnded => ComposedEnded'
<1>1. /\ status' = status /\ callbacks' = callbacks /\ (cancelling => cancelling')
      /\ \A f \in Now' : f \in Now \/ f.op = "cancel"
  BY QuietNow
<1>2. /\ \A j : AllGood(j)' <=> AllGood(j)
      /\ \A j : SomeFailed(j)' <=> SomeFailed(j)
      /\ \A j : NotRun(j)' <=> NotRun(j)
  BY <1>1 DEF AllGood, SomeFailed, NotRun, RangeOf, FlowOf, Dependents, Leaf, Composed
<1>3. \A j : AtWork(j)' => AtWork(j)
  BY <1>1 DEF AtWork, Works, Leaf
<1>4. AfterDependees => AfterDependees'
  BY <1>2, <1>3 DEF AfterDependees
<1>5. ComposedKnow => ComposedKnow'
  BY <1>1 DEF ComposedKnow, Composed, Leaf, DependerCallback
<1>6. ListsFull => ListsFull'
  BY <1>1 DEF ListsFull
<1>7. ComposedEnded => ComposedEnded'
  BY <1>1, <1>2 DEF ComposedEnded, Composed, Leaf
<1> QED
  BY <1>4, <1>5, <1>6, <1>7

(* Nobody asked to ignore the dependencies.                                 *)
NoneSkipped == \A o \in Objects : status[o] # "COMPLETED"

(* The first frames only execute.                                           *)
LEMMA FirstNow ==
  ASSUME Init
  PROVE  /\ \A f \in Now : f.op = "execute"
         /\ \A o \in Objects : status[o] \in {"READY", "IGNORED", "COMPLETED"}
<1>1. PICK e \in Frames : e = Execute(FlowOf(Root), RootCallback) /\ e.op = "execute"
  <2>1. FlowOf(Root) \in Objects /\ RootCallback \in Allowed(FlowOf(Root)) /\ RootCallback \in TheCallbacks
    BY Names, TokensAre, AllowedFacts, CallbackFacts DEF Asked
  <2>2. Execute(FlowOf(Root), RootCallback) \in Frames
    BY <2>1, FramesMade
  <2> QED
    BY <2>2 DEF Execute, Frame
<1>2. \A t \in Threads : stack[t] = <<e>> \/ stack[t] = <<>>
  BY <1>1 DEF Init
<1>3. \A t \in Threads : RangeOf(stack[t]) = {e} \/ RangeOf(stack[t]) = {}
  BY <1>2, ShortRange
<1>4. \A f \in Now : f.op = "execute"
  BY <1>1, <1>3 DEF Now
<1>5. \A o \in Objects : status[o] \in {"READY", "IGNORED", "COMPLETED"}
  BY DEF Init, InitStatus
<1> QED
  BY <1>4, <1>5

(* Jobs run after their dependees, and composed flows know it.              *)
LEMMA KnowAlways == Spec /\ NoneSkipped => [](AfterDependees /\ ComposedKnow)
<1>1. Init /\ NoneSkipped => AfterDependees /\ ComposedKnow
  <2> SUFFICES ASSUME Init, NoneSkipped
               PROVE  AfterDependees /\ ComposedKnow
    OBVIOUS
  <2>1. \A o \in Objects : status[o] \in {"READY", "IGNORED"}
    BY FirstNow DEF NoneSkipped
  <2>2. /\ \A j \in Jobs : Leaf(j) \in Objects
        /\ \A j \in Dependents : Composed(j) \in Objects
    BY Names, TokensAre
  <2>3. AfterDependees
    BY <2>1, <2>2, FirstNow DEF AfterDependees, AtWork, Works
  <2>4. ComposedKnow
    BY <2>1, <2>2, FirstNow DEF ComposedKnow
  <2> QED
    BY <2>3, <2>4
<1>2. ASSUME FlowInv, AfterDependees /\ ComposedKnow, [Next]_vars
      PROVE  (AfterDependees /\ ComposedKnow)'
  <2>1. CASE \E t \in Threads : Step(t)
    <3>1. PICK t \in Threads : Step(t)
      BY <2>1
    <3>2. PICK h, G : Does(t, h, G)
      BY <1>2, <3>1, StepDoes
    <3>3. AfterDependees'
      BY <1>2, <3>2, AfterStep
    <3>4. ComposedKnow'
      BY <1>2, <3>2, KnowStep
    <3> QED
      BY <3>3, <3>4
  <2>2. CASE CancelRoot \/ UNCHANGED vars
    BY <1>2, <2>2, QuietSteps
  <2> QED
    BY <1>2, <2>1, <2>2 DEF Next, Quiesced
<1> QED
  BY <1>1, <1>2, InvAlways, PTL DEF Spec

(* Until a cancel, what is told is not told to nobody, and composed flows   *)
(* end as their parts did.                                                  *)
LEMMA EndedAlways == Spec /\ NoneSkipped /\ Careful => [](ListsFull /\ ComposedEnded)
<1>1. Init /\ NoneSkipped => ListsFull /\ ComposedEnded
  <2> SUFFICES ASSUME Init, NoneSkipped
               PROVE  ListsFull /\ ComposedEnded
    OBVIOUS
  <2>1. \A j \in Dependents : status[Composed(j)] \in {"READY", "IGNORED"}
    BY FirstNow, Names, TokensAre DEF NoneSkipped
  <2>2. ComposedEnded
    BY <2>1 DEF ComposedEnded
  <2>3. ListsFull
    BY FirstNow DEF ListsFull
  <2> QED
    BY <2>2, <2>3
<1>2. ASSUME FlowInv, LiveInv, ComposedKnow, ComposedKnow', ListsFull /\ ComposedEnded, [Next]_vars
      PROVE  (ListsFull /\ ComposedEnded)'
  <2>1. CASE \E t \in Threads : Step(t)
    <3>1. PICK t \in Threads : Step(t)
      BY <2>1
    <3>2. PICK h, G : Does(t, h, G)
      BY <1>2, <3>1, StepDoes
    <3>3. RunningIsAsked
      BY <1>2 DEF LiveInv
    <3>4. ListsFull'
      BY <1>2, <3>1, <3>2, <3>3, ListsStep
    <3>5. ComposedEnded'
      BY <1>2, <3>1, <3>2, EndedStep
    <3> QED
      BY <3>4, <3>5
  <2>2. CASE CancelRoot \/ UNCHANGED vars
    BY <1>2, <2>2, QuietSteps
  <2> QED
    BY <1>2, <2>1, <2>2 DEF Next, Quiesced
<1>3. Spec /\ NoneSkipped => []ComposedKnow
  BY KnowAlways, PTL
<1>4. Spec /\ Careful => [](FlowInv /\ LiveInv)
  BY NobodyIsForgotten, PTL
<1> QED
  BY <1>1, <1>2, <1>3, <1>4, PTL DEF Spec

-----------------------------------------------------------------------------
(* The file.                                                                *)

(* Saves do not touch the flow: what is true of every execution is true of  *)
(* one that is saved on the way.                                            *)
THEOREM SavesOnlyWatch == FileSpec => Spec
<1>1. FileInit => Init
  BY DEF FileInit
<1>2. [FileNext]_savedVars => [Next]_vars
  BY DEF FileNext, FlowStep, PoolSave, ReadLeaf, WriteFile, savedVars, Next
<1> QED
  BY <1>1, <1>2, PTL DEF FileSpec, Spec

Descriptors == [state : Status, props : SUBSET Jobs]

(* What has been read or written is what leaves were, and Good only if they *)
(* still are.                                                               *)
Describes(read, now) ==
  /\ read = [j \in DOMAIN read |-> read[j]] /\ DOMAIN read \subseteq Jobs
  /\ \A j \in DOMAIN read :
       read[j] \in Descriptors /\ (read[j].state \in Good => now[Leaf(j)] \in Good)

(* What is in the file, and on its way there.                               *)
TextInv ==
  /\ whole \in BOOLEAN /\ poolSaved \in BOOLEAN
  /\ \A t \in Threads : saver[t].busy \in BOOLEAN /\ Describes(saver[t].read, status)
  /\ saver = [t \in Threads |-> [busy |-> saver[t].busy, read |-> saver[t].read]]
  /\ Describes(file, status) /\ (InFile => DOMAIN file = Jobs)
  /\ whole /\ InFile => \A j \in Jobs : file[j].state = "SUCCEEDED" =>
       \A d \in RangeOf(Dependees[j]) : file[d].state \in Good

(* An empty file, and a save that has read nothing, say nothing.            *)
LEMMA NothingSaid == Describes(<<>>, status) /\ DOMAIN <<>> = {}
BY DEF Describes

(* What is read of a leaf.                                                  *)
LEMMA LeafRead ==
  ASSUME FlowInv, OthersTyped, NEW j \in Jobs
  PROVE  Descriptor(j) \in Descriptors /\ Descriptor(j).state = status[Leaf(j)]
<1>1. Leaf(j) \in Objects
  BY Names
<1>2. status[Leaf(j)] \in Status /\ props[Leaf(j)] \in SUBSET Jobs
  BY <1>1 DEF FlowInv, Shapes, OthersTyped
<1> QED
  BY <1>2 DEF Descriptor, Descriptors

(* A good leaf stays good.                                                  *)
LEMMA GoodStays ==
  ASSUME FlowInv, [Next]_vars, NEW j \in Jobs, status[Leaf(j)] \in Good
  PROVE  status'[Leaf(j)] \in Good
<1>1. ASSUME NEW t \in Threads, Step(t)
      PROVE  status'[Leaf(j)] \in Good
  <2>1. PICK h, G : Does(t, h, G)
    BY <1>1, StepDoes
  <2> QED
    BY <1>1, <2>1, EndsHold
<1>2. CASE CancelRoot \/ UNCHANGED vars
  BY <1>2, QuietNow
<1> QED
  BY <1>1, <1>2 DEF Next, Quiesced

(* What was said stays true.                                                *)
LEMMA SaidStays ==
  ASSUME FlowInv, [Next]_vars, NEW read, Describes(read, status)
  PROVE  Describes(read, status')
<1>1. \A j \in DOMAIN read : read[j].state \in Good => status'[Leaf(j)] \in Good
  BY GoodStays DEF Describes
<1> QED
  BY <1>1 DEF Describes, Descriptors, Leaf

(* One leaf is read after the other.                                        *)
LEMMA OneMoreRead ==
  ASSUME FlowInv, OthersTyped, NEW read, Describes(read, status), NEW j \in Jobs
  PROVE  Describes(With(read, j), status)
<1> DEFINE more == With(read, j)
<1>1. more = [x \in {j} \cup DOMAIN read |-> IF x = j THEN Descriptor(j) ELSE read[x]]
  BY DEF With
<1>2. Descriptor(j) \in Descriptors /\ Descriptor(j).state = status[Leaf(j)]
  BY LeafRead
<1> HIDE DEF more
<1>3. DOMAIN more = {j} \cup DOMAIN read
  BY <1>1
<1>4. \A x \in DOMAIN more : more[x] = IF x = j THEN Descriptor(j) ELSE read[x]
  BY <1>1, <1>3
<1>5. more = [x \in DOMAIN more |-> more[x]]
  BY <1>1, <1>3
<1>6. DOMAIN more \subseteq Jobs
  BY <1>3 DEF Describes
<1>7. \A x \in DOMAIN more : more[x] \in Descriptors /\ (more[x].state \in Good => status[Leaf(x)] \in Good)
  BY <1>2, <1>3, <1>4 DEF Describes
<1>8. Describes(more, status)
  BY <1>5, <1>6, <1>7 DEF Describes
<1> QED
  BY <1>8 DEF more

(* The parts of a file's invariant that a step has to look at.              *)
LEMMA FileParts ==
  ASSUME whole' \in BOOLEAN, poolSaved' \in BOOLEAN,
         \A t \in Threads : saver'[t].busy \in BOOLEAN /\ Describes(saver'[t].read, status'),
         saver' = [t \in Threads |-> [busy |-> saver'[t].busy, read |-> saver'[t].read]],
         Describes(file', status'), file' # <<>> => DOMAIN file' = Jobs,
         whole' /\ file' # <<>> => \A j \in Jobs : file'[j].state = "SUCCEEDED" =>
           \A d \in RangeOf(Dependees[j]) : file'[d].state \in Good
  PROVE  TextInv'
BY DEF TextInv, InFile, RangeOf

(* A thread's save changes, the others' do not.                             *)
LEMMA SaverStep ==
  ASSUME TextInv, NEW t \in Threads, NEW s, s = [busy |-> s.busy, read |-> s.read], s.busy \in BOOLEAN,
         saver' = [saver EXCEPT ![t] = s], NEW now, Describes(s.read, now),
         \A u \in Threads : Describes(saver[u].read, now)
  PROVE  /\ \A u \in Threads : saver'[u].busy \in BOOLEAN /\ Describes(saver'[u].read, now)
         /\ saver' = [u \in Threads |-> [busy |-> saver'[u].busy, read |-> saver'[u].read]]
<1>1. /\ saver = [u \in Threads |-> [busy |-> saver[u].busy, read |-> saver[u].read]]
      /\ \A u \in Threads : saver[u].busy \in BOOLEAN
  BY DEF TextInv
<1>2. saver' = [u \in Threads |-> IF u = t THEN s ELSE saver[u]]
  BY <1>1
<1>3. \A u \in Threads : saver'[u] = IF u = t THEN s ELSE saver[u]
  BY <1>2
<1>4. \A u \in Threads : saver[u] = [busy |-> saver[u].busy, read |-> saver[u].read]
  BY <1>1
<1>5. \A u \in Threads : saver'[u].busy \in BOOLEAN /\ Describes(saver'[u].read, now)
  BY <1>1, <1>3
<1>6. \A u \in Threads : saver'[u] = [busy |-> saver'[u].busy, read |-> saver'[u].read]
  BY <1>3, <1>4
<1>7. saver' = [u \in Threads |-> saver'[u]]
  BY <1>2, <1>3
<1> QED
  BY <1>5, <1>6, <1>7

(* No save, and one that begins.                                            *)
LEMMA NoRead ==
  /\ NotSaving = [busy |-> NotSaving.busy, read |-> NotSaving.read] /\ NotSaving.busy = FALSE
  /\ Saving = [busy |-> Saving.busy, read |-> Saving.read] /\ Saving.busy = TRUE
  /\ NotSaving.read = <<>> /\ Saving.read = <<>>
BY DEF NotSaving, Saving

(* The flow goes on.                                                        *)
LEMMA FlowStepFile ==
  ASSUME FlowInv, OthersTyped, TextInv, [Next]_vars, UNCHANGED <<file, poolSaved, whole>>,
         UNCHANGED saver \/ \E t \in Threads : Begin(t)
  PROVE  TextInv'
<1>1. \A read : Describes(read, status) => Describes(read, status')
  BY SaidStays
<1>2. Describes(file', status') /\ \A u \in Threads : Describes(saver[u].read, status')
  BY <1>1 DEF TextInv
<1>3. /\ \A u \in Threads : saver'[u].busy \in BOOLEAN /\ Describes(saver'[u].read, status')
      /\ saver' = [u \in Threads |-> [busy |-> saver'[u].busy, read |-> saver'[u].read]]
  <2>1. CASE UNCHANGED saver
    BY <2>1, <1>2 DEF TextInv
  <2>2. CASE \E t \in Threads : Begin(t)
    <3>1. PICK t \in Threads : saver' = [saver EXCEPT ![t] = Saving]
      BY <2>2 DEF Begin
    <3>2. Describes(Saving.read, status')
      BY NoRead DEF Describes
    <3> QED
      BY <3>1, <3>2, <1>2, NoRead, SaverStep
  <2> QED
    BY <2>1, <2>2
<1>4. /\ whole' \in BOOLEAN /\ poolSaved' \in BOOLEAN /\ (file' # <<>> => DOMAIN file' = Jobs)
      /\ whole' /\ file' # <<>> => \A j \in Jobs : file'[j].state = "SUCCEEDED" =>
           \A d \in RangeOf(Dependees[j]) : file'[d].state \in Good
  BY DEF TextInv, InFile
<1> QED
  BY <1>2, <1>3, <1>4, FileParts

(* A leaf is read.                                                          *)
LEMMA ReadLeafFile ==
  ASSUME FlowInv, OthersTyped, TextInv, NEW t \in Threads, ReadLeaf(t)
  PROVE  TextInv'
<1>1. UNCHANGED <<status, file, poolSaved, whole>>
  BY DEF ReadLeaf, vars
<1>2. PICK j \in Jobs : saver' = [saver EXCEPT ![t].read = With(saver[t].read, j)]
  BY DEF ReadLeaf, NextLeaves
<1>3. /\ saver = [u \in Threads |-> [busy |-> saver[u].busy, read |-> saver[u].read]]
      /\ \A u \in Threads : saver[u].busy \in BOOLEAN /\ Describes(saver[u].read, status)
  BY DEF TextInv
<1>4. PICK s : s = [busy |-> saver[t].busy, read |-> With(saver[t].read, j)]
  OBVIOUS
<1>5. saver' = [saver EXCEPT ![t] = s]
  <2>1. PICK v : v = With(saver[t].read, j)
    OBVIOUS
  <2>2. saver' = [saver EXCEPT ![t].read = v]
    BY <1>2, <2>1
  <2>3. saver[t] = [busy |-> saver[t].busy, read |-> saver[t].read]
    BY <1>3
  <2>4. [saver[t] EXCEPT !.read = v] = [busy |-> saver[t].busy, read |-> v]
    BY <2>3
  <2>5. s = [busy |-> saver[t].busy, read |-> v]
    BY <1>4, <2>1
  <2>6. saver' = [saver EXCEPT ![t] = [saver[t] EXCEPT !.read = v]]
    BY <2>2
  <2> QED
    BY <2>4, <2>5, <2>6
<1>6. Describes(s.read, status)
  BY <1>3, <1>4, OneMoreRead
<1>7. s = [busy |-> s.busy, read |-> s.read] /\ s.busy \in BOOLEAN
  BY <1>3, <1>4
<1>8. /\ \A u \in Threads : saver'[u].busy \in BOOLEAN /\ Describes(saver'[u].read, status')
      /\ saver' = [u \in Threads |-> [busy |-> saver'[u].busy, read |-> saver'[u].read]]
  BY <1>1, <1>3, <1>5, <1>6, <1>7, SaverStep
<1>9. /\ whole' \in BOOLEAN /\ poolSaved' \in BOOLEAN /\ (file' # <<>> => DOMAIN file' = Jobs)
      /\ whole' /\ file' # <<>> => \A i \in Jobs : file'[i].state = "SUCCEEDED" =>
           \A d \in RangeOf(Dependees[i]) : file'[d].state \in Good
      /\ Describes(file', status')
  BY <1>1 DEF TextInv, InFile
<1> QED
  BY <1>8, <1>9, FileParts

(* The file is written.                                                     *)
LEMMA WriteFileFile ==
  ASSUME FlowInv, OthersTyped, TextInv, AfterDependees, ComposedKnow, NEW t \in Threads, WriteFile(t)
  PROVE  TextInv'
<1>1. UNCHANGED <<status, poolSaved, whole>> /\ saver' = [saver EXCEPT ![t] = NotSaving]
  BY DEF WriteFile, vars
<1>2. \A u \in Threads : Describes(saver[u].read, status)
  BY DEF TextInv
<1>3. /\ \A u \in Threads : saver'[u].busy \in BOOLEAN /\ Describes(saver'[u].read, status')
      /\ saver' = [u \in Threads |-> [busy |-> saver'[u].busy, read |-> saver'[u].read]]
  <2>1. Describes(NotSaving.read, status)
    BY NoRead, NothingSaid
  <2> QED
    BY <1>1, <1>2, <2>1, NoRead, SaverStep
<1>4. whole' \in BOOLEAN /\ poolSaved' \in BOOLEAN
  BY <1>1 DEF TextInv
<1>5. CASE whole /\ file' = [j \in Jobs |-> Descriptor(j)]
  <2>1. \A j \in Jobs : Descriptor(j) \in Descriptors /\ Descriptor(j).state = status[Leaf(j)]
    BY LeafRead
  <2>2. DOMAIN file' = Jobs /\ \A j \in Jobs : file'[j] = Descriptor(j)
    BY <1>5
  <2>3. Describes(file', status')
    BY <1>1, <1>5, <2>1, <2>2 DEF Describes
  <2>4. ASSUME NEW j \in Jobs, file'[j].state = "SUCCEEDED", NEW d \in RangeOf(Dependees[j])
        PROVE  file'[d].state \in Good
    <3>1. status[Leaf(j)] = "SUCCEEDED"
      BY <2>1, <2>2, <2>4
    <3>2. status[FlowOf(d)] \in Good /\ d \in Jobs
      BY <3>1, <2>4, DependeesOfJob DEF AfterDependees, AtWork, AllGood
    <3>3. status[Leaf(d)] \in Good
      BY <3>2 DEF ComposedKnow, FlowOf, Good
    <3> QED
      BY <2>1, <2>2, <3>2, <3>3
  <2> QED
    BY <1>3, <1>4, <2>2, <2>3, <2>4, FileParts
<1>6. CASE ~whole /\ DOMAIN saver[t].read = Jobs /\ file' = saver[t].read
  <2>1. Describes(file', status') /\ DOMAIN file' = Jobs
    BY <1>1, <1>2, <1>6
  <2> QED
    BY <1>1, <1>3, <1>4, <1>6, <2>1, FileParts
<1> QED
  BY <1>5, <1>6 DEF WriteFile

(* The pool thread's save begins.                                           *)
LEMMA PoolSaveFile ==
  ASSUME FlowInv, OthersTyped, TextInv, PoolSave
  PROVE  TextInv'
<1>1. UNCHANGED <<status, file, whole>> /\ saver' = [saver EXCEPT ![Main] = Saving] /\ poolSaved' = TRUE
  BY DEF PoolSave, Begin, vars
<1>2. \A u \in Threads : Describes(saver[u].read, status)
  BY DEF TextInv
<1>3. Main \in Threads
  BY DEF Threads
<1>4. /\ \A u \in Threads : saver'[u].busy \in BOOLEAN /\ Describes(saver'[u].read, status')
      /\ saver' = [u \in Threads |-> [busy |-> saver'[u].busy, read |-> saver'[u].read]]
  <2>1. Describes(Saving.read, status)
    BY NoRead, NothingSaid
  <2> QED
    BY <1>1, <1>2, <1>3, <2>1, NoRead, SaverStep
<1>5. /\ whole' \in BOOLEAN /\ poolSaved' \in BOOLEAN /\ (file' # <<>> => DOMAIN file' = Jobs)
      /\ whole' /\ file' # <<>> => \A i \in Jobs : file'[i].state = "SUCCEEDED" =>
           \A d \in RangeOf(Dependees[i]) : file'[d].state \in Good
      /\ Describes(file', status')
  BY <1>1 DEF TextInv, InFile
<1> QED
  BY <1>4, <1>5, FileParts

(* Every step keeps the file's invariant.                                   *)
LEMMA FileStep ==
  ASSUME FlowInv, OthersTyped, TextInv, AfterDependees, ComposedKnow, [FileNext]_savedVars
  PROVE  TextInv'
<1>1. ASSUME NEW t \in Threads, FlowStep(t)
      PROVE  TextInv'
  <2>1. [Next]_vars
    BY <1>1 DEF FlowStep, Next
  <2> QED
    BY <1>1, <2>1, FlowStepFile DEF FlowStep
<1>2. CASE CancelRoot /\ UNCHANGED fileVars
  BY <1>2, FlowStepFile DEF Next, fileVars
<1>3. CASE UNCHANGED savedVars
  BY <1>3, FlowStepFile DEF savedVars, fileVars
<1> QED
  BY <1>1, <1>2, <1>3, ReadLeafFile, WriteFileFile, PoolSaveFile DEF FileNext

(* Nothing is in the file at the start.                                     *)
LEMMA FileFirst ==
  ASSUME FileInit
  PROVE  TextInv
<1>1. /\ file = <<>> /\ saver = [t \in Threads |-> NotSaving] /\ poolSaved = FALSE /\ whole \in BOOLEAN
  BY FileConstants DEF FileInit
<1>2. \A t \in Threads : saver[t] = NotSaving
  BY <1>1
<1>3. \A t \in Threads : saver[t].busy = FALSE /\ saver[t].read = <<>>
  BY <1>2, NoRead
<1>4. \A t \in Threads : saver[t] = [busy |-> saver[t].busy, read |-> saver[t].read]
  BY <1>2, NoRead
<1>5. saver = [t \in Threads |-> saver[t]]
  BY <1>1, <1>2
<1>6. saver = [t \in Threads |-> [busy |-> saver[t].busy, read |-> saver[t].read]]
  BY <1>4, <1>5
<1> QED
  BY <1>1, <1>3, <1>6, NothingSaid DEF TextInv, InFile

(* If the flow was not asked to ignore its dependencies, no part of it is   *)
(* COMPLETED at the start.                                                  *)
LEMMA FirstFile == FileSpec /\ ~MaySkip => Spec /\ NoneSkipped
<1>1. FileInit /\ ~MaySkip => NoneSkipped
  BY DEF FileInit, NoneSkipped
<1> QED
  BY <1>1, SavesOnlyWatch, PTL DEF FileSpec

(* What is known of the file is always so.                                  *)
LEMMA FileAlways == FileSpec /\ ~MaySkip => [](FlowInv /\ OthersTyped /\ TextInv)
<1>1. FileInit => TextInv
  BY FileFirst
<1>2. FlowInv /\ OthersTyped /\ TextInv /\ (AfterDependees /\ ComposedKnow) /\ [FileNext]_savedVars => TextInv'
  BY FileStep
<1>3. FileSpec /\ ~MaySkip => [](AfterDependees /\ ComposedKnow)
  BY FirstFile, KnowAlways
<1>4. FileSpec => []FlowInv /\ []OthersTyped
  BY SavesOnlyWatch, InvAlways, OthersAlways
<1> QED
  BY <1>1, <1>2, <1>3, <1>4, PTL DEF FileSpec

(* What is known of the file makes it a state the flow was in.              *)
LEMMA FileMeans ==
  ASSUME FlowInv, TextInv
  PROVE  FileIsAState
<1>1. /\ \A t \in Threads : DOMAIN saver[t].read \subseteq Jobs
      /\ Describes(file, status) /\ (file # <<>> => DOMAIN file = Jobs)
      /\ whole /\ file # <<>> => \A j \in Jobs : file[j].state = "SUCCEEDED" =>
           \A d \in RangeOf(Dependees[j]) : file[d].state \in Good
  BY DEF TextInv, InFile, Describes
<1>2. ASSUME file # <<>>
      PROVE  /\ file \in [Jobs -> Descriptors]
             /\ \A j \in Jobs : file[j].state \in Status /\ (file[j].state \in Good => status[Leaf(j)] \in Good)
  <2>1. \A j \in Jobs : file[j] \in Descriptors /\ (file[j].state \in Good => status[Leaf(j)] \in Good)
    BY <1>1, <1>2 DEF Describes
  <2>2. file = [j \in Jobs |-> file[j]]
    BY <1>1, <1>2 DEF Describes
  <2> QED
    BY <2>1, <2>2 DEF Descriptors
<1>3. ASSUME file # <<>>, NEW j \in Jobs
      PROVE  /\ LoadedFlow[j] \in Status \ {"RUNNING"}
             /\ LoadedFlow[j] \in Good => status[Leaf(j)] \in Good
             /\ file[j].state \in Good => LoadedFlow[j] \in Good
  <2>1. file[j].state \in Status /\ (file[j].state \in Good => status[Leaf(j)] \in Good)
    BY <1>2, <1>3
  <2>2. /\ LoadedLeaf(j) \in Status \ {"RUNNING"}
        /\ LoadedLeaf(j) \in Good <=> file[j].state \in Good
    BY <2>1 DEF LoadedLeaf, Status, Good
  <2>3. LoadedFlow[j] = LoadedLeaf(j) \/
        (LoadedLeaf(j) \notin Finished /\ LoadedFlow[j] \in {"FAILED", "READY"})
    BY LoadedFacts
  <2> QED
    BY <2>1, <2>2, <2>3 DEF Status, Good, Finished
<1>4. FileTypeOK
  BY <1>1, <1>2, <1>3 DEF FileTypeOK, InFile, Descriptors
<1>5. NothingInvented
  BY <1>3 DEF NothingInvented, InFile
<1>6. whole /\ InFile => \A j \in Jobs : file[j].state = "SUCCEEDED" =>
        \A d \in RangeOf(Dependees[j]) : LoadedFlow[d] \in Good
  <2> SUFFICES ASSUME whole, file # <<>>, NEW j \in Jobs, file[j].state = "SUCCEEDED",
                      NEW d \in RangeOf(Dependees[j])
               PROVE  LoadedFlow[d] \in Good
    BY DEF InFile
  <2>1. file[d].state \in Good /\ d \in Jobs
    BY <1>1, DependeesOfJob
  <2> QED
    BY <1>3, <2>1
<1> QED
  BY <1>4, <1>5, <1>6 DEF FileIsAState

(* The file never promises too much: whatever the interleaving of saves and *)
(* flow, cancelled or not, what the loaded flow counts as done was done,    *)
(* and if saves take the leaves at once, a job that has run in the file has *)
(* run after its dependees.                                                 *)
THEOREM FileNeverLies == FileSpec /\ ~MaySkip => []FileIsAState
BY FileAlways, FileMeans, PTL

-----------------------------------------------------------------------------
(* What ended reaches the file.                                             *)

(* The file has the states of all leaves.                                   *)
UpToDate == InFile /\ \A j \in Jobs : file[j].state = status[Leaf(j)]

(* Until a cancel the file is up to date or a save is still to come.        *)
SaveComes ==
  whole /\ ~cancelling =>
    \/ UpToDate
    \/ ~poolSaved
    \/ \E t \in Threads : saver[t].busy
    \/ \E f \in Now : WillSave(f)

(* The flow goes on: a leaf's new state is saved by who goes on with it.    *)
LEMMA FlowStepSaves ==
  ASSUME FlowInv, LiveInv, ListsFull, Careful, TextInv, SaveComes, NEW t \in Threads, FlowStep(t)
  PROVE  SaveComes'
<1> SUFFICES ASSUME whole', ~cancelling'
             PROVE  \/ file' # <<>> /\ \A j \in Jobs : file'[j].state = status'[Leaf(j)]
                    \/ ~poolSaved'
                    \/ \E u \in Threads : saver'[u].busy
                    \/ \E f \in Now' : WillSave(f)
  BY DEF SaveComes, UpToDate, InFile, Leaf, WillSave
<1>1. /\ Step(t) /\ UNCHANGED <<file, poolSaved, whole>>
      /\ IF SavesNext(t) THEN Begin(t) ELSE UNCHANGED saver
  BY DEF FlowStep
<1>2. PICK h, G : Does(t, h, G)
  BY <1>1, StepDoes
<1>3. /\ h \in Now /\ h \in Frames /\ SaysOfCancel(h) /\ KnowsCaller(h)
      /\ \A f \in Now : f = h \/ f \in Now'
      /\ G \subseteq Now'
      /\ \A j \in Jobs : LeafDoes(h, G, j)
      /\ Goes(t, h, G)
  BY <1>2 DEF Does, Swaps, Takes1, Says, LiveInv, CallersKnown
<1>4. ~cancelling /\ h.op # "cancel"
  BY <1>1, <1>3, StepUncancelled DEF SaysOfCancel
<1>5. ~ReportFails /\ ~SaveFails
  BY DEF Careful
<1>6. \A u \in Threads : saver[u].busy \/ (u = t /\ SavesNext(t)) => saver'[u].busy
  <2>1. CASE UNCHANGED saver /\ ~SavesNext(t)
    BY <2>1
  <2>2. CASE Begin(t)
    <3>1. saver = [u \in Threads |-> [busy |-> saver[u].busy, read |-> saver[u].read]]
      BY DEF TextInv
    <3>2. saver' = [saver EXCEPT ![t] = Saving]
      BY <2>2 DEF Begin
    <3>3. \A u \in Threads : saver'[u] = IF u = t THEN Saving ELSE saver[u]
      BY <3>1, <3>2
    <3> QED
      BY <3>3, NoRead
  <2> QED
    BY <1>1, <2>1, <2>2
<1>7. CASE UpToDate
  <2>1. CASE \A j \in Jobs : status'[Leaf(j)] = status[Leaf(j)]
    BY <1>1, <1>7, <2>1 DEF UpToDate, InFile
  <2>2. ASSUME NEW j \in Jobs, status'[Leaf(j)] # status[Leaf(j)]
        PROVE  \E g \in G : WillSave(g)
    <3>1. LeafDoes(h, G, j)
      BY <1>3
    <3> QED
      BY <3>1, <2>2, <1>4, <1>5 DEF LeafDoes, Works, WillSave
  <2> QED
    BY <1>3, <2>1, <2>2
<1>8. CASE ~poolSaved
  BY <1>1, <1>8
<1>9. CASE \E u \in Threads : saver[u].busy
  BY <1>6, <1>9
<1>10. ASSUME NEW f \in Now, WillSave(f)
       PROVE  \/ \E u \in Threads : saver'[u].busy
              \/ \E g \in Now' : WillSave(g)
  <2>1. CASE f \in Now'
    BY <2>1, <1>10
  <2>2. CASE f = h
    <3>1. CASE \E g \in G : WillSave(g)
      BY <3>1, <1>3
    <3>2. CASE SavesNext(t)
      BY <3>2, <1>6
    <3>3. ASSUME h.op \in {"callCallbacks", "verdict"}, h.arg = <<>>
          PROVE  FALSE
      BY <3>3, <1>3, <1>4 DEF ListsFull, KnowsCaller
    <3>4. ASSUME h.op = "completed", h.on[1] \in {"dependeeCallback", "dependerCallback"},
                 callbacks[Composed(h.on[2])] = <<>>
          PROVE  FALSE
      BY <3>4, <1>3 DEF KnowsCaller, Known
    <3> QED
      BY <3>1, <3>2, <3>3, <3>4, <2>2, <1>3, <1>5, <1>10 DEF Goes
  <2> QED
    BY <2>1, <2>2, <1>3
<1> QED
  BY <1>1, <1>4, <1>7, <1>8, <1>9, <1>10 DEF SaveComes

(* A save that is written has the states of all leaves.                     *)
LEMMA WriteFileSaves ==
  ASSUME FlowInv, OthersTyped, NEW t \in Threads, WriteFile(t)
  PROVE  SaveComes'
<1> SUFFICES ASSUME whole'
             PROVE  file' # <<>> /\ \A j \in Jobs : file'[j].state = status'[Leaf(j)]
  BY DEF SaveComes, UpToDate, InFile, Leaf
<1>1. UNCHANGED <<status, whole>> /\ file' = [j \in Jobs |-> Descriptor(j)]
  BY DEF WriteFile, vars
<1>2. DOMAIN file' = Jobs /\ \A j \in Jobs : file'[j].state = status[Leaf(j)]
  BY <1>1, LeafRead
<1>3. Root \in Jobs
  BY FlowConstants
<1>4. DOMAIN <<>> = {}
  OBVIOUS
<1> QED
  BY <1>1, <1>2, <1>3, <1>4

(* Steps that leave the flow, or begin its cancellation.                    *)
LEMMA OtherSaves ==
  ASSUME FlowInv, TextInv, SaveComes,
         \/ PoolSave
         \/ \E t \in Threads : ReadLeaf(t)
         \/ CancelRoot /\ UNCHANGED fileVars
         \/ UNCHANGED savedVars
  PROVE  SaveComes'
<1>1. CASE PoolSave
  <2>1. saver' = [saver EXCEPT ![Main] = Saving] /\ Main \in Threads
    BY <1>1 DEF PoolSave, Begin, Threads
  <2>2. saver = [u \in Threads |-> [busy |-> saver[u].busy, read |-> saver[u].read]]
    BY DEF TextInv
  <2>3. saver'[Main] = Saving
    BY <2>1, <2>2
  <2>4. \E u \in Threads : saver'[u].busy
    BY <2>1, <2>3, NoRead
  <2> QED
    BY <2>4 DEF SaveComes, Threads, JobThread
<1>2. CASE \E t \in Threads : ReadLeaf(t)
  BY <1>2 DEF ReadLeaf, SaveComes
<1>3. CASE CancelRoot /\ UNCHANGED fileVars
  BY <1>3 DEF CancelRoot, SaveComes
<1>4. CASE UNCHANGED savedVars
  <2>1. UNCHANGED <<status, stack, cancelling, file, saver, poolSaved, whole>>
    BY <1>4 DEF savedVars, vars, fileVars
  <2>2. Now' = Now
    BY <2>1 DEF Now, RangeOf
  <2> QED
    BY <2>1, <2>2 DEF SaveComes, UpToDate, InFile, Leaf, Threads, WillSave
<1> QED
  BY <1>1, <1>2, <1>3, <1>4

(* Until the file is up to date a save is to come, always.                  *)
LEMMA SavesAlways ==
  FileSpec /\ ~MaySkip /\ Careful =>
    [](FlowInv /\ Answered /\ ComposedKnow /\ ComposedEnded /\ SaveComes)
<1> SUFFICES ASSUME Careful
             PROVE  FileSpec /\ ~MaySkip =>
                      [](FlowInv /\ Answered /\ ComposedKnow /\ ComposedEnded /\ SaveComes)
  OBVIOUS
<1>1. FileInit => SaveComes
  BY DEF FileInit, SaveComes
<1>2. ASSUME FlowInv /\ OthersTyped /\ TextInv, FlowInv /\ LiveInv /\ ToldOnce, ListsFull /\ ComposedEnded,
             SaveComes, [FileNext]_savedVars
      PROVE  SaveComes'
  BY <1>2, FlowStepSaves, WriteFileSaves, OtherSaves DEF FileNext
<1>3. FileSpec /\ ~MaySkip => Spec /\ NoneSkipped
  BY FirstFile
<1>4. FileSpec /\ ~MaySkip => [](FlowInv /\ OthersTyped /\ TextInv)
  BY FileAlways
<1>5. FileSpec /\ ~MaySkip /\ Careful =>
        /\ [](FlowInv /\ LiveInv /\ ToldOnce)
        /\ []Answered
        /\ [](AfterDependees /\ ComposedKnow)
        /\ [](ListsFull /\ ComposedEnded)
  BY <1>3, NobodyIsForgotten, CallerIsAnswered, KnowAlways, EndedAlways, PTL
<1> QED
  BY <1>1, <1>2, <1>4, <1>5, PTL DEF FileSpec

(* When all is over, the file is up to date.                                *)
LEMMA LastSave ==
  ASSUME FlowInv, SaveComes, whole, Idle, AllSaved, ~cancelling
  PROVE  \A j \in Jobs : file[j].state = status[Leaf(j)]
<1>1. Now = {}
  BY ShortRange DEF Idle, Now
<1> QED
  BY <1>1 DEF SaveComes, AllSaved, UpToDate

(* What failed is loaded as FAILED: when its dependees, that were put       *)
(* together before it, are.                                                 *)
LEMMA FailedLoaded ==
  ASSUME ComposedEnded, ~cancelling, \A j \in Jobs : LoadedLeaf(j) = status[Leaf(j)],
         NEW k \in Jobs, status[FlowOf(k)] = "FAILED"
  PROVE  LoadedFlow[k] = "FAILED"
<1> DEFINE S == {j \in Jobs : status[FlowOf(j)] = "FAILED" /\ LoadedFlow[j] # "FAILED"}
<1>1. ASSUME S # {}
      PROVE  FALSE
  <2>1. PICK j \in S : RangeOf(Dependees[j]) \cap S = {}
    BY <1>1, DependenciesEnd
  <2>2. j \in Jobs /\ status[FlowOf(j)] = "FAILED" /\ LoadedFlow[j] # "FAILED"
    OBVIOUS
  <2>3. \A d \in RangeOf(Dependees[j]) : d \in Jobs /\ (status[FlowOf(d)] = "FAILED" => LoadedFlow[d] = "FAILED")
    BY <2>1, <2>2, DependeesOfJob
  <2> HIDE DEF S
  <2>4. CASE j \notin Dependents
    BY <2>2, <2>4, LoadedFacts DEF FlowOf
  <2>5. CASE j \in Dependents
    <3>1. status[Leaf(j)] = "FAILED" \/ (NotRun(j) /\ SomeFailed(j))
      BY <2>2, <2>5 DEF ComposedEnded, FlowOf
    <3>2. status[Leaf(j)] # "FAILED"
      BY <2>2, <2>5, LoadedFacts DEF Finished
    <3>3. LoadedLeaf(j) \notin Finished /\ SomeFailed(j)
      BY <2>2, <3>1, <3>2 DEF NotRun, Finished, Good
    <3>4. \E d \in RangeOf(Dependees[j]) : LoadedFlow[d] = "FAILED"
      BY <2>3, <3>3 DEF SomeFailed
    <3> QED
      BY <2>2, <2>5, <3>3, <3>4, LoadedFacts
  <2> QED
    BY <2>4, <2>5
<1> QED
  BY <1>1

(* What is over is loaded as it ended.                                      *)
LEMMA LoadedEnds ==
  ASSUME FlowInv, Answered, ComposedKnow, ComposedEnded, SaveComes, whole, Idle, AllSaved, ~cancelling,
         NEW j \in Jobs
  PROVE  PhaseOf(LoadedFlow[j]) = EndedAs(j)
<1>1. \A o \in Objects : status[o] # "RUNNING" /\ status[o] \in Status
  BY DEF Answered, FlowInv, Shapes
<1>2. \A i \in Jobs : LoadedLeaf(i) = status[Leaf(i)]
  BY <1>1, LastSave, Names DEF LoadedLeaf
<1>3. \A i \in Jobs : status[FlowOf(i)] = "FAILED" => LoadedFlow[i] = "FAILED"
  BY <1>2, FailedLoaded
<1>4. CASE j \notin Dependents
  <2>1. LoadedFlow[j] = status[FlowOf(j)] /\ RangeOf(Dependees[j]) = {}
    BY <1>2, <1>4, LoadedFacts, DependeesOfJob DEF FlowOf
  <2> QED
    BY <2>1 DEF EndedAs
<1>5. CASE j \in Dependents
  <2>1. /\ FlowOf(j) = Composed(j) /\ Composed(j) \in Objects
        /\ LoadedFlow[j] = IF status[Leaf(j)] \in Finished THEN status[Leaf(j)]
                           ELSE IF \E d \in RangeOf(Dependees[j]) : LoadedFlow[d] = "FAILED" THEN "FAILED" ELSE "READY"
    BY <1>2, <1>5, LoadedFacts, Names, TokensAre DEF FlowOf
  <2>2. status[Composed(j)] \in {"READY", "SUCCEEDED", "FAILED"}
    <3>1. status[Composed(j)] # "IGNORED"
      BY <2>1 DEF FlowInv, Shapes, ShapeOf, Composed
    <3> QED
      BY <2>1, <3>1, <1>1, <1>5 DEF ComposedKnow, Status
  <2>3. CASE status[Composed(j)] = "SUCCEEDED"
    <3>1. status[Leaf(j)] \in Good
      BY <2>3, <1>5 DEF ComposedKnow
    <3>2. LoadedFlow[j] \in Good
      BY <2>1, <3>1 DEF Finished
    <3> QED
      BY <2>1, <2>3, <3>2, Phases DEF EndedAs, Good
  <2>4. CASE status[Composed(j)] = "FAILED"
    BY <2>1, <2>4, <1>3 DEF EndedAs
  <2>5. CASE status[Composed(j)] = "READY"
    <3>1. NotRun(j)
      <4>1. "new" \in Slots(Flow(j))
        BY <2>5, <1>5, FlowSlots
      <4>2. Holds("new", Flow(j))
        BY <4>1 DEF Slots
      <4> QED
        BY <4>2, <1>5 DEF FlowInv, TurnsCome
    <3>2. status[Leaf(j)] \notin Finished
      BY <3>1 DEF NotRun, Finished, Good
    <3> QED
      BY <2>1, <2>5, <3>2, Phases DEF EndedAs
  <2> QED
    BY <2>2, <2>3, <2>4, <2>5
<1> QED
  BY <1>4, <1>5

(* If reports and saves do not fail, and saves take the leaves at once:     *)
(* when all threads are through and nothing was cancelled, the file has     *)
(* the end of every leaf, and what is loaded from it is the flow as it      *)
(* ended.                                                                   *)
THEOREM FileKeepsTheEnd == FileSpec /\ ~MaySkip /\ Careful => []LoadedAsSaved
<1>1. ASSUME FlowInv /\ Answered /\ ComposedKnow /\ ComposedEnded /\ SaveComes
      PROVE  LoadedAsSaved
  <2>1. SavedInTheEnd
    BY <1>1, LastSave DEF SavedInTheEnd
  <2>2. whole /\ Idle /\ AllSaved /\ ~cancelling =>
          \A j \in Jobs : PhaseOf(LoadedFlow[j]) = EndedAs(j)
    BY <1>1, LoadedEnds
  <2> QED
    BY <2>1, <2>2 DEF LoadedAsSaved
<1> QED
  BY <1>1, SavesAlways, PTL

-----------------------------------------------------------------------------
(* The order of the monitors.  A callback that is called inside a monitor   *)
(* goes up: from a group to its depender, from the depender to the composed *)
(* flow, from there to the groups that the job is in.                       *)
Height(j) == Cardinality(Below(j))
Rank(o) ==
  3 * Height(o[2]) + (IF o[1] = "group" THEN 0 ELSE IF o[1] = "leaf" THEN 1 ELSE 2)
Top == 3 * Cardinality(Jobs) + 3

(* A callback, and a frame with all that comes of it, wants no monitor      *)
(* below its level.                                                         *)
CallLevel(cb) ==
  IF cb[1] = "groupCallback" THEN Rank(Group(cb[2]))
  ELSE IF cb[1] = "dependeeCallback" THEN Rank(Leaf(cb[2]))
  ELSE IF cb[1] = "dependerCallback" THEN Rank(Composed(cb[2]))
  ELSE Top

Level(f) ==
  IF f.op = "completed" THEN CallLevel(f.on)
  ELSE IF f.op = "verdict" THEN Rank(Leaf(f.on[2]))
  ELSE IF f.op \in {"load", "running"} \/ (f.op = "execute" /\ f.on[1] = "leaf") THEN Rank(f.on)
  ELSE IF f.op \in {"generated", "callCallbacks", "release"} THEN Top
  ELSE 0

(* Whom an object may be asked to call, in this execution or in one before. *)
GroupCallbacks == {"groupCallback"} \X Dependents \X Nat
CalledBy(o) ==
  IF o[1] = "group" THEN {DependeeCallback(o[2])}
  ELSE IF o[1] = "leaf" /\ o[2] \in Dependents THEN {DependerCallback(o[2])}
  ELSE {RootCallback} \cup {c \in GroupCallbacks : o[2] \in RangeOf(Dependees[c[2]])}

AnyFrames ==
  {f \in [op : {"execute"}, on : Objects, arg : Callbacks] : f.arg \in CalledBy(f.on)} \cup
  [op : {"children"}, on : Groups, arg : Nat \ {0}] \cup
  [op : {"load", "running", "generated"}, on : Leaves, arg : {0}] \cup
  [op : {"cancel", "release"}, on : Objects, arg : {0}] \cup
  {f \in [op : {"callCallbacks"}, on : Leaves, arg : Seq(Callbacks)] : f.arg \in Seq(CalledBy(f.on))} \cup
  {f \in [op : {"verdict"}, on : GroupCallbacks, arg : Seq(Callbacks)] :
     f.arg \in Seq(CalledBy(Group(f.on[2])))} \cup
  [op : {"completed"}, on : Callbacks, arg : Status]

FieldsTyped ==
  /\ status \in [Objects -> Status]
  /\ callbacks \in [Objects -> Seq(Callbacks)]
  /\ \A o \in Objects : callbacks[o] \in Seq(CalledBy(o))
  /\ notified \in [Dependents -> Seq(BOOLEAN)]
  /\ monitor \in [Objects -> Threads \cup {NoThread, Web}]

Typed ==
  /\ FieldsTyped
  /\ stack \in [Threads -> Seq(AnyFrames)]
  /\ cancelling \/ stack[Canceller] = <<>>

(* Above a frame that gives a monitor back there are only frames that want  *)
(* greater ones.                                                            *)
StackOrdered ==
  \A t \in Threads : \A i, m \in DOMAIN stack[t] :
    i < m /\ stack[t][m].op = "release" => Rank(stack[t][m].on) < Level(stack[t][i])

(* Who holds a monitor has a frame that gives it back.                      *)
GivesBack(t, o) ==
  \/ \E m \in DOMAIN stack[t] : stack[t][m] = Release(o)
  \/ stack[t] # <<>> /\ stack[t][1] = Frame("generated", o, 0)

HoldersGiveBack ==
  \A o \in Objects : \A t \in Threads : monitor[o] = t /\ t # NoThread => GivesBack(t, o)

MonitorInv == Typed /\ StackOrdered /\ HoldersGiveBack

-----------------------------------------------------------------------------
(* A flow has finitely many jobs below each: a job that had infinitely many *)
(* would have a dependee that has, and dependencies end.                    *)
LEMMA BelowFinite == \A j \in Jobs : IsFiniteSet(Below(j))
<1> DEFINE S == {j \in Jobs : ~IsFiniteSet(Below(j))}
<1>1. SUFFICES ASSUME S # {} PROVE FALSE
  OBVIOUS
<1>2. PICK j \in S : RangeOf(Dependees[j]) \cap S = {}
  <2> S \in (SUBSET Jobs) \ {{}}
    BY <1>1
  <2> HIDE DEF S
  <2> QED
    BY DependenciesEnd
<1> DEFINE D == RangeOf(Dependees[j])
           F == {Below(d) : d \in D}
<1>3. Dependees[j] \in Seq(Jobs) /\ D \subseteq Jobs
  BY FlowConstants DEF RangeOf
<1>4. IsFiniteSet(D)
  <2>1. IsFiniteSet(1 .. Len(Dependees[j]))
    BY <1>3, FS_Interval
  <2> DEFINE g == [i \in 1 .. Len(Dependees[j]) |-> Dependees[j][i]]
  <2>2. g \in Surjection(1 .. Len(Dependees[j]), D)
    <3>1. DOMAIN Dependees[j] = 1 .. Len(Dependees[j])
      BY <1>3
    <3>2. D = {Dependees[j][i] : i \in 1 .. Len(Dependees[j])}
      BY <3>1 DEF RangeOf
    <3> HIDE DEF D
    <3> QED
      BY <3>2 DEF Surjection
  <2> HIDE DEF g, D
  <2> QED
    BY <2>1, <2>2, FS_Surjection
<1>5. IsFiniteSet(F)
  <2> DEFINE g == [d \in D |-> Below(d)]
  <2>1. g \in Surjection(D, F)
    BY DEF Surjection
  <2> HIDE DEF g, F, D
  <2> QED
    BY <1>4, <2>1, FS_Surjection
<1>6. \A B \in F : IsFiniteSet(B)
  BY <1>2, <1>3
<1>7. IsFiniteSet(UNION F)
  <2> HIDE DEF F
  <2> QED
    BY <1>5, <1>6, FS_UNION
<1>8. IsFiniteSet({j} \cup UNION F)
  <2> HIDE DEF F
  <2> QED
    BY <1>7, FS_Singleton, FS_Union
<1>9. Below(j) \subseteq {j} \cup UNION F
  BY BelowSplits
<1> QED
  BY <1>2, <1>8, <1>9, FS_Subset

(* What a job depends on has less below it.                                 *)
LEMMA HeightGrows ==
  ASSUME NEW j \in Jobs
  PROVE  /\ Height(j) \in Nat /\ Height(j) <= Cardinality(Jobs) /\ Cardinality(Jobs) \in Nat
         /\ \A d \in RangeOf(Dependees[j]) : d \in Jobs /\ Height(d) < Height(j)
<1>1. \A x \in Jobs : RangeOf(Dependees[x]) \subseteq Jobs
  BY FlowConstants DEF RangeOf
<1>2. IsFiniteSet(Jobs)
  BY BelowFinite, FoundFromRoot, FlowConstants, FS_Subset
<1>3. \A x \in Jobs : Height(x) \in Nat /\ Height(x) <= Cardinality(Jobs)
  BY <1>2, BelowSplits, BelowFinite, FS_Subset, FS_CardinalityType DEF Height
<1>4. ASSUME NEW d \in RangeOf(Dependees[j])
      PROVE  Height(d) < Height(j)
  <2>0. d \in Jobs
    BY <1>1
  <2>1. Below(d) \subseteq Below(j)
    <3> SUFFICES ASSUME NEW k \in Below(d), NEW S \in SUBSET Jobs, j \in S,
                        \A x \in S : RangeOf(Dependees[x]) \subseteq S
                 PROVE  k \in S
      BY DEF Below
    <3> QED
      BY DEF Below
  <2>2. j \in Below(j)
    BY DEF Below
  <2>3. j \notin Below(d)
    <3> SUFFICES ASSUME j \in Below(d) PROVE FALSE
      OBVIOUS
    <3> DEFINE S == {x \in Jobs : j \in Below(x)}
    <3>1. j \in S /\ d \in S
      BY <2>0, <2>2
    <3>2. PICK x \in S : RangeOf(Dependees[x]) \cap S = {}
      <4> S \in (SUBSET Jobs) \ {{}}
        BY <3>1
      <4> HIDE DEF S
      <4> QED
        BY DependenciesEnd
    <3>3. x # j
      BY <3>1, <3>2
    <3>4. PICK e \in RangeOf(Dependees[x]) : j \in Below(e)
      BY <3>2, <3>3, BelowSplits
    <3> QED
      BY <1>1, <3>2, <3>4
  <2>4. Below(d) # Below(j)
    BY <2>2, <2>3
  <2> QED
    BY <2>0, <2>1, <2>4, <1>3, BelowFinite, FS_Subset DEF Height
<1> QED
  BY <1>1, <1>2, <1>3, <1>4, FS_CardinalityType

(* The order of the monitors of one job and of those above it.              *)
LEMMA RankFacts ==
  /\ Top \in Nat
  /\ \A o \in Objects : Rank(o) \in Nat /\ Rank(o) < Top
  /\ \A j \in Dependents : Rank(Group(j)) < Rank(Leaf(j)) /\ Rank(Leaf(j)) < Rank(Composed(j))
  /\ \A k \in Dependents : \A d \in RangeOf(Dependees[k]) :
       Rank(Leaf(d)) < Rank(Group(k)) /\ Rank(Composed(d)) < Rank(Group(k))
<1>1. Dependents \subseteq Jobs /\ Root \in Jobs
  BY FlowConstants DEF Dependents
<1>2. Top \in Nat
  BY <1>1, HeightGrows DEF Top
<1>3. ASSUME NEW o \in Objects PROVE Rank(o) \in Nat /\ Rank(o) < Top
  <2>1. o[2] \in Jobs
    BY ObjectFacts
  <2> QED
    BY <2>1, HeightGrows DEF Top, Rank
<1>4. ASSUME NEW j \in Jobs
      PROVE  /\ Rank(Group(j)) = 3 * Height(j) /\ Rank(Leaf(j)) = 3 * Height(j) + 1
             /\ Rank(Composed(j)) = 3 * Height(j) + 2 /\ Height(j) \in Nat
  BY Names, HeightGrows DEF Rank
<1>5. ASSUME NEW k \in Dependents, NEW d \in RangeOf(Dependees[k])
      PROVE  Rank(Leaf(d)) < Rank(Group(k)) /\ Rank(Composed(d)) < Rank(Group(k))
  <2>1. k \in Jobs /\ d \in Jobs /\ Height(d) < Height(k)
    BY <1>1, HeightGrows
  <2> QED
    BY <2>1, <1>4
<1> QED
  BY <1>1, <1>2, <1>3, <1>4, <1>5

(* An object calls callbacks that want greater monitors than its own.       *)
LEMMA CalledFacts ==
  /\ \A o \in Objects : \A c \in CalledBy(o) : c \in Callbacks /\ Rank(o) < CallLevel(c)
  /\ \A c \in Callbacks : CallLevel(c) \in Nat
  /\ \A j \in Dependents :
       /\ CalledBy(Group(j)) = {DependeeCallback(j)} /\ CallLevel(DependeeCallback(j)) = Rank(Leaf(j))
       /\ CalledBy(Leaf(j)) = {DependerCallback(j)} /\ CallLevel(DependerCallback(j)) = Rank(Composed(j))
       /\ \A d \in RangeOf(Dependees[j]) : \A g \in Nat : GroupCallback(j, g) \in CalledBy(FlowOf(d))
  /\ \A c \in GroupCallbacks : /\ c \in Callbacks /\ c[1] = "groupCallback" /\ c[2] \in Dependents
                               /\ CallLevel(c) = Rank(Group(c[2]))
  /\ \A c \in Callbacks :
       \/ c = RootCallback /\ c[1] = "rootCallback"
       \/ c[1] = "groupCallback" /\ c \in GroupCallbacks
       \/ c[2] \in Dependents /\ c = DependeeCallback(c[2]) /\ c[1] = "dependeeCallback"
       \/ c[2] \in Dependents /\ c = DependerCallback(c[2]) /\ c[1] = "dependerCallback"
  /\ RootCallback \in CalledBy(FlowOf(Root)) /\ RootCallback \in Callbacks
<1>1. Dependents \subseteq Jobs /\ Root \in Jobs /\ \A x \in Jobs : RangeOf(Dependees[x]) \subseteq Jobs
  BY FlowConstants DEF Dependents, RangeOf
<1>2. ASSUME NEW j \in Dependents
      PROVE  /\ CalledBy(Group(j)) = {DependeeCallback(j)} /\ CallLevel(DependeeCallback(j)) = Rank(Leaf(j))
             /\ CalledBy(Leaf(j)) = {DependerCallback(j)} /\ CallLevel(DependerCallback(j)) = Rank(Composed(j))
  BY <1>1, Names DEF CalledBy, CallLevel, DependeeCallback, DependerCallback
<1>3. ASSUME NEW c \in GroupCallbacks
      PROVE  /\ c \in Callbacks /\ c[1] = "groupCallback" /\ c[2] \in Dependents
             /\ CallLevel(c) = Rank(Group(c[2]))
  BY DEF GroupCallbacks, Callbacks, CallLevel
<1>4. ASSUME NEW c \in Callbacks
      PROVE  \/ c = RootCallback /\ c[1] = "rootCallback"
             \/ c[1] = "groupCallback" /\ c \in GroupCallbacks
             \/ c[2] \in Dependents /\ c = DependeeCallback(c[2]) /\ c[1] = "dependeeCallback"
             \/ c[2] \in Dependents /\ c = DependerCallback(c[2]) /\ c[1] = "dependerCallback"
  BY DEF Callbacks, GroupCallbacks, RootCallback, DependeeCallback, DependerCallback
<1>5. CallLevel(RootCallback) = Top
  BY DEF CallLevel, RootCallback
<1>6. ASSUME NEW c \in Callbacks PROVE CallLevel(c) \in Nat
  <2>1. \A j \in Dependents : Group(j) \in Objects /\ Leaf(j) \in Objects /\ Composed(j) \in Objects
    BY <1>1, Names
  <2> QED
    BY <2>1, <1>2, <1>3, <1>4, <1>5, RankFacts
<1>7. RootCallback \in Callbacks /\ \A j \in Dependents : DependeeCallback(j) \in Callbacks /\ DependerCallback(j) \in Callbacks
  BY DEF Callbacks
<1>8. ASSUME NEW j \in Jobs, NEW c \in CalledBy(FlowOf(j))
      PROVE  c = RootCallback \/ (c \in GroupCallbacks /\ j \in RangeOf(Dependees[c[2]]))
  BY Names DEF CalledBy, FlowOf, Leaf, Composed, Dependents
<1>9. ASSUME NEW o \in Objects, NEW c \in CalledBy(o)
      PROVE  c \in Callbacks /\ Rank(o) < CallLevel(c)
  <2>1. CASE o[1] = "group"
    BY <1>2, <1>7, <2>1, <1>9, ObjectFacts, RankFacts
  <2>2. CASE o[1] = "leaf" /\ o[2] \in Dependents
    BY <1>2, <1>7, <2>2, <1>9, ObjectFacts, RankFacts
  <2>3. CASE o = FlowOf(o[2])
    <3>1. PICK j \in Jobs : o = FlowOf(j)
      BY <2>3, ObjectFacts
    <3>2. o = Leaf(j) \/ o = Composed(j)
      BY <3>1 DEF FlowOf
    <3> QED
      BY <3>1, <3>2, <1>3, <1>5, <1>7, <1>8, <1>9, RankFacts
  <2> QED
    BY <2>1, <2>2, <2>3, ObjectFacts DEF FlowOf
<1>10. ASSUME NEW j \in Dependents, NEW d \in RangeOf(Dependees[j]), NEW g \in Nat
       PROVE  GroupCallback(j, g) \in CalledBy(FlowOf(d))
  <2>1. d \in Jobs /\ GroupCallback(j, g) \in GroupCallbacks /\ GroupCallback(j, g)[2] = j
    BY <1>1 DEF GroupCallback, GroupCallbacks
  <2>2. FlowOf(d)[2] = d /\ FlowOf(d)[1] # "group" /\ ~(FlowOf(d)[1] = "leaf" /\ d \in Dependents)
    BY DEF FlowOf, Leaf, Composed
  <2> QED
    BY <2>1, <2>2 DEF CalledBy
<1>11. RootCallback \in CalledBy(FlowOf(Root))
  <2>2. FlowOf(Root)[2] = Root /\ FlowOf(Root)[1] # "group" /\ ~(FlowOf(Root)[1] = "leaf" /\ Root \in Dependents)
    BY DEF FlowOf, Leaf, Composed
  <2> QED
    BY <2>2 DEF CalledBy
<1> QED
  BY <1>2, <1>3, <1>4, <1>6, <1>7, <1>9, <1>10, <1>11

-----------------------------------------------------------------------------
(* What a frame of any generation acts on and carries.                      *)
LEMMA AnyFrameFacts ==
  ASSUME NEW f \in AnyFrames
  PROVE  /\ f.op \in {"execute", "children", "load", "running", "generated", "cancel", "release",
                      "callCallbacks", "verdict", "completed"}
         /\ f.op = "execute" => f.on \in Objects /\ f.arg \in CalledBy(f.on) /\ f.arg \in Callbacks
         /\ f.op = "children" => f.on \in Groups /\ f.arg \in Nat \ {0}
         /\ f.op \in {"load", "running", "generated"} => f.on \in Leaves /\ f.arg = 0
         /\ f.op \in {"cancel", "release"} => f.on \in Objects /\ f.arg = 0
         /\ f.op = "callCallbacks" => f.on \in Leaves /\ f.arg \in Seq(CalledBy(f.on)) /\ f.arg \in Seq(Callbacks)
         /\ f.op = "verdict" =>
              f.on \in GroupCallbacks /\ f.arg \in Seq(CalledBy(Group(f.on[2]))) /\ f.arg \in Seq(Callbacks)
         /\ f.op = "completed" => f.on \in Callbacks /\ f.arg \in Status
         /\ f = [op |-> f.op, on |-> f.on, arg |-> f.arg]
BY DEF AnyFrames

(* The frames that the actions make are frames.                             *)
LEMMA AnyFramesMade ==
  /\ \A o \in Objects : \A c \in CalledBy(o) : Execute(o, c) \in AnyFrames
  /\ \A j \in Dependents : \A i \in Nat \ {0} : Children(j, i) \in AnyFrames
  /\ \A j \in Jobs : Load(j) \in AnyFrames /\ Running(j) \in AnyFrames /\ Generated(j) \in AnyFrames
  /\ \A o \in Objects : Cancel(o) \in AnyFrames /\ Release(o) \in AnyFrames
  /\ \A j \in Jobs : \A list \in Seq(CalledBy(Leaf(j))) :
       list \in Seq(Callbacks) => CallCallbacks(j, list) \in AnyFrames
  /\ \A c \in GroupCallbacks : \A list \in Seq(CalledBy(Group(c[2]))) :
       list \in Seq(Callbacks) => Verdict(c, list) \in AnyFrames
  /\ \A c \in Callbacks : \A s \in Status : Completed(c, s) \in AnyFrames
<1>1. \A o \in Objects : \A c \in CalledBy(o) : Execute(o, c) \in AnyFrames
  BY CalledFacts DEF AnyFrames, Execute, Frame
<1>2. \A j \in Dependents : \A i \in Nat \ {0} : Children(j, i) \in AnyFrames
  BY DEF AnyFrames, Children, Frame, Groups
<1>3. \A j \in Jobs : Load(j) \in AnyFrames /\ Running(j) \in AnyFrames /\ Generated(j) \in AnyFrames
  BY DEF AnyFrames, Load, Running, Generated, Frame, Leaves
<1>4. \A o \in Objects : Cancel(o) \in AnyFrames /\ Release(o) \in AnyFrames
  BY DEF AnyFrames, Cancel, Release, Frame
<1>5. \A j \in Jobs : \A list \in Seq(CalledBy(Leaf(j))) :
        list \in Seq(Callbacks) => CallCallbacks(j, list) \in AnyFrames
  BY DEF AnyFrames, CallCallbacks, Frame, Leaves
<1>6. \A c \in GroupCallbacks : \A list \in Seq(CalledBy(Group(c[2]))) :
        list \in Seq(Callbacks) => Verdict(c, list) \in AnyFrames
  BY DEF AnyFrames, Verdict, Frame
<1>7. \A c \in Callbacks : \A s \in Status : Completed(c, s) \in AnyFrames
  BY DEF AnyFrames, Completed, Frame
<1> QED
  BY <1>1, <1>2, <1>3, <1>4, <1>5, <1>6, <1>7

(* The levels of the frames that the actions make.                          *)
LEMMA LevelFacts ==
  /\ \A f \in AnyFrames : Level(f) \in Nat /\ Level(f) <= Top
  /\ \A o \in Objects : \A c : Level(Execute(o, c)) = IF o[1] = "leaf" THEN Rank(o) ELSE 0
  /\ \A o : Level(Release(o)) = Top /\ Level(Cancel(o)) = 0
  /\ \A j : Level(Load(j)) = Rank(Leaf(j)) /\ Level(Running(j)) = Rank(Leaf(j)) /\ Level(Generated(j)) = Top
  /\ \A j, i : Level(Children(j, i)) = 0
  /\ \A j, list : Level(CallCallbacks(j, list)) = Top
  /\ \A c, list : Level(Verdict(c, list)) = Rank(Leaf(c[2]))
  /\ \A c, s : Level(Completed(c, s)) = CallLevel(c)
<1>1. ASSUME NEW f \in AnyFrames PROVE Level(f) \in Nat /\ Level(f) <= Top
  <2>1. CASE f.op = "completed"
    <3>1. CallLevel(f.on) \in Nat /\ CallLevel(f.on) <= Top
      <4>1. \A j \in Dependents : Group(j) \in Objects /\ Leaf(j) \in Objects /\ Composed(j) \in Objects
        BY Names DEF Dependents
      <4>2. CallLevel(RootCallback) = Top
        BY DEF CallLevel, RootCallback
      <4>3. f.on \in Callbacks
        BY <2>1, AnyFrameFacts
      <4> QED
        BY <4>1, <4>2, <4>3, CalledFacts, RankFacts
    <3> QED
      BY <2>1, <3>1 DEF Level
  <2>2. CASE f.op = "verdict"
    <3>1. Leaf(f.on[2]) \in Objects
      BY <2>2, AnyFrameFacts, CalledFacts, Names DEF Dependents
    <3> QED
      BY <2>2, <3>1, RankFacts DEF Level
  <2>3. CASE f.op \in {"load", "running"} \/ (f.op = "execute" /\ f.on[1] = "leaf")
    <3>1. f.on \in Objects
      BY <2>3, AnyFrameFacts, Names DEF Leaves
    <3> QED
      BY <2>3, <3>1, RankFacts DEF Level
  <2>4. CASE f.op \in {"children", "generated", "cancel", "release", "callCallbacks"} \/ (f.op = "execute" /\ f.on[1] # "leaf")
    BY <2>4, RankFacts DEF Level
  <2> QED
    BY <2>1, <2>2, <2>3, <2>4, AnyFrameFacts
<1>2. \A o \in Objects : \A c : Level(Execute(o, c)) = IF o[1] = "leaf" THEN Rank(o) ELSE 0
  BY DEF Level, Execute, Frame
<1>3. \A o : Level(Release(o)) = Top /\ Level(Cancel(o)) = 0
  BY DEF Level, Release, Cancel, Frame
<1>4. \A j : Level(Load(j)) = Rank(Leaf(j)) /\ Level(Running(j)) = Rank(Leaf(j)) /\ Level(Generated(j)) = Top
  BY DEF Level, Load, Running, Generated, Frame
<1>5. \A j, i : Level(Children(j, i)) = 0
  BY DEF Level, Children, Frame
<1>6. \A j, list : Level(CallCallbacks(j, list)) = Top
  BY DEF Level, CallCallbacks, Frame
<1>7. \A c, list : Level(Verdict(c, list)) = Rank(Leaf(c[2]))
  BY DEF Level, Verdict, Frame
<1>8. \A c, s : Level(Completed(c, s)) = CallLevel(c)
  BY DEF Level, Completed, Frame
<1> QED
  BY <1>1, <1>2, <1>3, <1>4, <1>5, <1>6, <1>7, <1>8

(* Telling a list makes a frame of each of its callbacks.                   *)
LEMMA TellsAll ==
  ASSUME NEW list \in Seq(Callbacks), NEW s \in Status
  PROVE  /\ CompletedAll(list, s) \in Seq(AnyFrames)
         /\ DOMAIN CompletedAll(list, s) = DOMAIN list
         /\ \A i \in DOMAIN list : /\ list[i] \in Callbacks
                                   /\ CompletedAll(list, s)[i] = Completed(list[i], s)
                                   /\ CompletedAll(list, s)[i].op = "completed"
                                   /\ Level(CompletedAll(list, s)[i]) = CallLevel(list[i])
<1>1. \A i \in DOMAIN list : Completed(list[i], s) \in AnyFrames /\ Completed(list[i], s).op = "completed"
  BY AnyFramesMade DEF Completed, Frame
<1>2. \A i \in DOMAIN list : CompletedAll(list, s)[i] = Completed(list[i], s)
  BY DEF CompletedAll
<1>3. CompletedAll(list, s) \in Seq(AnyFrames) /\ DOMAIN CompletedAll(list, s) = DOMAIN list
  BY <1>1 DEF CompletedAll
<1> QED
  BY <1>1, <1>2, <1>3, LevelFacts

-----------------------------------------------------------------------------
(* What a step of thread t does: it takes its first frame, and v goes on    *)
(* with fs, t itself or a thread that it starts.                            *)
Turns(t, v, fs) ==
  /\ v \in Threads /\ fs \in Seq(AnyFrames) /\ Takes(t, v, fs)
  /\ v # t => v # Canceller
  /\ v = t => \A i \in DOMAIN fs : Level(stack[t][1]) <= Level(fs[i])
  /\ \A m \in DOMAIN fs : fs[m].op = "release" =>
       v = t /\ \A i \in DOMAIN fs : i < m => Rank(fs[m].on) < Level(fs[i])

GivenUp(t, o) == stack[t][1] \in {Release(o), Frame("generated", o, 0)}
TakenOver(t, fs, o) ==
  \/ \E m \in DOMAIN fs : fs[m] = Release(o)
  \/ fs # <<>> /\ fs[1] = Frame("generated", o, 0)

Enters(t, v, fs) ==
  \A o \in Objects : \A u \in Threads : monitor'[o] = u /\ u # NoThread =>
    \/ monitor[o] = u /\ (u = t => ~GivenUp(t, o))
    \/ u = t /\ v = t /\ TakenOver(t, fs, o)

LeafAt(f, j) == f.op \in {"load", "running"} /\ f.on = Leaf(j)

Runs(t, fs) ==
  \A j \in Jobs :
    /\ status'[Leaf(j)] = "READY" =>
         status[Leaf(j)] = "READY" /\ callbacks'[Leaf(j)] = callbacks[Leaf(j)]
    /\ status'[Leaf(j)] = "RUNNING" =>
         \/ \E i \in DOMAIN fs : LeafAt(fs[i], j)
         \/ status[Leaf(j)] = "RUNNING" /\ ~LeafAt(stack[t][1], j)

Cancels(t, v, fs) ==
  stack[t][1].op = "cancel" =>
    /\ v = t
    /\ \/ \A i \in DOMAIN fs : fs[i].op = "cancel"
       \/ \E j \in Jobs : status[Leaf(j)] \in {"READY", "RUNNING"} /\ callbacks[Leaf(j)] # <<>>

Turn(t) ==
  /\ \E v, fs : Turns(t, v, fs) /\ Enters(t, v, fs) /\ Runs(t, fs) /\ Cancels(t, v, fs)
  /\ FieldsTyped'
  /\ UNCHANGED cancelling

(* Below the frames that a step makes there is what was below the one it    *)
(* took.                                                                    *)
LEMMA StacksAfter ==
  ASSUME stack \in [Threads -> Seq(AnyFrames)], NEW t \in Threads, NEW v \in Threads,
         NEW fs \in Seq(AnyFrames), Takes(t, v, fs)
  PROVE  /\ stack' \in [Threads -> Seq(AnyFrames)]
         /\ stack[t] # <<>> /\ 1 \in DOMAIN stack[t] /\ stack[t][1] \in AnyFrames
         /\ v = t => \A i \in DOMAIN stack'[t] :
              \/ i \in DOMAIN fs /\ stack'[t][i] = fs[i]
              \/ /\ i > Len(fs) /\ i - Len(fs) + 1 \in DOMAIN stack[t]
                 /\ stack'[t][i] = stack[t][i - Len(fs) + 1]
         /\ v = t => DOMAIN fs \subseteq DOMAIN stack'[t] /\ \A i \in DOMAIN fs : stack'[t][i] = fs[i]
         /\ v # t => \A i \in DOMAIN stack'[t] :
              i + 1 \in DOMAIN stack[t] /\ stack'[t][i] = stack[t][i + 1]
         /\ v # t => stack'[v] = fs /\ stack[v] = <<>>
         /\ \A u \in Threads : u # t /\ u # v => stack'[u] = stack[u]
         /\ \A i \in DOMAIN stack[t] : i # 1 => \E m \in DOMAIN stack'[t] : stack'[t][m] = stack[t][i]
<1>1. /\ stack[t] \in Seq(AnyFrames) /\ stack[t] # <<>> /\ Tail(stack[t]) \in Seq(AnyFrames)
      /\ Len(stack[t]) \in Nat \ {0} /\ Len(Tail(stack[t])) = Len(stack[t]) - 1
      /\ \A i \in 1..(Len(stack[t]) - 1) : Tail(stack[t])[i] = stack[t][i + 1]
      /\ DOMAIN stack[t] = 1 .. Len(stack[t])
      /\ 1 \in DOMAIN stack[t]
  BY DEF Takes
<1>2. /\ fs \o Tail(stack[t]) \in Seq(AnyFrames)
      /\ Len(fs \o Tail(stack[t])) = Len(fs) + Len(Tail(stack[t]))
      /\ \A i \in 1..(Len(fs) + Len(Tail(stack[t]))) :
           (fs \o Tail(stack[t]))[i] =
             IF i <= Len(fs) THEN fs[i] ELSE Tail(stack[t])[i - Len(fs)]
  BY <1>1, ConcatProperties
<1>3. stack' \in [Threads -> Seq(AnyFrames)]
  BY <1>1, <1>2 DEF Takes
<1>4. Len(fs) \in Nat /\ DOMAIN fs = 1 .. Len(fs)
  OBVIOUS
<1>5. CASE v = t
  <2>1. stack'[t] = fs \o Tail(stack[t]) /\ \A u \in Threads : u # t => stack'[u] = stack[u]
    BY <1>5 DEF Takes
  <2>2. DOMAIN stack'[t] = 1 .. (Len(fs) + Len(stack[t]) - 1)
    BY <1>1, <1>2, <1>4, <2>1
  <2>3. ASSUME NEW i \in DOMAIN stack'[t]
        PROVE  \/ i \in DOMAIN fs /\ stack'[t][i] = fs[i]
               \/ /\ i > Len(fs) /\ i - Len(fs) + 1 \in DOMAIN stack[t]
                  /\ stack'[t][i] = stack[t][i - Len(fs) + 1]
    <3>1. i \in 1..(Len(fs) + Len(Tail(stack[t])))
      BY <1>1, <2>2
    <3>2. CASE i <= Len(fs)
      BY <3>1, <3>2, <1>2, <1>4, <2>1
    <3>3. CASE i > Len(fs)
      <4>1. i - Len(fs) \in 1..(Len(stack[t]) - 1)
        BY <3>1, <3>3, <1>1, <1>4
      <4>2. stack'[t][i] = Tail(stack[t])[i - Len(fs)]
        BY <3>1, <3>3, <1>2, <1>4, <2>1
      <4> QED
        BY <4>1, <4>2, <3>3, <1>1, <1>4
    <3> QED
      BY <3>1, <3>2, <3>3, <1>4
  <2>4. ASSUME NEW i \in DOMAIN fs PROVE i \in DOMAIN stack'[t] /\ stack'[t][i] = fs[i]
    <3>1. i \in 1..(Len(fs) + Len(Tail(stack[t]))) /\ i <= Len(fs)
      BY <1>1, <1>4
    <3> QED
      BY <3>1, <2>1, <2>2, <1>1, <1>2
  <2>5. ASSUME NEW i \in DOMAIN stack[t], i # 1
        PROVE  \E m \in DOMAIN stack'[t] : stack'[t][m] = stack[t][i]
    <3>1. i - 1 \in 1..(Len(stack[t]) - 1)
      BY <1>1, <2>5
    <3>2. Tail(stack[t])[i - 1] = stack[t][(i - 1) + 1]
      BY <3>1, <1>1
    <3>3. (i - 1) + 1 = i
      BY <3>1, <1>1
    <3>4. /\ (i - 1) + Len(fs) \in 1..(Len(fs) + Len(Tail(stack[t])))
          /\ ~((i - 1) + Len(fs) <= Len(fs)) /\ ((i - 1) + Len(fs)) - Len(fs) = i - 1
      BY <3>1, <1>1, <1>4
    <3>5. stack'[t][(i - 1) + Len(fs)] = stack[t][i]
      BY <3>2, <3>3, <3>4, <1>2, <2>1
    <3>6. (i - 1) + Len(fs) \in DOMAIN stack'[t]
      BY <3>4, <2>2, <1>1
    <3> QED
      BY <3>5, <3>6
  <2>6. stack[t][1] \in AnyFrames /\ \A u \in Threads : u # t /\ u # v => stack'[u] = stack[u]
    BY <1>1, <2>1
  <2>7. DOMAIN fs \subseteq DOMAIN stack'[t] /\ \A i \in DOMAIN fs : stack'[t][i] = fs[i]
    BY <2>4
  <2>8. \A i \in DOMAIN stack'[t] :
          \/ i \in DOMAIN fs /\ stack'[t][i] = fs[i]
          \/ /\ i > Len(fs) /\ i - Len(fs) + 1 \in DOMAIN stack[t]
             /\ stack'[t][i] = stack[t][i - Len(fs) + 1]
    BY <2>3
  <2>9. \A i \in DOMAIN stack[t] : i # 1 => \E m \in DOMAIN stack'[t] : stack'[t][m] = stack[t][i]
    BY <2>5
  <2> QED
    BY <1>1, <1>3, <1>5, <2>6, <2>7, <2>8, <2>9
<1>6. CASE v # t
  <2>1. /\ stack'[t] = Tail(stack[t]) /\ stack'[v] = fs /\ stack[v] = <<>>
        /\ \A u \in Threads : u # t /\ u # v => stack'[u] = stack[u]
    BY <1>6 DEF Takes
  <2>2. DOMAIN stack'[t] = 1 .. (Len(stack[t]) - 1)
    BY <1>1, <2>1
  <2>3. \A i \in DOMAIN stack'[t] : i + 1 \in DOMAIN stack[t] /\ stack'[t][i] = stack[t][i + 1]
    BY <1>1, <2>1, <2>2
  <2>4. ASSUME NEW i \in DOMAIN stack[t], i # 1
        PROVE  \E m \in DOMAIN stack'[t] : stack'[t][m] = stack[t][i]
    <3>1. i - 1 \in DOMAIN stack'[t] /\ (i - 1) + 1 = i
      BY <1>1, <2>2, <2>4
    <3> QED
      BY <3>1, <2>3
  <2> QED
    BY <1>1, <1>3, <1>6, <2>1, <2>3, <2>4
<1> QED
  BY <1>5, <1>6

(* A step that does so keeps the stacks in order, and whoever enters a      *)
(* monitor and stays gives it back.                                         *)
LEMMA TurnKeeps ==
  ASSUME MonitorInv, NEW t \in Threads, Turn(t)
  PROVE  MonitorInv'
<1>1. PICK v, fs : Turns(t, v, fs) /\ Enters(t, v, fs)
  BY DEF Turn
<1>2. v \in Threads /\ fs \in Seq(AnyFrames) /\ Takes(t, v, fs)
  BY <1>1 DEF Turns
<1>3. stack \in [Threads -> Seq(AnyFrames)]
  BY DEF MonitorInv, Typed
<1>4. Len(fs) \in Nat /\ DOMAIN fs = 1 .. Len(fs)
  BY <1>2
<1>5. \A u \in Threads : DOMAIN stack[u] = 1 .. Len(stack[u]) /\ Len(stack[u]) \in Nat
  BY <1>3
<1>6. Typed'
  <2>1. stack' \in [Threads -> Seq(AnyFrames)]
    BY <1>2, <1>3, StacksAfter
  <2>2. Canceller \in Threads /\ (cancelling \/ stack[Canceller] = <<>>)
    BY DEF MonitorInv, Typed, Threads
  <2>3. CASE cancelling
    BY <2>1, <2>3 DEF Turn, Typed
  <2>4. CASE stack[Canceller] = <<>>
    <3>1. Canceller # t /\ Canceller # v
      BY <1>1, <1>2, <2>4 DEF Turns, Takes
    <3>2. stack'[Canceller] = <<>>
      BY <1>2, <1>3, <2>2, <2>4, <3>1, StacksAfter
    <3> QED
      BY <2>1, <3>2 DEF Turn, Typed
  <2> QED
    BY <2>2, <2>3, <2>4
<1>7. StackOrdered'
  <2> SUFFICES ASSUME NEW u \in Threads, NEW i \in DOMAIN stack'[u], NEW m \in DOMAIN stack'[u],
                      i < m, stack'[u][m].op = "release"
               PROVE  Rank(stack'[u][m].on) < Level(stack'[u][i])
    BY DEF StackOrdered, Rank, Level, CallLevel, Height, Top, Group, Leaf, Composed
  <2>0. /\ DOMAIN stack'[u] = 1 .. Len(stack'[u]) /\ i \in Nat \ {0} /\ m \in Nat \ {0}
        /\ \A w \in Threads : \A n \in DOMAIN stack[w] :
             /\ Level(stack[w][n]) \in Nat
             /\ stack[w][n].op = "release" => Rank(stack[w][n].on) \in Nat
    <3>1. stack' \in [Threads -> Seq(AnyFrames)]
      BY <1>2, <1>3, StacksAfter
    <3>2. \A w \in Threads : \A n \in DOMAIN stack[w] : stack[w][n] \in AnyFrames
      BY <1>3
    <3> QED
      BY <3>1, <3>2, AnyFrameFacts, LevelFacts, RankFacts
  <2>1. \A w \in Threads : \A k, n \in DOMAIN stack[w] :
          k < n /\ stack[w][n].op = "release" => Rank(stack[w][n].on) < Level(stack[w][k])
    BY DEF MonitorInv, StackOrdered
  <2>2. CASE u = t /\ v = t
    <3>1. /\ \/ i \in DOMAIN fs /\ stack'[t][i] = fs[i]
             \/ /\ i > Len(fs) /\ i - Len(fs) + 1 \in DOMAIN stack[t]
                /\ stack'[t][i] = stack[t][i - Len(fs) + 1]
          /\ \/ m \in DOMAIN fs /\ stack'[t][m] = fs[m]
             \/ /\ m > Len(fs) /\ m - Len(fs) + 1 \in DOMAIN stack[t]
                /\ stack'[t][m] = stack[t][m - Len(fs) + 1]
      BY <1>2, <1>3, <2>2, StacksAfter
    <3>2. CASE m \in DOMAIN fs /\ stack'[t][m] = fs[m]
      <4>1. i \in DOMAIN fs /\ stack'[t][i] = fs[i]
        BY <1>4, <2>0, <3>1, <3>2
      <4> QED
        BY <1>1, <2>2, <3>2, <4>1 DEF Turns
    <3>3. CASE m > Len(fs) /\ m - Len(fs) + 1 \in DOMAIN stack[t] /\ stack'[t][m] = stack[t][m - Len(fs) + 1]
      <4> DEFINE n == m - Len(fs) + 1
      <4>1. n \in DOMAIN stack[t] /\ n > 1 /\ stack'[t][m] = stack[t][n] /\ stack[t][n].op = "release"
        BY <1>4, <2>0, <2>2, <3>3
      <4>2. CASE i \in DOMAIN fs /\ stack'[t][i] = fs[i]
        <5>1. 1 \in DOMAIN stack[t] /\ Level(stack[t][1]) <= Level(fs[i])
          BY <1>1, <1>2, <1>3, <2>2, <4>2, StacksAfter DEF Turns
        <5>2. fs[i] \in AnyFrames
          BY <1>2, <4>2
        <5>3. Rank(stack[t][n].on) < Level(stack[t][1])
          BY <2>1, <4>1, <5>1, <1>4, <2>0
        <5>4. Level(fs[i]) \in Nat
          BY <5>2, LevelFacts
        <5>5. Rank(stack[t][n].on) \in Nat /\ Level(stack[t][1]) \in Nat
          BY <2>0, <4>1, <5>1
        <5> HIDE DEF n
        <5>6. Rank(stack[t][n].on) < Level(fs[i])
          BY <5>1, <5>3, <5>4, <5>5
        <5> QED
          BY <2>2, <4>1, <4>2, <5>6
      <4>3. CASE i > Len(fs) /\ i - Len(fs) + 1 \in DOMAIN stack[t] /\ stack'[t][i] = stack[t][i - Len(fs) + 1]
        <5>1. i - Len(fs) + 1 < n
          BY <1>4, <2>0
        <5> HIDE DEF n
        <5> QED
          BY <2>1, <2>2, <4>1, <4>3, <5>1
      <4> QED
        BY <3>1, <4>2, <4>3
    <3> QED
      BY <3>1, <3>2, <3>3
  <2>3. CASE u = t /\ v # t
    <3>1. /\ i + 1 \in DOMAIN stack[t] /\ stack'[t][i] = stack[t][i + 1]
          /\ m + 1 \in DOMAIN stack[t] /\ stack'[t][m] = stack[t][m + 1]
      BY <1>2, <1>3, <2>3, StacksAfter
    <3>2. i + 1 < m + 1
      BY <2>0
    <3> QED
      BY <2>1, <2>3, <3>1, <3>2
  <2>4. CASE u = v /\ v # t
    <3>1. stack'[u] = fs
      BY <1>2, <1>3, <2>4, StacksAfter
    <3> QED
      BY <1>1, <2>4, <3>1 DEF Turns
  <2>5. CASE u # t /\ u # v
    <3>1. stack'[u] = stack[u]
      BY <1>2, <1>3, <2>5, StacksAfter
    <3> QED
      BY <2>1, <3>1
  <2> QED
    BY <2>2, <2>3, <2>4, <2>5
<1>8. HoldersGiveBack'
  <2> SUFFICES ASSUME NEW o \in Objects, NEW u \in Threads, monitor'[o] = u, u # NoThread
               PROVE  \/ \E m \in DOMAIN stack'[u] : stack'[u][m] = Release(o)
                      \/ stack'[u] # <<>> /\ stack'[u][1] = Frame("generated", o, 0)
    BY DEF HoldersGiveBack, GivesBack, Release, Frame
  <2>1. \/ monitor[o] = u /\ (u = t => ~GivenUp(t, o))
        \/ u = t /\ v = t /\ TakenOver(t, fs, o)
    BY <1>1 DEF Enters
  <2>2. CASE monitor[o] = u /\ (u = t => ~GivenUp(t, o))
    <3>1. GivesBack(u, o)
      BY <2>2 DEF MonitorInv, HoldersGiveBack
    <3>2. CASE u = t
      <4>1. PICK m \in DOMAIN stack[t] : stack[t][m] = Release(o) /\ m # 1
        BY <2>2, <3>1, <3>2 DEF GivesBack, GivenUp
      <4> QED
        BY <1>2, <1>3, <3>2, <4>1, StacksAfter
    <3>3. CASE u # t
      <4>1. stack[u] # <<>>
        BY <3>1, <1>5 DEF GivesBack
      <4>2. stack'[u] = stack[u]
        BY <1>2, <1>3, <3>3, <4>1, StacksAfter
      <4> QED
        BY <3>1, <4>2 DEF GivesBack
    <3> QED
      BY <3>2, <3>3
  <2>3. CASE u = t /\ v = t /\ TakenOver(t, fs, o)
    <3>1. DOMAIN fs \subseteq DOMAIN stack'[t] /\ \A i \in DOMAIN fs : stack'[t][i] = fs[i]
      BY <1>2, <1>3, <2>3, StacksAfter
    <3>2. fs # <<>> => 1 \in DOMAIN fs
      BY <1>2
    <3>3. 1 \in DOMAIN stack'[t] => stack'[t] # <<>>
      OBVIOUS
    <3> QED
      BY <2>3, <3>1, <3>2, <3>3 DEF TakenOver
  <2> QED
    BY <2>1, <2>2, <2>3
<1> QED
  BY <1>6, <1>7, <1>8 DEF MonitorInv

(* The first frame of a thread that takes a step.                           *)
Shows(t, h, op) ==
  /\ h \in AnyFrames /\ h.op = op /\ h.on = On(t) /\ h.arg = Arg(t)
  /\ stack[t] # <<>> /\ stack[t][1] = h

(* The first frame of a thread is a frame.                                  *)
LEMMA FirstFrame ==
  ASSUME Typed, NEW t \in Threads, NEW op, Doing(t, op)
  PROVE  \E h : Shows(t, h, op)
<1>1. stack[t] \in Seq(AnyFrames) /\ stack[t] # <<>>
  BY DEF Typed, Doing
<1>2. Head(stack[t]) = stack[t][1] /\ stack[t][1] \in AnyFrames
  BY <1>1
<1> QED
  BY <1>1, <1>2 DEF Shows, Doing, On, Arg

(* A thread that goes on itself, with frames that want no smaller monitors. *)
LEMMA OwnTurn ==
  ASSUME NEW t \in Threads, NEW h, NEW op, Shows(t, h, op), NEW fs \in Seq(AnyFrames), Then(t, fs),
         \A i \in DOMAIN fs : Level(h) <= Level(fs[i]) /\ fs[i].op # "release"
  PROVE  Turns(t, t, fs)
BY DEF Turns, Takes, Then, Shows

(* A thread that starts another one.                                        *)
LEMMA StartTurn ==
  ASSUME NEW t \in Threads, NEW h, NEW op, Shows(t, h, op), NEW fs \in Seq(AnyFrames),
         NEW v \in Threads, v # Canceller, ThenStart(t, <<>>, v, fs), stack \in [Threads -> Seq(AnyFrames)],
         \A i \in DOMAIN fs : fs[i].op # "release"
  PROVE  Turns(t, v, fs) /\ v # t
<1>1. stack[t] # <<>> /\ stack[v] = <<>> /\ v # t
  BY DEF Shows, ThenStart
<1>2. Tail(stack[t]) \in Seq(AnyFrames)
  BY <1>1
<1>3. <<>> \o Tail(stack[t]) = Tail(stack[t])
  BY <1>2
<1>4. stack' = [stack EXCEPT ![t] = Tail(@), ![v] = fs]
  BY <1>3 DEF ThenStart
<1> QED
  BY <1>1, <1>4 DEF Turns, Takes

(* The list that is empty, and the lists of one or two frames.              *)
LEMMA FewFrames ==
  /\ <<>> \in Seq(AnyFrames) /\ DOMAIN <<>> = {}
  /\ \A f \in AnyFrames : <<f>> \in Seq(AnyFrames) /\ DOMAIN <<f>> = {1} /\ <<f>>[1] = f
  /\ \A f, g \in AnyFrames : /\ <<f, g>> \in Seq(AnyFrames) /\ DOMAIN <<f, g>> = {1, 2}
                             /\ <<f, g>>[1] = f /\ <<f, g>>[2] = g
OBVIOUS

(* The monitors stay as they are, and the frame taken gives none back.      *)
LEMMA EntersNone ==
  ASSUME NEW t \in Threads, NEW h, NEW op, Shows(t, h, op), op \notin {"release", "generated"},
         UNCHANGED monitor, NEW v, NEW fs
  PROVE  Enters(t, v, fs)
BY DEF Enters, GivenUp, Shows, Release, Frame

(* One object changes at most; a leaf then ends, or stays with a frame that *)
(* runs its job.                                                            *)
LEMMA RunsOne ==
  ASSUME NEW t \in Threads, NEW h, NEW op, Shows(t, h, op), NEW fs, NEW o \in Objects,
         \A x \in Objects : x # o => status'[x] = status[x] /\ callbacks'[x] = callbacks[x],
         o[1] = "leaf" =>
           \/ status'[o] \notin {"READY", "RUNNING"}
           \/ status'[o] = "RUNNING" /\ \E i \in DOMAIN fs : LeafAt(fs[i], o[2])
           \/ status'[o] = "RUNNING" /\ status[o] = "RUNNING" /\ op \notin {"load", "running"},
         op \in {"load", "running"} => h.on = o
  PROVE  Runs(t, fs)
<1>1. ASSUME NEW j \in Jobs
      PROVE  /\ status'[Leaf(j)] = "READY" =>
                  status[Leaf(j)] = "READY" /\ callbacks'[Leaf(j)] = callbacks[Leaf(j)]
             /\ status'[Leaf(j)] = "RUNNING" =>
                  \/ \E i \in DOMAIN fs : LeafAt(fs[i], j)
                  \/ status[Leaf(j)] = "RUNNING" /\ ~LeafAt(stack[t][1], j)
  <2>1. Leaf(j) \in Objects /\ Leaf(j)[1] = "leaf" /\ Leaf(j)[2] = j
    BY Names
  <2>2. stack[t][1] = h /\ h.op = op
    BY DEF Shows
  <2>3. CASE Leaf(j) = o
    <3>1. op \notin {"load", "running"} => ~LeafAt(stack[t][1], j)
      BY <2>2 DEF LeafAt
    <3> QED
      BY <2>1, <2>3, <3>1
  <2>4. CASE Leaf(j) # o
    <3>1. ~LeafAt(stack[t][1], j)
      BY <2>2, <2>4 DEF LeafAt
    <3> QED
      BY <2>1, <2>4, <3>1
  <2> QED
    BY <2>3, <2>4
<1> QED
  BY <1>1 DEF Runs

(* A step that changes no object, of a thread whose frame runs no job.      *)
LEMMA RunsNone ==
  ASSUME NEW t \in Threads, NEW h, NEW op, Shows(t, h, op), NEW fs,
         UNCHANGED <<status, callbacks>>, op \notin {"load", "running"}
  PROVE  Runs(t, fs)
BY DEF Runs, Shows, LeafAt

(* A frame that cancels nothing has no more to show.                        *)
LEMMA CancelsNone ==
  ASSUME NEW t \in Threads, NEW h, NEW op, Shows(t, h, op), op # "cancel", NEW v, NEW fs
  PROVE  Cancels(t, v, fs)
BY DEF Cancels, Shows

(* The objects keep their types when one of them gets another status, and   *)
(* calls nobody or one more.                                                *)
LEMMA FieldsKept ==
  ASSUME FieldsTyped, NEW o \in Objects, NEW s \in Status,
         status' = status \/ status' = [status EXCEPT ![o] = s],
         \/ callbacks' = callbacks
         \/ callbacks' = [callbacks EXCEPT ![o] = <<>>]
         \/ \E c \in CalledBy(o) : callbacks' = [callbacks EXCEPT ![o] = Append(@, c)],
         UNCHANGED notified,
         \/ monitor' = monitor
         \/ \E u \in Threads \cup {NoThread, Web} : monitor' = [monitor EXCEPT ![o] = u]
  PROVE  FieldsTyped'
<1>1. status' \in [Objects -> Status] /\ notified' \in [Dependents -> Seq(BOOLEAN)]
      /\ monitor' \in [Objects -> Threads \cup {NoThread, Web}]
  BY DEF FieldsTyped
<1>2. callbacks' \in [Objects -> Seq(Callbacks)] /\ \A x \in Objects : callbacks'[x] \in Seq(CalledBy(x))
  <2>0. callbacks \in [Objects -> Seq(Callbacks)] /\ \A x \in Objects : callbacks[x] \in Seq(CalledBy(x))
    BY DEF FieldsTyped
  <2>1. CASE callbacks' = callbacks \/ callbacks' = [callbacks EXCEPT ![o] = <<>>]
    <3>1. \A x \in Objects : callbacks'[x] = callbacks[x] \/ callbacks'[x] = <<>>
      BY <2>0, <2>1
    <3>2. \A x \in Objects : <<>> \in Seq(CalledBy(x)) /\ <<>> \in Seq(Callbacks)
      OBVIOUS
    <3>3. callbacks' \in [Objects -> Seq(Callbacks)]
      BY <2>0, <2>1, <3>2
    <3> QED
      BY <2>0, <3>1, <3>2, <3>3
  <2>2. ASSUME NEW c \in CalledBy(o), callbacks' = [callbacks EXCEPT ![o] = Append(@, c)]
        PROVE  callbacks' \in [Objects -> Seq(Callbacks)] /\ \A x \in Objects : callbacks'[x] \in Seq(CalledBy(x))
    <3>1. c \in Callbacks
      BY CalledFacts
    <3>2. callbacks[o] \in Seq(Callbacks) /\ callbacks[o] \in Seq(CalledBy(o))
      BY DEF FieldsTyped
    <3>3. Append(callbacks[o], c) \in Seq(Callbacks) /\ Append(callbacks[o], c) \in Seq(CalledBy(o))
      BY <3>1, <3>2
    <3>4. callbacks' = [callbacks EXCEPT ![o] = Append(callbacks[o], c)]
      BY <2>2
    <3>5. callbacks' \in [Objects -> Seq(Callbacks)]
      BY <2>0, <3>3, <3>4
    <3>6. callbacks'[o] = Append(callbacks[o], c) /\ \A x \in Objects : x # o => callbacks'[x] = callbacks[x]
      BY <2>0, <3>4
    <3> QED
      BY <2>0, <3>3, <3>5, <3>6
  <2> QED
    BY <2>1, <2>2
<1> QED
  BY <1>1, <1>2 DEF FieldsTyped, CalledBy, GroupCallbacks

(* A step that changes no object and no monitor.                            *)
LEMMA PlainTurn ==
  ASSUME Typed, NEW t \in Threads, NEW h, NEW op, Shows(t, h, op), op \notin {"release", "generated"},
         UNCHANGED <<status, callbacks, notified, monitor, cancelling>>,
         NEW v, NEW fs, Turns(t, v, fs), Runs(t, fs), Cancels(t, v, fs)
  PROVE  Turn(t)
<1>1. Enters(t, v, fs)
  BY EntersNone
<1>2. FieldsTyped'
  BY DEF Typed, FieldsTyped, CalledBy, GroupCallbacks
<1> QED
  BY <1>1, <1>2 DEF Turn

(* A thread whose call is over.                                             *)
LEMMA PopTurn ==
  ASSUME Typed, NEW t \in Threads, NEW h, NEW op, Shows(t, h, op),
         op \notin {"release", "generated", "load", "running"},
         UNCHANGED <<status, callbacks, notified, monitor, cancelling>>, Then(t, <<>>)
  PROVE  Turn(t)
<1>1. Turns(t, t, <<>>)
  BY OwnTurn, FewFrames
<1>2. Cancels(t, t, <<>>)
  BY FewFrames DEF Cancels
<1> QED
  BY <1>1, <1>2, RunsNone, PlainTurn

-----------------------------------------------------------------------------
(* An object that turns RUNNING goes on outside its monitor, with what it   *)
(* is made of or with its job.                                              *)
LEMMA ExecuteReadyTurns ==
  ASSUME Typed, NEW t \in Threads, ExecuteReady(t)
  PROVE  Turn(t)
<1>1. PICK h : Shows(t, h, "execute")
  BY FirstFrame DEF ExecuteReady
<1>2. PICK o \in Objects : o = On(t) /\ Arg(t) \in CalledBy(o) /\ h.on = o
  BY <1>1, AnyFrameFacts DEF Shows
<1>3. /\ status[o] = "READY" /\ status' = [status EXCEPT ![o] = "RUNNING"]
      /\ callbacks' = [callbacks EXCEPT ![o] = Append(@, Arg(t))]
      /\ Then(t, Body(o)) /\ UNCHANGED <<notified, monitor, cancelling>>
  BY <1>2 DEF ExecuteReady, SetStatus
<1>4. status \in [Objects -> Status] /\ callbacks \in [Objects -> Seq(Callbacks)]
  BY DEF Typed, FieldsTyped
<1>5. status'[o] = "RUNNING" /\ \A x \in Objects : x # o => status'[x] = status[x] /\ callbacks'[x] = callbacks[x]
  BY <1>3, <1>4
<1>6. PICK f \in AnyFrames : /\ Body(o) = <<f>> /\ f.op # "release" /\ Level(h) <= Level(f)
                             /\ o[1] = "leaf" => LeafAt(f, o[2])
  <2>1. Level(h) = (IF o[1] = "leaf" THEN Rank(o) ELSE 0) /\ Rank(o) \in Nat
    BY <1>1, <1>2, RankFacts DEF Shows, Level
  <2>2. CASE o[1] = "leaf"
    <3>1. Body(o) = <<Load(o[2])>> /\ o = Leaf(o[2]) /\ o[2] \in Jobs
      BY <2>2, ObjectFacts DEF Body
    <3>2. Load(o[2]) \in AnyFrames /\ Load(o[2]).op = "load" /\ Load(o[2]).on = o /\ Level(Load(o[2])) = Rank(o)
      BY <3>1, AnyFramesMade, LevelFacts DEF Load, Frame
    <3> QED
      BY <2>1, <2>2, <3>1, <3>2 DEF LeafAt
  <2>3. CASE o[1] = "group"
    <3>1. Body(o) = <<Children(o[2], 1)>> /\ o[2] \in Dependents
      BY <2>3, ObjectFacts DEF Body
    <3>2. Children(o[2], 1) \in AnyFrames /\ Children(o[2], 1).op = "children" /\ Level(Children(o[2], 1)) = 0
      BY <3>1, AnyFramesMade, LevelFacts DEF Children, Frame
    <3> QED
      BY <2>1, <2>3, <3>1, <3>2
  <2>4. CASE o[1] = "composed"
    <3> DEFINE e == Execute(Group(o[2]), DependeeCallback(o[2]))
    <3>1. Body(o) = <<e>> /\ o[2] \in Dependents /\ o[2] \in Jobs
      BY <2>4, ObjectFacts DEF Body
    <3>2. Group(o[2]) \in Objects /\ Group(o[2])[1] = "group" /\ DependeeCallback(o[2]) \in CalledBy(Group(o[2]))
      BY <3>1, Names, CalledFacts
    <3>3. e \in AnyFrames /\ e.op = "execute" /\ Level(e) = 0
      BY <3>2, AnyFramesMade, LevelFacts DEF Execute, Frame
    <3> QED
      BY <2>1, <2>4, <3>1, <3>3
  <2> QED
    BY <2>2, <2>3, <2>4, ObjectFacts
<1>7. Turns(t, t, Body(o))
  <2>1. Body(o) \in Seq(AnyFrames) /\ \A i \in DOMAIN Body(o) : Body(o)[i] = f
    BY <1>6, FewFrames
  <2> QED
    BY <1>1, <1>3, <1>6, <2>1, OwnTurn
<1>8. Runs(t, Body(o))
  <2>1. o[1] = "leaf" => \E i \in DOMAIN Body(o) : LeafAt(Body(o)[i], o[2])
    BY <1>6, FewFrames
  <2>2. o[1] = "leaf" =>
          \/ status'[o] \notin {"READY", "RUNNING"}
          \/ status'[o] = "RUNNING" /\ \E i \in DOMAIN Body(o) : LeafAt(Body(o)[i], o[2])
          \/ status'[o] = "RUNNING" /\ status[o] = "RUNNING" /\ "execute" \notin {"load", "running"}
    BY <1>5, <2>1
  <2> QED
    BY <1>1, <1>5, <2>2, RunsOne
<1>9. Enters(t, t, Body(o)) /\ Cancels(t, t, Body(o))
  BY <1>1, <1>3, EntersNone, CancelsNone
<1>10. FieldsTyped'
  <2>1. "RUNNING" \in Status /\ FieldsTyped
    BY DEF Status, Typed
  <2> QED
    BY <1>2, <1>3, <2>1, FieldsKept
<1> QED
  BY <1>3, <1>7, <1>8, <1>9, <1>10 DEF Turn

(* An object that is RUNNING already takes one more callback.               *)
LEMMA ExecuteRunningTurns ==
  ASSUME Typed, NEW t \in Threads, ExecuteRunning(t)
  PROVE  Turn(t)
<1>1. PICK h : Shows(t, h, "execute")
  BY FirstFrame DEF ExecuteRunning
<1>2. PICK o \in Objects : o = On(t) /\ Arg(t) \in CalledBy(o)
  BY <1>1, AnyFrameFacts DEF Shows
<1>3. /\ status[o] = "RUNNING" /\ callbacks' = [callbacks EXCEPT ![o] = Append(@, Arg(t))]
      /\ Then(t, <<>>) /\ UNCHANGED <<status, notified, monitor, cancelling>>
  BY <1>2 DEF ExecuteRunning
<1>4. callbacks \in [Objects -> Seq(Callbacks)]
  BY DEF Typed, FieldsTyped
<1>5. Turns(t, t, <<>>)
  BY <1>1, <1>3, OwnTurn, FewFrames
<1>6. \A x \in Objects : x # o => status'[x] = status[x] /\ callbacks'[x] = callbacks[x]
  BY <1>3, <1>4
<1>7. Runs(t, <<>>)
  <2>1. o[1] = "leaf" =>
          \/ status'[o] \notin {"READY", "RUNNING"}
          \/ status'[o] = "RUNNING" /\ \E i \in DOMAIN <<>> : LeafAt(<<>>[i], o[2])
          \/ status'[o] = "RUNNING" /\ status[o] = "RUNNING" /\ "execute" \notin {"load", "running"}
    BY <1>3
  <2> QED
    BY <1>1, <1>6, <2>1, RunsOne
<1>8. Enters(t, t, <<>>) /\ Cancels(t, t, <<>>)
  BY <1>1, <1>3, EntersNone, CancelsNone
<1>9. FieldsTyped'
  <2>1. "RUNNING" \in Status /\ FieldsTyped
    BY DEF Status, Typed
  <2> QED
    BY <1>2, <1>3, <2>1, FieldsKept
<1> QED
  BY <1>3, <1>5, <1>7, <1>8, <1>9 DEF Turn

(* What an object that has ended is asked to tell wants a greater monitor   *)
(* than the one it is told in.                                              *)
LEMMA ExecuteFinishedTurns ==
  ASSUME Typed, NEW t \in Threads, ExecuteFinished(t)
  PROVE  Turn(t)
<1>1. PICK h : Shows(t, h, "execute")
  BY FirstFrame DEF ExecuteFinished
<1>2. PICK o \in Objects : o = On(t) /\ Arg(t) \in CalledBy(o) /\ h.on = o
  BY <1>1, AnyFrameFacts DEF Shows
<1>3. status \in [Objects -> Status] /\ monitor \in [Objects -> Threads \cup {NoThread, Web}] /\ FieldsTyped
  BY DEF Typed, FieldsTyped
<1> DEFINE verdict == IF status[o] = "FAILED" THEN "FAILED" ELSE "SUCCEEDED"
           told == Completed(Arg(t), verdict)
           fs == IF monitor[o] = t THEN <<told>> ELSE <<told, Release(o)>>
           s == IF status[o] = "IGNORED" /\ o[1] = "leaf" THEN "COMPLETED" ELSE status[o]
<1>4. /\ status' = [status EXCEPT ![o] = s]
      /\ monitor' = [monitor EXCEPT ![o] = t]
      /\ Then(t, fs) /\ UNCHANGED <<callbacks, notified, cancelling>>
      /\ status[o] \in Finished \/ (status[o] = "IGNORED" /\ o[1] # "composed")
  BY <1>2 DEF ExecuteFinished, SetStatus
<1>5. Arg(t) \in Callbacks /\ verdict \in Status /\ CallLevel(Arg(t)) \in Nat /\ Rank(o) \in Nat
      /\ Rank(o) < CallLevel(Arg(t)) /\ Rank(o) < Top /\ Top \in Nat
  BY <1>2, CalledFacts, RankFacts DEF Status
<1>6. told \in AnyFrames /\ told.op = "completed" /\ Level(told) = CallLevel(Arg(t))
  BY <1>5, AnyFramesMade, LevelFacts DEF Completed, Frame
<1>7. Release(o) \in AnyFrames /\ Level(Release(o)) = Top /\ Release(o).on = o /\ Release(o).op = "release"
  BY AnyFramesMade, LevelFacts DEF Release, Frame
<1>8. Level(h) <= Rank(o) /\ Level(h) \in Nat
  BY <1>1, <1>2, <1>5 DEF Shows, Level
<1>9. Turns(t, t, fs)
  <2> HIDE DEF told
  <2>1. Level(h) <= Level(told) /\ Level(h) <= Level(Release(o))
    BY <1>5, <1>6, <1>7, <1>8
  <2>2. Takes(t, t, fs)
    BY <1>1, <1>4 DEF Takes, Then, Shows
  <2>3. CASE monitor[o] = t
    <3>1. fs = <<told>> /\ fs \in Seq(AnyFrames) /\ DOMAIN fs = {1} /\ fs[1] = told
      BY <1>6, <2>3, FewFrames
    <3> HIDE DEF fs
    <3> QED
      BY <1>1, <1>6, <2>1, <2>2, <3>1 DEF Turns, Shows
  <2>4. CASE monitor[o] # t
    <3>1. fs = <<told, Release(o)>> /\ fs \in Seq(AnyFrames) /\ DOMAIN fs = {1, 2} /\ fs[1] = told /\ fs[2] = Release(o)
      BY <1>6, <1>7, <2>4, FewFrames
    <3> HIDE DEF fs
    <3>2. \A m \in DOMAIN fs : fs[m].op = "release" => \A i \in DOMAIN fs : i < m => Rank(fs[m].on) < Level(fs[i])
      BY <1>5, <1>6, <1>7, <3>1
    <3> QED
      BY <1>1, <2>1, <2>2, <3>1, <3>2 DEF Turns, Shows
  <2> QED
    BY <2>3, <2>4
<1>10. Enters(t, t, fs)
  <2> SUFFICES ASSUME NEW x \in Objects, NEW u \in Threads, monitor'[x] = u, u # NoThread
               PROVE  \/ monitor[x] = u /\ (u = t => ~GivenUp(t, x))
                      \/ u = t /\ TakenOver(t, fs, x)
    BY DEF Enters
  <2>1. ~GivenUp(t, x)
    BY <1>1 DEF GivenUp, Shows, Release, Frame
  <2>2. CASE x # o \/ monitor[o] = t
    BY <1>3, <1>4, <2>1, <2>2
  <2>3. CASE x = o /\ monitor[o] # t
    <3>1. fs = <<told, Release(o)>> /\ u = t
      BY <1>3, <1>4, <2>3
    <3>2. 2 \in DOMAIN fs /\ fs[2] = Release(o)
      BY <3>1
    <3> QED
      BY <2>3, <3>1, <3>2 DEF TakenOver
  <2> QED
    BY <2>2, <2>3
<1>11. Runs(t, fs)
  <2>1. \A x \in Objects : x # o => status'[x] = status[x] /\ callbacks'[x] = callbacks[x]
    BY <1>3, <1>4
  <2>2. status'[o] \notin {"READY", "RUNNING"}
    BY <1>3, <1>4 DEF Finished, Good
  <2> HIDE DEF fs
  <2>3. o[1] = "leaf" =>
          \/ status'[o] \notin {"READY", "RUNNING"}
          \/ status'[o] = "RUNNING" /\ \E i \in DOMAIN fs : LeafAt(fs[i], o[2])
          \/ status'[o] = "RUNNING" /\ status[o] = "RUNNING" /\ "execute" \notin {"load", "running"}
    BY <2>2
  <2> QED
    BY <1>1, <2>1, <2>3, RunsOne
<1>12. FieldsTyped'
  <2>1. s \in Status
    BY <1>3 DEF Status
  <2> HIDE DEF s
  <2> QED
    BY <1>3, <1>4, <2>1, FieldsKept
<1>13. Cancels(t, t, fs)
  BY <1>1, CancelsNone
<1> HIDE DEF fs
<1> QED
  BY <1>4, <1>9, <1>10, <1>11, <1>12, <1>13 DEF Turn

(* A composed flow that is IGNORED answers nothing.                         *)
LEMMA ExecuteIgnoredTurns ==
  ASSUME Typed, NEW t \in Threads, ExecuteIgnored(t)
  PROVE  Turn(t)
<1>1. PICK h : Shows(t, h, "execute")
  BY FirstFrame DEF ExecuteIgnored
<1> QED
  BY <1>1, PopTurn DEF ExecuteIgnored

(* A monitor is given back: the frame that did so is gone.                  *)
LEMMA LeaveMonitorTurns ==
  ASSUME Typed, NEW t \in Threads, LeaveMonitor(t)
  PROVE  Turn(t)
<1>1. PICK h : Shows(t, h, "release")
  BY FirstFrame DEF LeaveMonitor
<1>2. PICK o \in Objects : o = On(t) /\ h = Release(o)
  BY <1>1, AnyFrameFacts DEF Shows, Release, Frame
<1>3. /\ monitor' = [monitor EXCEPT ![o] = NoThread] /\ Then(t, <<>>)
      /\ UNCHANGED <<status, callbacks, notified, cancelling>>
  BY <1>2 DEF LeaveMonitor
<1>4. monitor \in [Objects -> Threads \cup {NoThread, Web}] /\ FieldsTyped /\ "READY" \in Status
  BY DEF Typed, FieldsTyped, Status
<1>5. Enters(t, t, <<>>)
  <2> SUFFICES ASSUME NEW x \in Objects, NEW u \in Threads, monitor'[x] = u, u # NoThread
               PROVE  monitor[x] = u /\ ~GivenUp(t, x)
    BY DEF Enters
  <2>1. x # o /\ monitor[x] = u
    BY <1>3, <1>4
  <2> QED
    BY <1>1, <1>2, <2>1 DEF GivenUp, Shows, Release, Frame
<1>6. Turns(t, t, <<>>) /\ Runs(t, <<>>) /\ Cancels(t, t, <<>>)
  <2>1. Turns(t, t, <<>>)
    BY <1>1, <1>3, OwnTurn, FewFrames
  <2>2. Runs(t, <<>>)
    BY <1>1, <1>3, RunsNone
  <2>3. Cancels(t, t, <<>>)
    BY <1>1, CancelsNone
  <2> QED
    BY <2>1, <2>2, <2>3
<1>7. FieldsTyped'
  BY <1>3, <1>4, FieldsKept
<1> QED
  BY <1>3, <1>5, <1>6, <1>7 DEF Turn

(* The group calls its next dependee.                                       *)
LEMMA NextChildTurns ==
  ASSUME Typed, NEW t \in Threads, NextChild(t)
  PROVE  Turn(t)
<1>1. PICK h : Shows(t, h, "children")
  BY FirstFrame DEF NextChild
<1>2. PICK j \in Dependents : On(t)[2] = j
  <2>1. On(t) \in Groups
    BY <1>1, AnyFrameFacts DEF Shows
  <2> QED
    BY <2>1 DEF Groups, Group
<1>10. PICK i \in Nat \ {0} : Arg(t) = i
  BY <1>1, AnyFrameFacts DEF Shows
<1>3. UNCHANGED <<status, callbacks, notified, monitor, cancelling>>
  BY DEF NextChild
<1>4. Level(h) = 0
  BY <1>1 DEF Shows, Level
<1> DEFINE c == Children(j, i + 1)
           e == Execute(FlowOf(Dependees[j][i]), TheGroupCallback(j))
<1>5. c \in AnyFrames /\ c.op = "children" /\ Level(c) = 0
  BY AnyFramesMade, LevelFacts DEF Children, Frame
<1>6. \/ Then(t, <<>>) \/ Then(t, <<c>>)
      \/ i <= Len(Dependees[j]) /\ Then(t, <<e, c>>)
  <2>1. Len(Dependees[j]) \in Nat
    BY FlowConstants DEF Dependents
  <2> QED
    BY <1>2, <1>10, <2>1 DEF NextChild
<1>7. CASE Then(t, <<>>)
  BY <1>1, <1>3, <1>7, PopTurn
<1>8. CASE Then(t, <<c>>)
  <2> HIDE DEF c
  <2>1. <<c>> \in Seq(AnyFrames) /\ DOMAIN <<c>> = {1} /\ <<c>>[1] = c
    BY <1>5, FewFrames
  <2>2. \A k \in DOMAIN <<c>> : Level(h) <= Level(<<c>>[k]) /\ <<c>>[k].op # "release"
    BY <1>4, <1>5, <2>1
  <2>3. Turns(t, t, <<c>>)
    BY <1>1, <1>8, <2>1, <2>2, OwnTurn
  <2> QED
    BY <1>1, <1>3, <2>3, RunsNone, CancelsNone, PlainTurn
<1>9. CASE i <= Len(Dependees[j]) /\ Then(t, <<e, c>>)
  <2>1. Dependees[j] \in Seq(Jobs) /\ i \in DOMAIN Dependees[j] /\ Dependees[j][i] \in RangeOf(Dependees[j])
    BY <1>9, FlowConstants DEF Dependents, RangeOf
  <2>2. Dependees[j][i] \in Jobs /\ FlowOf(Dependees[j][i]) \in Objects
    BY <2>1, Names
  <2>3. Len(notified[j]) \in Nat
    BY DEF Typed, FieldsTyped
  <2>4. TheGroupCallback(j) \in CalledBy(FlowOf(Dependees[j][i]))
    BY <2>1, <2>3, CalledFacts DEF TheGroupCallback
  <2>5. e \in AnyFrames /\ e.op = "execute"
    BY <2>2, <2>4, AnyFramesMade DEF Execute, Frame
  <2> HIDE DEF e, c
  <2>6. 0 <= Level(e)
    BY <2>5, LevelFacts
  <2>7. /\ <<e, c>> \in Seq(AnyFrames) /\ DOMAIN <<e, c>> = {1, 2}
        /\ <<e, c>>[1] = e /\ <<e, c>>[2] = c
    BY <1>5, <2>5, FewFrames
  <2>8. \A k \in DOMAIN <<e, c>> : Level(h) <= Level(<<e, c>>[k]) /\ <<e, c>>[k].op # "release"
    BY <1>4, <1>5, <2>5, <2>6, <2>7
  <2>9. Turns(t, t, <<e, c>>)
    BY <1>1, <1>9, <2>7, <2>8, OwnTurn
  <2> QED
    BY <1>1, <1>3, <2>9, RunsNone, CancelsNone, PlainTurn
<1> QED
  BY <1>6, <1>7, <1>8, <1>9

(* The frames of a leaf's job.                                              *)
LEMMA LeafFrame ==
  ASSUME Typed, NEW t \in Threads, NEW op, op \in {"load", "running", "generated", "callCallbacks"},
         Doing(t, op)
  PROVE  \E h : Shows(t, h, op) /\ \E j \in Jobs : /\ On(t) = Leaf(j) /\ On(t)[2] = j /\ h.on = Leaf(j)
                                                   /\ Leaf(j) \in Objects /\ Leaf(j)[1] = "leaf" /\ Leaf(j)[2] = j
<1>1. PICK h : Shows(t, h, op)
  BY FirstFrame
<1>2. On(t) \in Leaves /\ h.on = On(t)
  BY <1>1, AnyFrameFacts DEF Shows
<1> QED
  BY <1>1, <1>2, Names DEF Leaves

(* A leaf whose job is loaded: a thread of its own runs it.                 *)
LEMMA LoadJobTurns ==
  ASSUME Typed, NEW t \in Threads, LoadJob(t)
  PROVE  Turn(t)
<1>1. PICK h : Shows(t, h, "load") /\ \E j \in Jobs : On(t) = Leaf(j) /\ On(t)[2] = j /\ h.on = Leaf(j)
  BY LeafFrame DEF LoadJob
<1>2. PICK j \in Jobs : On(t)[2] = j /\ h.on = Leaf(j)
  BY <1>1
<1>3. /\ ThenStart(t, <<>>, JobThread(j), <<Running(j)>>)
      /\ UNCHANGED <<status, callbacks, notified, monitor, cancelling>>
  BY <1>2 DEF LoadJob
<1> DEFINE fs == <<Running(j)>>
<1>4. /\ fs \in Seq(AnyFrames) /\ DOMAIN fs = {1} /\ fs[1] = Running(j)
      /\ Running(j).op = "running" /\ Running(j).on = Leaf(j)
  BY AnyFramesMade, FewFrames DEF Running, Frame
<1>5. JobThread(j) \in Threads /\ JobThread(j) # Canceller /\ stack \in [Threads -> Seq(AnyFrames)]
  BY DEF Threads, JobThread, Canceller, Typed
<1>6. Turns(t, JobThread(j), fs)
  <2>1. \A i \in DOMAIN fs : fs[i].op # "release"
    BY <1>4
  <2>2. ThenStart(t, <<>>, JobThread(j), fs)
    BY <1>3
  <2> HIDE DEF fs
  <2> QED
    BY <1>1, <1>4, <1>5, <2>1, <2>2, StartTurn
<1>7. Runs(t, fs)
  <2> SUFFICES ASSUME NEW k \in Jobs, status[Leaf(k)] = "RUNNING"
               PROVE  (\E i \in DOMAIN fs : LeafAt(fs[i], k)) \/ ~LeafAt(stack[t][1], k)
    BY <1>3 DEF Runs
  <2>1. CASE k = j
    BY <1>4, <2>1 DEF LeafAt
  <2>2. CASE k # j
    <3>1. Leaf(k) # Leaf(j)
      BY <2>2, Names
    <3> QED
      BY <1>1, <1>2, <3>1 DEF LeafAt, Shows
  <2> QED
    BY <2>1, <2>2
<1>8. Cancels(t, JobThread(j), fs)
  BY <1>1, CancelsNone
<1> HIDE DEF fs
<1> QED
  BY <1>1, <1>3, <1>6, <1>7, <1>8, PlainTurn

(* A leaf whose job has ended hands the callbacks it has to a thread.       *)
LEMMA LeafTells ==
  ASSUME Typed, NEW j \in Jobs
  PROVE  LET f == CallCallbacks(j, callbacks[Leaf(j)]) IN
         /\ f \in AnyFrames /\ f.op = "callCallbacks" /\ Level(f) = Top
         /\ <<f>> \in Seq(AnyFrames) /\ DOMAIN <<f>> = {1} /\ <<f>>[1] = f
<1>1. callbacks[Leaf(j)] \in Seq(Callbacks) /\ callbacks[Leaf(j)] \in Seq(CalledBy(Leaf(j)))
  BY Names DEF Typed, FieldsTyped
<1> DEFINE f == CallCallbacks(j, callbacks[Leaf(j)])
<1>2. f \in AnyFrames /\ f.op = "callCallbacks" /\ Level(f) = Top
  BY <1>1, AnyFramesMade, LevelFacts DEF CallCallbacks, Frame
<1> QED
  BY <1>2, FewFrames

(* A leaf whose job ends, or is missing, with a new status.                 *)
LEMMA LeafTurns ==
  ASSUME Typed, NEW t \in Threads, NEW h, NEW op, Shows(t, h, op), NEW j \in Jobs, h.on = Leaf(j),
         op \in {"load", "running"}, NEW s \in Status \ {"READY", "RUNNING"},
         status' = [status EXCEPT ![Leaf(j)] = s],
         \/ Then(t, <<CallCallbacks(j, callbacks[Leaf(j)])>>)
         \/ Then(t, <<>>),
         UNCHANGED <<callbacks, notified, monitor, cancelling>>
  PROVE  Turn(t)
<1> DEFINE f == CallCallbacks(j, callbacks[Leaf(j)])
<1>1. PICK fs \in Seq(AnyFrames) : Then(t, fs) /\ fs \in {<<>>, <<f>>}
  BY LeafTells, FewFrames
<1>2. Leaf(j) \in Objects /\ Leaf(j)[1] = "leaf" /\ Leaf(j)[2] = j /\ Rank(Leaf(j)) < Top
      /\ Rank(Leaf(j)) \in Nat /\ Top \in Nat /\ Level(h) = Rank(Leaf(j))
  BY Names, RankFacts DEF Shows, Level
<1>3. \A i \in DOMAIN fs : Level(h) <= Level(fs[i]) /\ fs[i].op # "release"
  BY <1>1, <1>2, LeafTells, FewFrames
<1>4. Turns(t, t, fs)
  BY <1>1, <1>3, OwnTurn
<1>5. status \in [Objects -> Status] /\ FieldsTyped
  BY DEF Typed, FieldsTyped
<1>6. /\ \A x \in Objects : x # Leaf(j) => status'[x] = status[x] /\ callbacks'[x] = callbacks[x]
      /\ status'[Leaf(j)] = s
  BY <1>2, <1>5
<1>7. Runs(t, fs)
  <2>1. Leaf(j)[1] = "leaf" =>
          \/ status'[Leaf(j)] \notin {"READY", "RUNNING"}
          \/ status'[Leaf(j)] = "RUNNING" /\ \E i \in DOMAIN fs : LeafAt(fs[i], Leaf(j)[2])
          \/ status'[Leaf(j)] = "RUNNING" /\ status[Leaf(j)] = "RUNNING" /\ op \notin {"load", "running"}
    BY <1>6
  <2> QED
    BY <1>2, <1>6, <2>1, RunsOne
<1>8. FieldsTyped'
  BY <1>2, <1>5, FieldsKept
<1>9. Enters(t, t, fs) /\ Cancels(t, t, fs)
  BY EntersNone, CancelsNone
<1> QED
  BY <1>4, <1>7, <1>8, <1>9 DEF Turn

(* A leaf whose job is missing FAILED and tells so.                         *)
LEMMA JobMissingTurns ==
  ASSUME Typed, NEW t \in Threads, JobMissing(t)
  PROVE  Turn(t)
<1>1. PICK h : Shows(t, h, "load") /\ \E j \in Jobs : On(t) = Leaf(j) /\ On(t)[2] = j /\ h.on = Leaf(j)
  BY LeafFrame DEF JobMissing
<1>2. PICK j \in Jobs : On(t) = Leaf(j) /\ On(t)[2] = j /\ h.on = Leaf(j)
  BY <1>1
<1>3. /\ status' = [status EXCEPT ![Leaf(j)] = "FAILED"] /\ Then(t, <<CallCallbacks(j, callbacks[Leaf(j)])>>)
      /\ UNCHANGED <<callbacks, notified, monitor, cancelling>>
  BY <1>2 DEF JobMissing, SetStatus
<1>4. "FAILED" \in Status \ {"READY", "RUNNING"} /\ "load" \in {"load", "running"}
  BY DEF Status
<1> QED
  BY <1>1, <1>2, <1>3, <1>4, LeafTurns

(* A leaf whose job throws FAILED and tells so.                             *)
LEMMA JobThrowsTurns ==
  ASSUME Typed, NEW t \in Threads, JobThrows(t)
  PROVE  Turn(t)
<1>1. PICK h : Shows(t, h, "running") /\ \E j \in Jobs : On(t) = Leaf(j) /\ On(t)[2] = j /\ h.on = Leaf(j)
  BY LeafFrame DEF JobThrows
<1>2. PICK j \in Jobs : On(t) = Leaf(j) /\ On(t)[2] = j /\ h.on = Leaf(j)
  BY <1>1
<1>3. /\ status' = [status EXCEPT ![Leaf(j)] = "FAILED"]
      /\ Then(t, <<CallCallbacks(j, callbacks[Leaf(j)])>>) \/ Then(t, <<>>)
      /\ UNCHANGED <<callbacks, notified, monitor, cancelling>>
  BY <1>2 DEF JobThrows, SetStatus
<1>4. "FAILED" \in Status \ {"READY", "RUNNING"} /\ "running" \in {"load", "running"}
  BY DEF Status
<1> QED
  BY <1>1, <1>2, <1>3, <1>4, LeafTurns

(* A leaf whose job returns SUCCEEDED, inside the monitor that it gives     *)
(* back only after the return properties are set.                           *)
LEMMA JobReturnsTurns ==
  ASSUME Typed, NEW t \in Threads, JobReturns(t)
  PROVE  Turn(t)
<1>1. PICK h : Shows(t, h, "running") /\ \E j \in Jobs : On(t) = Leaf(j) /\ On(t)[2] = j /\ h.on = Leaf(j)
  BY LeafFrame DEF JobReturns
<1>2. PICK j \in Jobs : On(t) = Leaf(j) /\ On(t)[2] = j /\ h.on = Leaf(j)
  BY <1>1
<1> DEFINE f == Generated(j)
           o == Leaf(j)
<1>3. /\ status' = [status EXCEPT ![o] = "SUCCEEDED"] /\ Then(t, <<f>>)
      /\ monitor' = [monitor EXCEPT ![o] = t]
      /\ UNCHANGED <<callbacks, notified, cancelling>>
  BY <1>2 DEF JobReturns, SetStatus
<1>4. /\ o \in Objects /\ o[1] = "leaf" /\ o[2] = j /\ Rank(o) < Top
      /\ Rank(o) \in Nat /\ Top \in Nat /\ Level(h) = Rank(o)
  BY <1>1, <1>2, Names, RankFacts DEF Shows, Level
<1>5. /\ f \in AnyFrames /\ f.op = "generated" /\ Level(f) = Top /\ f = Frame("generated", o, 0)
      /\ <<f>> \in Seq(AnyFrames) /\ DOMAIN <<f>> = {1} /\ <<f>>[1] = f
  <2>1. f \in AnyFrames /\ f.op = "generated" /\ Level(f) = Top /\ f = Frame("generated", o, 0)
    BY AnyFramesMade, LevelFacts DEF Generated, Frame
  <2> QED
    BY <2>1, FewFrames
<1> HIDE DEF f, o
<1>6. Turns(t, t, <<f>>)
  <2>1. \A i \in DOMAIN <<f>> : Level(h) <= Level(<<f>>[i]) /\ <<f>>[i].op # "release"
    BY <1>4, <1>5
  <2> QED
    BY <1>1, <1>3, <1>5, <2>1, OwnTurn
<1>7. /\ status \in [Objects -> Status] /\ monitor \in [Objects -> Threads \cup {NoThread, Web}]
      /\ FieldsTyped /\ "SUCCEEDED" \in Status
  BY DEF Typed, FieldsTyped, Status
<1>8. Runs(t, <<f>>)
  <2>0. /\ \A x \in Objects : x # o => status'[x] = status[x] /\ callbacks'[x] = callbacks[x]
        /\ status'[o] = "SUCCEEDED"
    BY <1>3, <1>4, <1>7
  <2>1. o[1] = "leaf" =>
          \/ status'[o] \notin {"READY", "RUNNING"}
          \/ status'[o] = "RUNNING" /\ \E i \in DOMAIN <<f>> : LeafAt(<<f>>[i], o[2])
          \/ status'[o] = "RUNNING" /\ status[o] = "RUNNING" /\ "running" \notin {"load", "running"}
    BY <2>0
  <2>2. h.on = o
    BY <1>2 DEF o
  <2> QED
    BY <1>1, <1>4, <2>0, <2>1, <2>2, RunsOne
<1>9. Enters(t, t, <<f>>)
  <2> SUFFICES ASSUME NEW x \in Objects, NEW u \in Threads, monitor'[x] = u, u # NoThread
               PROVE  \/ monitor[x] = u /\ (u = t => ~GivenUp(t, x))
                      \/ u = t /\ TakenOver(t, <<f>>, x)
    BY DEF Enters
  <2>1. ~GivenUp(t, x)
    BY <1>1 DEF GivenUp, Shows, Release, Frame
  <2>2. CASE x # o
    BY <1>3, <1>7, <2>1, <2>2
  <2>3. CASE x = o
    <3>1. u = t
      BY <1>3, <1>4, <1>7, <2>3
    <3>2. TakenOver(t, <<f>>, o)
      BY <1>5 DEF TakenOver
    <3> QED
      BY <2>3, <3>1, <3>2
  <2> QED
    BY <2>2, <2>3
<1>10. FieldsTyped'
  BY <1>3, <1>4, <1>7, FieldsKept
<1>11. Cancels(t, t, <<f>>)
  BY <1>1, CancelsNone
<1> QED
  BY <1>3, <1>6, <1>8, <1>9, <1>10, <1>11 DEF Turn

(* The return properties are set and the monitor is given back.             *)
LEMMA SetReturnPropsTurns ==
  ASSUME Typed, NEW t \in Threads, SetReturnProps(t)
  PROVE  Turn(t)
<1>1. PICK h : Shows(t, h, "generated") /\ \E j \in Jobs : On(t) = Leaf(j) /\ On(t)[2] = j /\ h.on = Leaf(j)
  BY LeafFrame DEF SetReturnProps
<1>2. PICK j \in Jobs : On(t) = Leaf(j) /\ On(t)[2] = j /\ h.on = Leaf(j)
  BY <1>1
<1> DEFINE f == CallCallbacks(j, callbacks[Leaf(j)])
           o == Leaf(j)
<1>3. /\ Then(t, <<f>>) \/ Then(t, <<>>)
      /\ monitor' = [monitor EXCEPT ![o] = NoThread]
      /\ UNCHANGED <<status, callbacks, notified, cancelling>>
  BY <1>2 DEF SetReturnProps
<1>4. PICK fs \in Seq(AnyFrames) : Then(t, fs) /\ fs \in {<<>>, <<f>>}
  BY <1>3, LeafTells, FewFrames
<1>5. Level(h) = Top /\ Top \in Nat /\ o \in Objects
  BY <1>1, RankFacts, Names DEF Shows, Level
<1>6. Turns(t, t, fs)
  <2>1. \A i \in DOMAIN fs : Level(h) <= Level(fs[i]) /\ fs[i].op # "release"
    BY <1>4, <1>5, LeafTells, FewFrames
  <2> QED
    BY <1>1, <1>4, <2>1, OwnTurn
<1>7. monitor \in [Objects -> Threads \cup {NoThread, Web}] /\ FieldsTyped /\ "READY" \in Status
  BY DEF Typed, FieldsTyped, Status
<1>8. Enters(t, t, fs)
  <2> SUFFICES ASSUME NEW x \in Objects, NEW u \in Threads, monitor'[x] = u, u # NoThread
               PROVE  monitor[x] = u /\ ~GivenUp(t, x)
    BY DEF Enters
  <2>1. x # o /\ monitor[x] = u
    BY <1>3, <1>7
  <2> QED
    BY <1>1, <1>2, <2>1 DEF GivenUp, Shows, Release, Frame
<1>9. Runs(t, fs) /\ Cancels(t, t, fs)
  BY <1>1, <1>3, RunsNone, CancelsNone
<1>10. FieldsTyped'
  <2> HIDE DEF o
  <2> QED
    BY <1>3, <1>5, <1>7, FieldsKept
<1> QED
  BY <1>3, <1>6, <1>8, <1>9, <1>10 DEF Turn

(* A thread of its own tells the callbacks of a leaf.                       *)
LEMMA StartCallbackThreadTurns ==
  ASSUME Typed, NEW t \in Threads, StartCallbackThread(t)
  PROVE  Turn(t)
<1>1. PICK h : Shows(t, h, "callCallbacks") /\ \E j \in Jobs : On(t) = Leaf(j) /\ On(t)[2] = j /\ h.on = Leaf(j)
  BY LeafFrame DEF StartCallbackThread
<1>2. PICK j \in Jobs : On(t) = Leaf(j) /\ On(t)[2] = j
  BY <1>1
<1> DEFINE fs == CompletedAll(Arg(t), status[Leaf(j)])
<1>3. /\ ThenStart(t, <<>>, CallbackThread(j), fs)
      /\ UNCHANGED <<status, callbacks, notified, monitor, cancelling>>
  BY <1>2 DEF StartCallbackThread
<1>4. Arg(t) \in Seq(Callbacks) /\ status[Leaf(j)] \in Status
  BY <1>1, AnyFrameFacts, Names DEF Shows, Typed, FieldsTyped
<1>5. fs \in Seq(AnyFrames) /\ \A i \in DOMAIN fs : fs[i].op # "release"
  BY <1>4, TellsAll
<1>6. CallbackThread(j) \in Threads /\ CallbackThread(j) # Canceller /\ stack \in [Threads -> Seq(AnyFrames)]
  BY DEF Threads, CallbackThread, Canceller, Typed
<1> HIDE DEF fs
<1>7. Turns(t, CallbackThread(j), fs)
  BY <1>1, <1>3, <1>5, <1>6, StartTurn
<1>8. Runs(t, fs) /\ Cancels(t, CallbackThread(j), fs)
  BY <1>1, <1>3, RunsNone, CancelsNone
<1> QED
  BY <1>1, <1>3, <1>7, <1>8, PlainTurn

(* The executor is told.                                                    *)
LEMMA RootCompletedTurns ==
  ASSUME Typed, NEW t \in Threads, RootCompleted(t)
  PROVE  Turn(t)
<1>1. PICK h : Shows(t, h, "completed")
  BY FirstFrame DEF RootCompleted
<1> QED
  BY <1>1, PopTurn DEF RootCompleted

(* A composed flow that could not save does not go on.                      *)
LEMMA DependeeSaveFailsTurns ==
  ASSUME Typed, NEW t \in Threads, DependeeSaveFails(t)
  PROVE  Turn(t)
<1>1. PICK h : Shows(t, h, "completed")
  BY FirstFrame DEF DependeeSaveFails
<1> QED
  BY <1>1, PopTurn DEF DependeeSaveFails

(* A group that is told by a dependee, inside its monitor.                  *)
LEMMA GroupCompletedTurns ==
  ASSUME Typed, NEW t \in Threads, GroupCompleted(t)
  PROVE  Turn(t)
<1>1. PICK h : Shows(t, h, "completed")
  BY FirstFrame DEF GroupCompleted
<1>2. On(t) \in GroupCallbacks /\ h.on = On(t)
  BY <1>1, AnyFrameFacts, CalledFacts DEF Shows, GroupCompleted
<1>3. PICK c \in GroupCallbacks, j \in Dependents : On(t) = c /\ c[2] = j /\ CallLevel(c) = Rank(Group(j))
  BY <1>2, CalledFacts
<1> DEFINE o == Group(j)
           f == Verdict(c, callbacks[o])
<1>4. /\ status' = status \/ \E s \in {"FAILED", "SUCCEEDED"} : status' = [status EXCEPT ![o] = s]
      /\ Then(t, <<f>>) /\ UNCHANGED <<callbacks, notified, monitor, cancelling>>
  BY <1>3 DEF GroupCompleted, UpdateState, SetStatus
<1>5. /\ o \in Objects /\ o[1] = "group" /\ Rank(o) < Rank(Leaf(j)) /\ Rank(o) \in Nat /\ Rank(Leaf(j)) \in Nat
  BY Names, RankFacts DEF Dependents
<1>6. /\ f \in AnyFrames /\ f.op = "verdict" /\ Level(f) = Rank(Leaf(j))
      /\ <<f>> \in Seq(AnyFrames) /\ DOMAIN <<f>> = {1} /\ <<f>>[1] = f
  <2>1. callbacks[o] \in Seq(Callbacks) /\ callbacks[o] \in Seq(CalledBy(Group(c[2])))
    BY <1>3, <1>5 DEF Typed, FieldsTyped
  <2>2. f \in AnyFrames /\ f.op = "verdict" /\ Level(f) = Rank(Leaf(j))
    BY <1>3, <2>1, AnyFramesMade, LevelFacts DEF Verdict, Frame
  <2> QED
    BY <2>2, FewFrames
<1>7. Level(h) = Rank(o)
  BY <1>1, <1>3 DEF Shows, Level
<1>8. status \in [Objects -> Status] /\ FieldsTyped /\ {"FAILED", "SUCCEEDED"} \subseteq Status
  BY DEF Typed, FieldsTyped, Status
<1> HIDE DEF f, o
<1>9. Turns(t, t, <<f>>)
  <2>1. \A i \in DOMAIN <<f>> : Level(h) <= Level(<<f>>[i]) /\ <<f>>[i].op # "release"
    BY <1>5, <1>6, <1>7
  <2> QED
    BY <1>1, <1>4, <1>6, <2>1, OwnTurn
<1>10. Runs(t, <<f>>)
  <2>1. \A x \in Objects : x # o => status'[x] = status[x] /\ callbacks'[x] = callbacks[x]
    BY <1>4, <1>5, <1>8
  <2>2. o[1] = "leaf" =>
          \/ status'[o] \notin {"READY", "RUNNING"}
          \/ status'[o] = "RUNNING" /\ \E i \in DOMAIN <<f>> : LeafAt(<<f>>[i], o[2])
          \/ status'[o] = "RUNNING" /\ status[o] = "RUNNING" /\ "completed" \notin {"load", "running"}
    BY <1>5
  <2>3. "completed" \in {"load", "running"} => h.on = o
    OBVIOUS
  <2> QED
    BY <1>1, <1>5, <2>1, <2>2, <2>3, RunsOne, ZenonT(60)
<1>11. FieldsTyped'
  BY <1>4, <1>5, <1>8, FieldsKept
<1>12. Enters(t, t, <<f>>) /\ Cancels(t, t, <<f>>)
  BY <1>1, <1>4, EntersNone, CancelsNone
<1> QED
  BY <1>4, <1>9, <1>10, <1>11, <1>12 DEF Turn

(* A list of callbacks is told by the thread itself.                        *)
LEMMA TellingTurns ==
  ASSUME Typed, NEW t \in Threads, NEW h, NEW op, Shows(t, h, op),
         NEW o \in Objects, NEW list \in Seq(Callbacks), list \in Seq(CalledBy(o)), NEW s \in Status,
         Then(t, CompletedAll(list, s)),
         \A c \in CalledBy(o) : Level(h) <= CallLevel(c)
  PROVE  Turns(t, t, CompletedAll(list, s))
<1>1. \A i \in DOMAIN list : list[i] \in CalledBy(o)
  OBVIOUS
<1>2. CompletedAll(list, s) \in Seq(AnyFrames) /\ DOMAIN CompletedAll(list, s) = DOMAIN list
      /\ \A i \in DOMAIN list : Level(CompletedAll(list, s)[i]) = CallLevel(list[i])
                                /\ CompletedAll(list, s)[i].op = "completed"
  BY TellsAll
<1>3. \A i \in DOMAIN CompletedAll(list, s) :
         Level(h) <= Level(CompletedAll(list, s)[i]) /\ CompletedAll(list, s)[i].op # "release"
  BY <1>1, <1>2
<1> QED
  BY <1>2, <1>3, OwnTurn

(* A group that has ended tells its callbacks.                              *)
LEMMA GroupVerdictTurns ==
  ASSUME Typed, NEW t \in Threads, GroupVerdict(t)
  PROVE  Turn(t)
<1>1. PICK h : Shows(t, h, "verdict")
  BY FirstFrame DEF GroupVerdict
<1>2. h.on \in GroupCallbacks /\ h.on = On(t) /\ h.arg = Arg(t)
  BY <1>1, AnyFrameFacts DEF Shows
<1>3. PICK c \in GroupCallbacks, j \in Dependents : On(t) = c /\ c[2] = j
  BY <1>2, CalledFacts
<1>4. Group(j) \in Objects /\ Arg(t) \in Seq(Callbacks) /\ Arg(t) \in Seq(CalledBy(Group(j)))
  BY <1>1, <1>3, AnyFrameFacts, Names DEF Shows, Dependents
<1> DEFINE final == status[Group(j)] \in {"SUCCEEDED", "FAILED"} /\ ~notified[j][c[3]]
<1>5. /\ notified' = [notified EXCEPT ![j][c[3]] = @ \/ final]
      /\ \/ Then(t, CompletedAll(Arg(t), status[Group(j)]))
         \/ Then(t, <<>>)
      /\ UNCHANGED <<status, callbacks, monitor, cancelling>>
  BY <1>3 DEF GroupVerdict
<1>6. FieldsTyped /\ status \in [Objects -> Status]
  BY DEF Typed, FieldsTyped
<1>7. FieldsTyped'
  <2>1. notified[j] \in Seq(BOOLEAN) /\ notified \in [Dependents -> Seq(BOOLEAN)]
    BY <1>6 DEF FieldsTyped
  <2>2. [notified[j] EXCEPT ![c[3]] = notified[j][c[3]] \/ final] \in Seq(BOOLEAN)
    <3>1. DOMAIN notified[j] = 1 .. Len(notified[j]) /\ Len(notified[j]) \in Nat
      BY <2>1
    <3>2. notified[j] \in [1 .. Len(notified[j]) -> BOOLEAN]
      BY <2>1
    <3> DEFINE b == notified[j][c[3]] \/ final
    <3>3. b \in BOOLEAN
      OBVIOUS
    <3> HIDE DEF b
    <3>4. [notified[j] EXCEPT ![c[3]] = b] \in [1 .. Len(notified[j]) -> BOOLEAN]
      BY <3>2, <3>3
    <3>5. \A S : \A n \in Nat : \A q \in [1 .. n -> S] : q \in Seq(S)
      OBVIOUS
    <3>6. [notified[j] EXCEPT ![c[3]] = b] \in Seq(BOOLEAN)
      BY <3>1, <3>4, <3>5
    <3> QED
      BY <3>6 DEF b
  <2>3. notified' = [notified EXCEPT ![j] = [notified[j] EXCEPT ![c[3]] = notified[j][c[3]] \/ final]]
    BY <1>5
  <2> HIDE DEF final
  <2>4. notified' \in [Dependents -> Seq(BOOLEAN)]
    BY <2>1, <2>2, <2>3
  <2> QED
    BY <1>5, <1>6, <2>4 DEF FieldsTyped, CalledBy, GroupCallbacks
<1>8. PICK fs : Turns(t, t, fs)
  <2>1. CASE Then(t, CompletedAll(Arg(t), status[Group(j)]))
    <3>1. Level(h) = Rank(Leaf(j)) /\ Rank(Leaf(j)) \in Nat
      BY <1>1, <1>2, <1>3, RankFacts, Names DEF Shows, Level, Dependents
    <3>2. \A d \in CalledBy(Group(j)) : Level(h) <= CallLevel(d)
      BY <3>1, CalledFacts
    <3>3. status[Group(j)] \in Status
      BY <1>4, <1>6
    <3> QED
      BY <1>1, <1>4, <2>1, <3>2, <3>3, TellingTurns
  <2>2. CASE Then(t, <<>>)
    BY <1>1, <2>2, OwnTurn, FewFrames
  <2> QED
    BY <1>5, <2>1, <2>2
<1>9. Runs(t, fs) /\ Cancels(t, t, fs)
  BY <1>1, <1>5, RunsNone, CancelsNone
<1>10. Enters(t, t, fs)
  BY <1>1, <1>5, EntersNone
<1> QED
  BY <1>5, <1>7, <1>8, <1>9, <1>10 DEF Turn

(* A composed flow whose dependees SUCCEEDED calls its depender.            *)
LEMMA DependeeSucceededTurns ==
  ASSUME Typed, NEW t \in Threads, DependeeSucceeded(t)
  PROVE  Turn(t)
<1>1. PICK h : Shows(t, h, "completed")
  BY FirstFrame DEF DependeeSucceeded
<1>2. h.on \in Callbacks /\ h.on = On(t) /\ On(t)[1] = "dependeeCallback"
  BY <1>1, AnyFrameFacts DEF Shows, DependeeSucceeded
<1>3. PICK j \in Dependents : On(t)[2] = j /\ On(t) = DependeeCallback(j)
  BY <1>2, CalledFacts
<1> DEFINE f == Execute(Leaf(j), DependerCallback(j))
<1>4. Then(t, <<f>>) /\ UNCHANGED <<status, callbacks, notified, monitor, cancelling>>
  BY <1>3 DEF DependeeSucceeded
<1>5. Leaf(j) \in Objects /\ Leaf(j)[1] = "leaf" /\ DependerCallback(j) \in CalledBy(Leaf(j)) /\ Rank(Leaf(j)) \in Nat
  BY Names, CalledFacts, RankFacts DEF Dependents
<1>6. f \in AnyFrames /\ f.op = "execute" /\ Level(f) = Rank(Leaf(j))
      /\ <<f>> \in Seq(AnyFrames) /\ DOMAIN <<f>> = {1} /\ <<f>>[1] = f
  <2>1. f \in AnyFrames /\ f.op = "execute" /\ Level(f) = Rank(Leaf(j))
    BY <1>5, AnyFramesMade, LevelFacts DEF Execute, Frame
  <2> QED
    BY <2>1, FewFrames
<1>7. Level(h) = Rank(Leaf(j))
  BY <1>1, <1>2, <1>3, CalledFacts DEF Shows, Level
<1> HIDE DEF f
<1>8. Turns(t, t, <<f>>)
  <2>1. \A i \in DOMAIN <<f>> : Level(h) <= Level(<<f>>[i]) /\ <<f>>[i].op # "release"
    BY <1>5, <1>6, <1>7
  <2> QED
    BY <1>1, <1>4, <1>6, <2>1, OwnTurn
<1>9. Runs(t, <<f>>) /\ Cancels(t, t, <<f>>)
  BY <1>1, <1>4, RunsNone, CancelsNone
<1> QED
  BY <1>1, <1>4, <1>8, <1>9, PlainTurn

(* A composed flow that ends tells its callbacks.                           *)
LEMMA ComposedTurns ==
  ASSUME Typed, NEW t \in Threads, NEW h, Shows(t, h, "completed"), NEW j \in Dependents,
         Level(h) <= Rank(Composed(j)), NEW s \in Status,
         status' = [status EXCEPT ![Composed(j)] = s],
         Then(t, CompletedAll(callbacks[Composed(j)], s)),
         UNCHANGED <<callbacks, notified, monitor, cancelling>>
  PROVE  Turn(t)
<1> DEFINE o == Composed(j)
           fs == CompletedAll(callbacks[o], s)
<1>1. o \in Objects /\ o[1] = "composed" /\ Rank(o) \in Nat
  BY Names, RankFacts DEF Dependents
<1>2. FieldsTyped /\ status \in [Objects -> Status] /\ callbacks[o] \in Seq(Callbacks) /\ callbacks[o] \in Seq(CalledBy(o))
  BY <1>1 DEF Typed, FieldsTyped
<1>3. status' = [status EXCEPT ![o] = s] /\ Then(t, fs) /\ Level(h) <= Rank(o)
  OBVIOUS
<1>4. Level(h) \in Nat
  BY LevelFacts DEF Shows
<1> HIDE DEF o
<1>5. Turns(t, t, fs)
  <2>1. \A c \in CalledBy(o) : Level(h) <= CallLevel(c)
    BY <1>1, <1>3, <1>4, CalledFacts
  <2> QED
    BY <1>1, <1>2, <1>3, <2>1, TellingTurns
<1>6. PICK g : g = fs
  OBVIOUS
<1>7. Runs(t, g)
  <2>1. \A x \in Objects : x # o => status'[x] = status[x] /\ callbacks'[x] = callbacks[x]
    BY <1>2, <1>3
  <2>2. \A k \in Jobs : Leaf(k) \in Objects /\ Leaf(k) # o
    BY <1>1, Names
  <2>3. \A k \in Jobs : ~LeafAt(stack[t][1], k)
    BY DEF LeafAt, Shows
  <2> QED
    BY <2>1, <2>2, <2>3 DEF Runs
<1>8. FieldsTyped'
  BY <1>1, <1>2, <1>3, FieldsKept
<1>9. Enters(t, t, g) /\ Cancels(t, t, g)
  BY EntersNone, CancelsNone
<1>10. Turns(t, t, g)
  BY <1>5, <1>6
<1> QED
  BY <1>7, <1>8, <1>9, <1>10 DEF Turn

(* A composed flow whose dependees FAILED has ended and tells so.           *)
LEMMA DependeeFailedTurns ==
  ASSUME Typed, NEW t \in Threads, DependeeFailed(t)
  PROVE  Turn(t)
<1>1. PICK h : Shows(t, h, "completed")
  BY FirstFrame DEF DependeeFailed
<1>2. h.on \in Callbacks /\ h.on = On(t) /\ On(t)[1] = "dependeeCallback"
  BY <1>1, AnyFrameFacts DEF Shows, DependeeFailed
<1>3. PICK j \in Dependents : On(t)[2] = j /\ On(t) = DependeeCallback(j)
  BY <1>2, CalledFacts
<1>4. /\ status' = [status EXCEPT ![Composed(j)] = "FAILED"]
      /\ Then(t, CompletedAll(callbacks[Composed(j)], "FAILED"))
      /\ UNCHANGED <<callbacks, notified, monitor, cancelling>>
  BY <1>3 DEF DependeeFailed, SetStatus
<1>5. Level(h) <= Rank(Composed(j)) /\ "FAILED" \in Status
  <2>1. Level(h) = Rank(Leaf(j)) /\ Leaf(j) \in Objects /\ Composed(j) \in Objects
    BY <1>1, <1>2, <1>3, CalledFacts, Names DEF Shows, Level, Dependents
  <2> QED
    BY <2>1, RankFacts DEF Status
<1> QED
  BY <1>1, <1>4, <1>5, ComposedTurns

(* A composed flow whose depender has ended ends as well.                   *)
LEMMA DependerCompletedTurns ==
  ASSUME Typed, NEW t \in Threads, DependerCompleted(t)
  PROVE  Turn(t)
<1>1. PICK h : Shows(t, h, "completed")
  BY FirstFrame DEF DependerCompleted
<1>2. h.on \in Callbacks /\ h.on = On(t) /\ On(t)[1] = "dependerCallback" /\ Arg(t) \in Status
  BY <1>1, AnyFrameFacts DEF Shows, DependerCompleted
<1>3. PICK j \in Dependents : On(t)[2] = j /\ On(t) = DependerCallback(j)
  BY <1>2, CalledFacts
<1>4. /\ status' = [status EXCEPT ![Composed(j)] = Arg(t)]
      /\ Then(t, CompletedAll(callbacks[Composed(j)], Arg(t)))
      /\ UNCHANGED <<callbacks, notified, monitor, cancelling>>
  BY <1>3 DEF DependerCompleted, SetStatus
<1>5. Level(h) <= Rank(Composed(j))
  <2>1. Level(h) = Rank(Composed(j)) /\ Composed(j) \in Objects
    BY <1>1, <1>2, <1>3, CalledFacts, Names DEF Shows, Level, Dependents
  <2> QED
    BY <2>1, RankFacts
<1>6. PICK s \in Status : Arg(t) = s
  BY <1>2
<1> QED
  BY <1>1, <1>4, <1>5, <1>6, ComposedTurns

(* A flow that is cancelled cancels what it is made of.                     *)
LEMMA CancelChildrenTurns ==
  ASSUME Typed, NEW t \in Threads, CancelChildren(t)
  PROVE  Turn(t)
<1>1. PICK h : Shows(t, h, "cancel")
  BY FirstFrame DEF CancelChildren
<1>2. PICK o \in Objects : o = On(t)
  BY <1>1, AnyFrameFacts DEF Shows
<1>3. PICK j \in Dependents : o[2] = j /\ (o[1] = "composed" \/ o[1] = "group")
  BY <1>2, ObjectFacts DEF CancelChildren
<1> DEFINE F == [i \in DOMAIN Dependees[j] |-> Cancel(FlowOf(Dependees[j][i]))]
           G == <<Cancel(Leaf(j)), Cancel(Group(j))>>
           IsCancel(f) == f \in AnyFrames /\ f.op = "cancel" /\ Level(f) = 0
<1>4. Then(t, F) \/ Then(t, G)
  BY <1>2, <1>3 DEF CancelChildren
<1>5. UNCHANGED <<status, callbacks, notified, monitor, cancelling>>
  BY DEF CancelChildren
<1>6. \A x \in Objects : IsCancel(Cancel(x))
  BY AnyFramesMade, LevelFacts DEF Cancel, Frame
<1>7. F \in Seq(AnyFrames) /\ \A i \in DOMAIN F : IsCancel(F[i])
  <2>1. Dependees[j] \in Seq(Jobs) /\ Len(Dependees[j]) \in Nat /\ DOMAIN Dependees[j] = 1 .. Len(Dependees[j])
    BY FlowConstants DEF Dependents
  <2>2. \A i \in DOMAIN Dependees[j] : Dependees[j][i] \in Jobs
    BY <2>1
  <2>3. \A i \in DOMAIN Dependees[j] : FlowOf(Dependees[j][i]) \in Objects
    BY <2>2, Names
  <2>4. \A i \in DOMAIN Dependees[j] : IsCancel(Cancel(FlowOf(Dependees[j][i])))
    BY <1>6, <2>3
  <2> QED
    BY <2>1, <2>4
<1>8. G \in Seq(AnyFrames) /\ \A i \in DOMAIN G : IsCancel(G[i])
  <2>1. IsCancel(Cancel(Leaf(j))) /\ IsCancel(Cancel(Group(j)))
    BY <1>6, Names DEF Dependents
  <2>2. Cancel(Leaf(j)) \in AnyFrames /\ Cancel(Group(j)) \in AnyFrames
    BY <2>1
  <2> QED
    BY <2>1, <2>2, FewFrames
<1>9. PICK fs \in Seq(AnyFrames) : Then(t, fs) /\ \A i \in DOMAIN fs : IsCancel(fs[i])
  <2> HIDE DEF F, G, IsCancel
  <2> QED
    BY <1>4, <1>7, <1>8
<1>10. Level(h) = 0
  BY <1>1 DEF Shows, Level
<1>11. Turns(t, t, fs)
  <2>1. \A i \in DOMAIN fs : Level(h) <= Level(fs[i]) /\ fs[i].op # "release"
    BY <1>9, <1>10
  <2> QED
    BY <1>1, <1>9, <2>1, OwnTurn
<1>12. Cancels(t, t, fs)
  BY <1>9 DEF Cancels
<1>13. Runs(t, fs)
  BY <1>1, <1>5, RunsNone
<1> QED
  BY <1>1, <1>5, <1>11, <1>12, <1>13, PlainTurn

(* A leaf that has ended is not cancelled any more.                         *)
LEMMA CancelFinishedLeafTurns ==
  ASSUME Typed, NEW t \in Threads, CancelFinishedLeaf(t)
  PROVE  Turn(t)
<1>1. PICK h : Shows(t, h, "cancel")
  BY FirstFrame DEF CancelFinishedLeaf
<1> QED
  BY <1>1, PopTurn DEF CancelFinishedLeaf

(* A leaf that is cancelled: the thread goes on with telling those that     *)
(* wait for it, if there are any.                                           *)
LEMMA CancelLeafTurns ==
  ASSUME Typed, NEW t \in Threads, CancelLeaf(t)
  PROVE  Turn(t)
<1>1. PICK h : Shows(t, h, "cancel")
  BY FirstFrame DEF CancelLeaf
<1>2. PICK o \in Objects : o = On(t)
  BY <1>1, AnyFrameFacts DEF Shows
<1>3. PICK j \in Jobs : o = Leaf(j) /\ o[1] = "leaf" /\ o[2] = j
  BY <1>2, ObjectFacts DEF CancelLeaf
<1>4. /\ status[o] \in {"READY", "RUNNING"} /\ status' = [status EXCEPT ![o] = "FAILED"]
      /\ callbacks' = [callbacks EXCEPT ![o] = <<>>]
      /\ Then(t, CompletedAll(callbacks[o], "FAILED"))
      /\ UNCHANGED <<notified, monitor, cancelling>>
  BY <1>2 DEF CancelLeaf, SetStatus
<1> DEFINE fs == CompletedAll(callbacks[o], "FAILED")
<1>5. /\ FieldsTyped /\ status \in [Objects -> Status] /\ callbacks \in [Objects -> Seq(Callbacks)]
      /\ callbacks[o] \in Seq(Callbacks) /\ callbacks[o] \in Seq(CalledBy(o)) /\ "FAILED" \in Status
  BY DEF Typed, FieldsTyped, Status
<1>6. Turns(t, t, fs)
  <2>1. Level(h) = 0
    BY <1>1 DEF Shows, Level
  <2>2. \A c \in CalledBy(o) : Level(h) <= CallLevel(c)
    <3>1. \A c \in CalledBy(o) : CallLevel(c) \in Nat
      BY CalledFacts
    <3> QED
      BY <2>1, <3>1
  <2> QED
    BY <1>1, <1>4, <1>5, <2>2, TellingTurns
<1>7. Cancels(t, t, fs)
  <2>1. CASE callbacks[o] = <<>>
    <3>1. DOMAIN fs = {}
      BY <2>1 DEF CompletedAll
    <3> QED
      BY <3>1 DEF Cancels
  <2>2. CASE callbacks[o] # <<>>
    BY <1>3, <1>4, <2>2 DEF Cancels
  <2> QED
    BY <2>1, <2>2
<1> HIDE DEF fs
<1>8. Runs(t, fs)
  <2>1. /\ \A x \in Objects : x # o => status'[x] = status[x] /\ callbacks'[x] = callbacks[x]
        /\ status'[o] = "FAILED"
    BY <1>4, <1>5
  <2>2. o[1] = "leaf" =>
          \/ status'[o] \notin {"READY", "RUNNING"}
          \/ status'[o] = "RUNNING" /\ \E i \in DOMAIN fs : LeafAt(fs[i], o[2])
          \/ status'[o] = "RUNNING" /\ status[o] = "RUNNING" /\ "cancel" \notin {"load", "running"}
    BY <2>1
  <2> QED
    BY <1>1, <2>1, <2>2, RunsOne
<1>9. FieldsTyped'
  BY <1>4, <1>5, FieldsKept
<1>10. Enters(t, t, fs)
  BY <1>1, <1>4, EntersNone
<1> QED
  BY <1>4, <1>6, <1>7, <1>8, <1>9, <1>10 DEF Turn

(* Every step of a thread is such a turn.                                   *)
LEMMA MoveTurns ==
  ASSUME Typed, NEW t \in Threads, Move(t)
  PROVE  Turn(t)
BY ExecuteReadyTurns, ExecuteRunningTurns, ExecuteFinishedTurns, ExecuteIgnoredTurns,
   LeaveMonitorTurns, NextChildTurns, LoadJobTurns, JobMissingTurns, JobThrowsTurns, JobReturnsTurns,
   SetReturnPropsTurns, StartCallbackThreadTurns, RootCompletedTurns, GroupCompletedTurns,
   GroupVerdictTurns, DependeeSucceededTurns, DependeeSaveFailsTurns, DependeeFailedTurns,
   DependerCompletedTurns, CancelChildrenTurns, CancelFinishedLeafTurns, CancelLeafTurns
   DEF Move, Step

-----------------------------------------------------------------------------
(* A thread that had no frame gets one.                                     *)
LEMMA Begins ==
  ASSUME MonitorInv, NEW u \in Threads, NEW f \in AnyFrames, f.op # "release", stack[u] = <<>>,
         stack' = [stack EXCEPT ![u] = <<f>>], UNCHANGED <<status, callbacks, notified, monitor>>,
         cancelling' \/ (~cancelling /\ u # Canceller)
  PROVE  MonitorInv'
<1>1. stack \in [Threads -> Seq(AnyFrames)] /\ FieldsTyped /\ (cancelling \/ stack[Canceller] = <<>>)
      /\ Canceller \in Threads
  BY DEF MonitorInv, Typed, Threads
<1>2. <<f>> \in Seq(AnyFrames) /\ DOMAIN <<f>> = {1} /\ <<f>>[1] = f
  BY FewFrames
<1>3. /\ stack' \in [Threads -> Seq(AnyFrames)] /\ stack'[u] = <<f>>
      /\ \A w \in Threads : w # u => stack'[w] = stack[w]
  BY <1>1, <1>2
<1>4. Typed'
  <2>1. FieldsTyped'
    BY <1>1 DEF FieldsTyped, CalledBy, GroupCallbacks
  <2> QED
    BY <1>1, <1>3, <2>1 DEF Typed
<1>5. StackOrdered'
  <2> SUFFICES ASSUME NEW w \in Threads, NEW i \in DOMAIN stack'[w], NEW m \in DOMAIN stack'[w],
                      i < m, stack'[w][m].op = "release"
               PROVE  Rank(stack'[w][m].on) < Level(stack'[w][i])
    BY DEF StackOrdered, Rank, Level, CallLevel, Height, Top, Group, Leaf, Composed
  <2>1. w # u
    BY <1>2, <1>3
  <2> QED
    BY <1>3, <2>1 DEF MonitorInv, StackOrdered
<1>6. HoldersGiveBack'
  <2> SUFFICES ASSUME NEW o \in Objects, NEW w \in Threads, monitor[o] = w, w # NoThread
               PROVE  \/ \E m \in DOMAIN stack'[w] : stack'[w][m] = Release(o)
                      \/ stack'[w] # <<>> /\ stack'[w][1] = Frame("generated", o, 0)
    BY DEF HoldersGiveBack, GivesBack, Release, Frame
  <2>1. GivesBack(w, o)
    BY DEF MonitorInv, HoldersGiveBack
  <2>2. w # u
    BY <2>1 DEF GivesBack
  <2> QED
    BY <1>3, <2>1, <2>2 DEF GivesBack
<1> QED
  BY <1>4, <1>5, <1>6 DEF MonitorInv

(* The web thread enters monitors and leaves them, and leaves the frames of *)
(* the others alone.                                                        *)
LEMMA WebTurns ==
  ASSUME MonitorInv, UNCHANGED <<stack, cancelling>>, FieldsTyped',
         \A o \in Objects : \A u \in Threads : monitor'[o] = u /\ u # NoThread => monitor[o] = u
  PROVE  MonitorInv'
<1>1. Typed'
  BY DEF MonitorInv, Typed
<1>2. StackOrdered'
  BY DEF MonitorInv, StackOrdered, Rank, Level, CallLevel, Height, Top, Group, Leaf, Composed
<1>3. HoldersGiveBack'
  <2> SUFFICES ASSUME NEW o \in Objects, NEW u \in Threads, monitor'[o] = u, u # NoThread
               PROVE  GivesBack(u, o)'
    BY DEF HoldersGiveBack
  <2>1. GivesBack(u, o)
    BY DEF MonitorInv, HoldersGiveBack
  <2> QED
    BY <2>1 DEF GivesBack, Release, Frame
<1> QED
  BY <1>1, <1>2, <1>3 DEF MonitorInv

(* What the reset of an object leaves in its fields.                        *)
LEMMA FieldsReset ==
  ASSUME FieldsTyped, NEW o, NEW s \in Status,
         status' = status \/ status' = [status EXCEPT ![o] = s],
         callbacks' = callbacks \/ callbacks' = [callbacks EXCEPT ![o] = <<>>],
         notified' = notified \/ notified' = [notified EXCEPT ![o[2]] = Append(@, FALSE)],
         monitor' = monitor \/ monitor' = [monitor EXCEPT ![o] = Web]
                            \/ monitor' = [monitor EXCEPT ![o] = NoThread]
  PROVE  /\ FieldsTyped'
         /\ \A x \in Objects : \A u \in Threads : monitor'[x] = u /\ u # NoThread => monitor[x] = u
<1>1. /\ status \in [Objects -> Status] /\ callbacks \in [Objects -> Seq(Callbacks)]
      /\ \A x \in Objects : callbacks[x] \in Seq(CalledBy(x))
      /\ notified \in [Dependents -> Seq(BOOLEAN)]
      /\ monitor \in [Objects -> Threads \cup {NoThread, Web}]
  BY DEF FieldsTyped
<1>2. status' \in [Objects -> Status] /\ monitor' \in [Objects -> Threads \cup {NoThread, Web}]
  BY <1>1
<1>3. callbacks' \in [Objects -> Seq(Callbacks)] /\ \A x \in Objects : callbacks'[x] \in Seq(CalledBy(x))
  <2>1. <<>> \in Seq(Callbacks) /\ \A x \in Objects : <<>> \in Seq(CalledBy(x))
    OBVIOUS
  <2>2. callbacks' \in [Objects -> Seq(Callbacks)] /\ \A x \in Objects : callbacks'[x] \in {callbacks[x], <<>>}
    BY <1>1, <2>1
  <2> QED
    BY <1>1, <2>1, <2>2
<1>4. notified' \in [Dependents -> Seq(BOOLEAN)]
  <2>1. \A j \in Dependents : Append(notified[j], FALSE) \in Seq(BOOLEAN)
    <3> TAKE j \in Dependents
    <3>1. notified[j] \in Seq(BOOLEAN) /\ FALSE \in BOOLEAN
      BY <1>1
    <3> QED
      BY <3>1, AppendProperties
  <2>2. CASE o[2] \in Dependents /\ notified' = [notified EXCEPT ![o[2]] = Append(notified[o[2]], FALSE)]
    BY <1>1, <2>1, <2>2
  <2>3. CASE o[2] \notin Dependents \/ notified' = notified
    BY <1>1, <2>3
  <2> QED
    BY <2>2, <2>3
<1>5. \A x \in Objects : \A u \in Threads : monitor'[x] = u /\ u # NoThread => monitor[x] = u
  <2>1. Web \notin Threads
    BY DEF Web, Threads, Main, Canceller, JobThread, CallbackThread
  <2> QED
    BY <1>1, <2>1
<1> QED
  BY <1>2, <1>3, <1>4, <1>5 DEF FieldsTyped, CalledBy, GroupCallbacks

(* The web thread leaves the frames and the monitors of the others in       *)
(* order, and hands a new execution to a main thread that is free.          *)
LEMMA WebStepKeeps ==
  ASSUME MonitorInv, WebStep
  PROVE  MonitorInv'
<1>0. FieldsTyped /\ "READY" \in Status /\ "IGNORED" \in Status
  BY DEF MonitorInv, Typed, Status
<1>1. CASE TraverseFlow \/ ResetFailedFlows \/ ResetMultiple \/ ResetRunning \/ SubmitRefused
  <2>1. UNCHANGED vars
    BY <1>1 DEF TraverseFlow, ResetFailedFlows, ResetMultiple, ResetRunning, SubmitRefused
  <2>2. FieldsTyped'
    BY <1>0, <2>1 DEF vars, FieldsTyped, CalledBy, GroupCallbacks
  <2> QED
    BY <2>1, <2>2, WebTurns DEF vars
<1>2. CASE ResetComposed \/ ResetComposedRest \/ ResetGroup \/ ResetLeaf
  <2>1. UNCHANGED <<stack, cancelling>>
    BY <1>2 DEF ResetComposed, ResetComposedRest, ResetGroup, ResetLeaf
  <2>2. /\ status' = status \/ status' = [status EXCEPT ![Target] = "READY"]
        /\ callbacks' = callbacks \/ callbacks' = [callbacks EXCEPT ![Target] = <<>>]
        /\ notified' = notified \/ notified' = [notified EXCEPT ![Target[2]] = Append(@, FALSE)]
        /\ monitor' = monitor \/ monitor' = [monitor EXCEPT ![Target] = Web]
                              \/ monitor' = [monitor EXCEPT ![Target] = NoThread]
    BY <1>2 DEF ResetComposed, ResetComposedRest, ResetGroup, ResetLeaf, SetStatus
  <2>3. PICK o : o = Target
    OBVIOUS
  <2>4. /\ FieldsTyped'
        /\ \A x \in Objects : \A u \in Threads : monitor'[x] = u /\ u # NoThread => monitor[x] = u
    BY <1>0, <2>2, <2>3, FieldsReset
  <2> QED
    BY <2>1, <2>4, WebTurns
<1>3. CASE IgnoreLeaf
  <2>1. UNCHANGED <<stack, cancelling, callbacks, notified, monitor>>
        /\ (status' = status \/ status' = [status EXCEPT ![Target] = "IGNORED"])
    BY <1>3 DEF IgnoreLeaf, SetStatus
  <2>2. PICK o : o = Target
    OBVIOUS
  <2>3. FieldsTyped'
    BY <1>0, <2>1, <2>2, FieldsReset
  <2> QED
    BY <2>1, <2>3, WebTurns
<1>4. CASE SubmitAccepted
  <2>1. Execute(FlowOf(Root), RootCallback) \in AnyFrames /\ Execute(FlowOf(Root), RootCallback).op = "execute"
    BY FlowConstants, Names, CalledFacts, AnyFramesMade DEF Execute, Frame
  <2>2. Main \in Threads /\ Main # Canceller
    BY DEF Main, Canceller, Threads
  <2>3. cancelling' \/ (~cancelling /\ Main # Canceller)
    BY <1>4, <2>2 DEF SubmitAccepted
  <2> QED
    BY <1>4, <2>1, <2>2, <2>3, Begins DEF SubmitAccepted
<1> QED
  BY <1>1, <1>2, <1>3, <1>4 DEF WebStep

(* A cancellation begins with a frame that holds nothing.                   *)
LEMMA CancelRootBegins ==
  ASSUME MonitorInv, CancelRoot
  PROVE  MonitorInv'
<1>1. Cancel(FlowOf(Root)) \in AnyFrames /\ Cancel(FlowOf(Root)).op = "cancel"
  BY FlowConstants, Names, AnyFramesMade DEF Cancel, Frame
<1>2. Canceller \in Threads /\ stack[Canceller] = <<>>
  BY DEF CancelRoot, MonitorInv, Typed, Threads
<1> QED
  BY <1>1, <1>2, Begins DEF CancelRoot

(* In the first state nothing is held.                                      *)
LEMMA MonitorsBegin == Init => MonitorInv
<1> SUFFICES ASSUME Init PROVE MonitorInv
  OBVIOUS
<1> DEFINE f == Execute(FlowOf(Root), RootCallback)
<1>1. f \in AnyFrames /\ f.op = "execute" /\ <<f>> \in Seq(AnyFrames) /\ DOMAIN <<f>> = {1} /\ <<>> \in Seq(AnyFrames)
  <2>1. f \in AnyFrames /\ f.op = "execute"
    BY FlowConstants, Names, CalledFacts, AnyFramesMade DEF Execute, Frame
  <2> QED
    BY <2>1, FewFrames
<1>2. /\ stack = [t \in Threads |-> IF t = Main THEN <<f>> ELSE <<>>]
      /\ callbacks = [o \in Objects |-> <<>>] /\ monitor = [o \in Objects |-> NoThread]
      /\ notified = [j \in Dependents |-> <<FALSE>>]
  BY DEF Init
<1>3. status \in [Objects -> Status]
  BY DEF Init, InitStatus, Status
<1>4. FieldsTyped
  <2>1. \A b \in BOOLEAN : <<b>> \in Seq(BOOLEAN)
    OBVIOUS
  <2>2. notified \in [Dependents -> Seq(BOOLEAN)]
    BY <1>2, <2>1
  <2>3. <<>> \in Seq(Callbacks) /\ \A o \in Objects : <<>> \in Seq(CalledBy(o))
    OBVIOUS
  <2> QED
    BY <1>2, <1>3, <2>2, <2>3 DEF FieldsTyped
<1> HIDE DEF f
<1>5. stack \in [Threads -> Seq(AnyFrames)] /\ stack[Canceller] = <<>>
  BY <1>1, <1>2 DEF Canceller, Main, Threads
<1>6. StackOrdered
  <2>1. \A t \in Threads : stack[t] = <<f>> \/ stack[t] = <<>>
    BY <1>2
  <2>2. \A t \in Threads : \A i, m \in DOMAIN stack[t] : ~(i < m)
    BY <1>1, <2>1
  <2> QED
    BY <2>2 DEF StackOrdered
<1>7. HoldersGiveBack
  BY <1>2 DEF HoldersGiveBack
<1> QED
  BY <1>4, <1>5, <1>6, <1>7 DEF MonitorInv, Typed

(* The order of the monitors is kept by every step of executions, old ones  *)
(* and new ones, cancellations and requests.                                *)
LEMMA MonitorsAlways == RestartSpec => []MonitorInv
<1>1. RestartInit => MonitorInv
  BY MonitorsBegin DEF RestartInit
<1>2. MonitorInv /\ [RestartNext]_allVars => MonitorInv'
  <2>1. ASSUME MonitorInv, UNCHANGED vars PROVE MonitorInv'
    <3>1. FieldsTyped'
      BY <2>1 DEF vars, MonitorInv, Typed, FieldsTyped, CalledBy, GroupCallbacks
    <3> QED
      BY <2>1, <3>1, WebTurns DEF vars
  <2>2. ASSUME MonitorInv, NEW t \in Threads, Move(t) PROVE MonitorInv'
    <3>1. Turn(t)
      BY <2>2, MoveTurns DEF MonitorInv
    <3> QED
      BY <2>2, <3>1, TurnKeeps
  <2> QED
    BY <2>1, <2>2, CancelRootBegins, WebStepKeeps DEF RestartNext, Request, allVars
<1> QED
  BY <1>1, <1>2, PTL DEF RestartSpec

-----------------------------------------------------------------------------
(* A set of numbers has a smallest one.                                     *)
LEMMA SmallestNumber ==
  ASSUME NEW B, B \subseteq Nat, B # {}
  PROVE  \E m \in B : \A i \in B : m <= i
<1> DEFINE Less == {p \in Nat \X Nat : p[1] < p[2]}
<1>1. IsWellFoundedOn(Less, Nat)
  BY NatLessThanWellFounded DEF OpToRel
<1>2. PICK m \in B : \A i \in B : ~ (<<i, m>> \in Less)
  <2> HIDE DEF Less
  <2> QED
    BY <1>1, WFMin
<1>3. ASSUME NEW i \in B PROVE m <= i
  <2>1. i \in Nat /\ m \in Nat
    OBVIOUS
  <2>2. i < m => <<i, m>> \in Less
    BY <2>1
  <2> HIDE DEF Less
  <2> QED
    BY <1>2, <2>1, <2>2
<1> QED
  BY <1>3

(* A set of numbers below a bound has a largest one.                        *)
LEMMA LargestNumber ==
  ASSUME NEW B, B \subseteq Nat, B # {}, NEW b \in Nat, \A i \in B : i <= b
  PROVE  \E m \in B : \A i \in B : i <= m
<1> DEFINE C == {b - i : i \in B}
<1>1. C \subseteq Nat /\ C # {}
  <2>1. \A i \in B : b - i \in Nat
    OBVIOUS
  <2> QED
    BY <2>1
<1>2. PICK c \in C : \A d \in C : c <= d
  <2> HIDE DEF C
  <2> QED
    BY <1>1, SmallestNumber
<1>3. PICK m \in B : c = b - m
  OBVIOUS
<1>4. ASSUME NEW i \in B PROVE i <= m
  <2>1. b - i \in C /\ i \in Nat /\ m \in Nat
    OBVIOUS
  <2>2. b - m <= b - i
    BY <1>2, <1>3, <2>1
  <2> QED
    BY <2>1, <2>2
<1> QED
  BY <1>4

(* A thread wants no monitor below the level of its first frame, and one    *)
(* that is about to give a monitor back wants none.                         *)
LEMMA WantsAbove ==
  ASSUME Typed, NEW t \in Threads, NEW o \in Wanted(t) \cap Objects
  PROVE  /\ stack[t] # <<>> /\ 1 \in DOMAIN stack[t] /\ stack[t][1] \in AnyFrames
         /\ stack[t][1].op \notin {"release", "generated"}
         /\ Level(stack[t][1]) <= Rank(o)
<1>1. t # Web
  BY DEF Web, Threads, Main, Canceller, JobThread, CallbackThread
<1>2. \/ Doing(t, "completed") /\ On(t)[1] = "groupCallback" /\ o = Group(On(t)[2])
      \/ Doing(t, "completed") /\ On(t)[1] \in {"dependeeCallback", "dependerCallback"} /\ o = Composed(On(t)[2])
      \/ (Doing(t, "execute") \/ Doing(t, "running")) /\ o = On(t)
      \/ Doing(t, "cancel")
  BY <1>1 DEF Wanted
<1>3. PICK op \in {"completed", "execute", "running", "cancel"} : Doing(t, op)
  BY <1>2
<1>4. PICK h : Shows(t, h, op)
  BY <1>3, FirstFrame
<1>5. /\ stack[t] # <<>> /\ 1 \in DOMAIN stack[t] /\ stack[t][1] = h /\ h \in AnyFrames /\ h.op = op
      /\ h.on = On(t) /\ Rank(o) \in Nat
  <2>1. stack[t] \in Seq(AnyFrames) /\ stack[t] # <<>>
    BY <1>4 DEF Shows, Typed
  <2> QED
    BY <1>4, <2>1, RankFacts DEF Shows
<1>6. \A k : Doing(t, k) => k = op
  BY <1>3 DEF Doing
<1>7. CASE op = "completed"
  <2>1. Level(h) = CallLevel(h.on) /\ h.on \in Callbacks
    BY <1>5, <1>7, AnyFrameFacts DEF Level
  <2>2. \A j \in Dependents : Group(j) \in Objects /\ Leaf(j) \in Objects /\ Composed(j) \in Objects
    BY Names DEF Dependents
  <2>3. CASE h.on[1] = "groupCallback" /\ o = Group(h.on[2])
    BY <1>5, <2>1, <2>3 DEF CallLevel
  <2>4. CASE h.on[1] = "dependerCallback" /\ o = Composed(h.on[2])
    BY <1>5, <2>1, <2>4 DEF CallLevel
  <2>5. CASE h.on[1] = "dependeeCallback" /\ o = Composed(h.on[2])
    <3>1. h.on[2] \in Dependents
      BY <2>1, <2>5, CalledFacts
    <3>2. Level(h) = Rank(Leaf(h.on[2]))
      BY <2>1, <2>5 DEF CallLevel
    <3> QED
      BY <1>5, <2>2, <2>5, <3>1, <3>2, RankFacts
  <2> QED
    BY <1>2, <1>5, <1>6, <1>7, <2>3, <2>4, <2>5
<1>8. CASE op \in {"execute", "running"}
  <2>1. o = h.on
    BY <1>2, <1>5, <1>6, <1>8
  <2> QED
    BY <1>5, <1>8, <2>1 DEF Level
<1>9. CASE op = "cancel"
  BY <1>5, <1>9 DEF Level
<1> QED
  BY <1>3, <1>7, <1>8, <1>9

(* Of the monitors that the threads of a circle want take the greatest.     *)
(* Who holds it wants a greater one.                                        *)
LEMMA OrderBreaksCircles ==
  ASSUME MonitorInv, NEW S \in SUBSET Threads, S # {},
         \A t \in S : \E o \in Wanted(t) \cap Objects : monitor[o] \in S \ {NoThread}
  PROVE  FALSE
<1> DEFINE Want(t) == {o \in Wanted(t) \cap Objects : monitor[o] \in S \ {NoThread}}
           B == UNION {{Rank(o) : o \in Want(t)} : t \in S}
<1>1. \A r \in B : r \in Nat /\ r <= Top
  BY RankFacts
<1>2. B # {}
  <2>1. PICK t \in S : \E o \in Wanted(t) \cap Objects : monitor[o] \in S \ {NoThread}
    OBVIOUS
  <2>2. PICK o \in Want(t) : TRUE
    BY <2>1
  <2>3. Rank(o) \in {Rank(p) : p \in Want(t)}
    BY <2>2
  <2>4. Rank(o) \in B
    BY <2>3
  <2> QED
    BY <2>4
<1>3. PICK r \in B : \A i \in B : i <= r
  <2> HIDE DEF B
  <2> QED
    BY <1>1, <1>2, RankFacts, LargestNumber
<1>4. PICK t \in S : \E o \in Want(t) : r = Rank(o)
  OBVIOUS
<1>5. PICK o \in Want(t) : r = Rank(o)
  BY <1>4
<1>6. PICK u \in S : u = monitor[o] /\ u # NoThread
  BY <1>5
<1>7. PICK p \in Want(u) : p \in Wanted(u) \cap Objects
  BY <1>6
<1>8. /\ 1 \in DOMAIN stack[u] /\ stack[u][1] \in AnyFrames
      /\ stack[u][1].op \notin {"release", "generated"}
      /\ Level(stack[u][1]) <= Rank(p)
  BY <1>6, <1>7, WantsAbove DEF MonitorInv
<1>9. GivesBack(u, o)
  BY <1>5, <1>6 DEF MonitorInv, HoldersGiveBack
<1>10. PICK m \in DOMAIN stack[u] : stack[u][m] = Release(o) /\ m # 1
  BY <1>8, <1>9 DEF GivesBack, Release, Frame
<1>11. Rank(o) < Level(stack[u][1])
  <2>1. stack[u] \in Seq(AnyFrames)
    BY DEF MonitorInv, Typed
  <2>2. 1 < m /\ stack[u][m].op = "release" /\ stack[u][m].on = o
    BY <1>10, <2>1 DEF Release, Frame
  <2> QED
    BY <1>6, <1>8, <1>10, <2>2 DEF MonitorInv, StackOrdered
<1>12. Rank(p) \in B /\ Rank(p) \in Nat /\ Rank(o) \in Nat /\ Level(stack[u][1]) \in Nat
  BY <1>5, <1>6, <1>7, <1>8, RankFacts, LevelFacts
<1>13. Rank(p) <= Rank(o)
  BY <1>3, <1>5, <1>12
<1> HIDE DEF B, Want
<1> QED
  BY <1>8, <1>11, <1>12, <1>13

(* The threads of the executions, old ones and new ones, never wait for     *)
(* each other's monitors in a circle: only the web thread can close one.    *)
FlowThreadsMove ==
  \A S \in SUBSET Threads :
    S # {} => ~\A t \in S : \E o \in Wanted(t) \cap Objects : monitor[o] \in S \ {NoThread, t}

(* No circle of waiting threads is made of executions and cancellations     *)
(* alone, however many requests came and whenever they came.                *)
THEOREM OnlyResetsBlock == RestartSpec => []FlowThreadsMove
<1>1. MonitorInv => FlowThreadsMove
  BY OrderBreaksCircles DEF FlowThreadsMove
<1> QED
  BY <1>1, MonitorsAlways, PTL

-----------------------------------------------------------------------------
(* When requests come only after an execution is over, the web thread has   *)
(* frames only while the others have none, but for those of a cancellation, *)
(* which finds no leaf that somebody waits for.                             *)
WebFrames ==
  [op : {"traverse", "reset", "resetRest", "ignore", "resetFailed", "submit"},
   on : Objects \cup {Multiple(j) : j \in Dependents}, arg : {0}]

SubmitLast(s) == \A i \in DOMAIN s : s[i].op = "submit" => i = Len(s)

OnlyCancels ==
  \A t \in Threads : \A i \in DOMAIN stack[t] : stack[t][i].op = "cancel"

LeavesServed ==
  \A j \in Jobs :
    /\ status[Leaf(j)] = "READY" => callbacks[Leaf(j)] = <<>>
    /\ status[Leaf(j)] = "RUNNING" =>
         \E t \in Threads : \E i \in DOMAIN stack[t] : LeafAt(stack[t][i], j)

QuietInv ==
  /\ web \in Seq(WebFrames) /\ SubmitLast(web)
  /\ web # <<>> => OnlyCancels
  /\ LeavesServed

(* The web thread goes on with frames above those it had.                   *)
LEMMA WebGoesOn ==
  ASSUME web \in Seq(WebFrames), SubmitLast(web), web # <<>>, NEW fs \in Seq(WebFrames),
         \A i \in DOMAIN fs : fs[i].op # "submit", web' = fs \o Tail(web)
  PROVE  web' \in Seq(WebFrames) /\ SubmitLast(web')
<1>1. /\ Tail(web) \in Seq(WebFrames) /\ Len(web) \in Nat \ {0} /\ Len(Tail(web)) = Len(web) - 1
      /\ \A i \in 1..(Len(web) - 1) : Tail(web)[i] = web[i + 1]
      /\ DOMAIN web = 1 .. Len(web)
  OBVIOUS
<1>2. /\ fs \o Tail(web) \in Seq(WebFrames)
      /\ Len(fs \o Tail(web)) = Len(fs) + Len(Tail(web))
      /\ \A i \in 1..(Len(fs) + Len(Tail(web))) :
           (fs \o Tail(web))[i] = IF i <= Len(fs) THEN fs[i] ELSE Tail(web)[i - Len(fs)]
  BY <1>1, ConcatProperties
<1>3. Len(fs) \in Nat /\ DOMAIN fs = 1 .. Len(fs)
  OBVIOUS
<1>4. ASSUME NEW i \in DOMAIN web', web'[i].op = "submit" PROVE i = Len(web')
  <2>1. i \in 1..(Len(fs) + Len(Tail(web))) /\ Len(web') = Len(fs) + Len(web) - 1
    BY <1>1, <1>2, <1>3
  <2>2. i > Len(fs)
    BY <1>2, <1>3, <1>4, <2>1
  <2>3. i - Len(fs) \in 1..(Len(web) - 1)
    BY <1>1, <1>3, <2>1, <2>2
  <2>4. web'[i] = web[(i - Len(fs)) + 1] /\ (i - Len(fs)) + 1 \in DOMAIN web
    BY <1>1, <1>2, <1>3, <2>1, <2>2, <2>3
  <2>5. (i - Len(fs)) + 1 = Len(web)
    BY <1>4, <2>4 DEF SubmitLast
  <2> QED
    BY <1>1, <1>3, <2>1, <2>5
<1> QED
  BY <1>2, <1>4 DEF SubmitLast

(* The frames of the web thread but the last one.                           *)
LEMMA WebFramesMade ==
  ASSUME NEW o \in Objects \cup {Multiple(j) : j \in Dependents}
  PROVE  /\ \A k \in {"traverse", "reset", "resetRest", "ignore", "resetFailed", "submit"} :
              Frame(k, o, 0) \in WebFrames /\ Frame(k, o, 0).op = k
         /\ o[2] \in Jobs
         /\ o[1] = "multiple" => o[2] \in Dependents /\ o \notin Objects
         /\ o[1] \in {"leaf", "group", "composed"} => o \in Objects
         /\ o[1] \in {"group", "composed"} => o[2] \in Dependents
         /\ o[1] \in {"leaf", "group", "composed", "multiple"}
         /\ \A op \in {"traverse", "resetFailed"} :
              /\ OnChildren(op, o[2]) \in Seq(WebFrames)
              /\ \A i \in DOMAIN OnChildren(op, o[2]) : OnChildren(op, o[2])[i].op # "submit"
<1>1. \A k \in {"traverse", "reset", "resetRest", "ignore", "resetFailed", "submit"} :
        \A x \in Objects \cup {Multiple(j) : j \in Dependents} :
          Frame(k, x, 0) \in WebFrames /\ Frame(k, x, 0).op = k
  BY DEF WebFrames, Frame
<1>3. ASSUME NEW j \in Dependents, o = Multiple(j)
      PROVE  o[1] = "multiple" /\ o[2] = j /\ j \in Jobs /\ o \notin Objects
  <2>1. o[1] = "multiple" /\ o[2] = j /\ j \in Jobs
    BY <1>3 DEF Multiple, Dependents
  <2> QED
    BY <2>1, ObjectFacts
<1>4. o[2] \in Jobs
  BY <1>3, ObjectFacts
<1>5. ASSUME NEW op \in {"traverse", "resetFailed"}
      PROVE  /\ OnChildren(op, o[2]) \in Seq(WebFrames)
             /\ \A i \in DOMAIN OnChildren(op, o[2]) : OnChildren(op, o[2])[i].op # "submit"
  <2>1. Dependees[o[2]] \in Seq(Jobs)
    BY <1>4, FlowConstants
  <2>2. ASSUME NEW i \in DOMAIN Dependees[o[2]]
        PROVE  Frame(op, Outer(Dependees[o[2]][i]), 0) \in WebFrames
               /\ Frame(op, Outer(Dependees[o[2]][i]), 0).op = op
    <3>1. Dependees[o[2]][i] \in Jobs
      BY <2>1
    <3>2. Outer(Dependees[o[2]][i]) \in Objects \cup {Multiple(j) : j \in Dependents}
      BY <3>1, Names DEF Outer
    <3> QED
      BY <1>1, <3>2
  <2>3. \A i \in DOMAIN Dependees[o[2]] :
          OnChildren(op, o[2])[i] = Frame(op, Outer(Dependees[o[2]][i]), 0)
    BY DEF OnChildren
  <2>4. OnChildren(op, o[2]) \in Seq(WebFrames) /\ DOMAIN OnChildren(op, o[2]) = DOMAIN Dependees[o[2]]
    BY <2>1, <2>2 DEF OnChildren
  <2>5. ASSUME NEW i \in DOMAIN OnChildren(op, o[2]) PROVE OnChildren(op, o[2])[i].op # "submit"
    BY <2>2, <2>3, <2>4
  <2> QED
    BY <2>4, <2>5
<1>6. /\ o[1] = "multiple" => o[2] \in Dependents /\ o \notin Objects
      /\ o[1] \in {"leaf", "group", "composed"} => o \in Objects
      /\ o[1] \in {"group", "composed"} => o[2] \in Dependents
      /\ o[1] \in {"leaf", "group", "composed", "multiple"}
  <2>1. CASE o \in Objects
    BY <2>1, ObjectFacts
  <2>2. CASE o \in {Multiple(j) : j \in Dependents}
    <3>1. PICK j \in Dependents : o = Multiple(j)
      BY <2>2
    <3>2. o[1] = "multiple" /\ o[2] \in Dependents /\ o \notin Objects
      BY <1>3, <3>1
    <3> QED
      BY <3>2
  <2> QED
    BY <2>1, <2>2
<1>7. \A k \in {"traverse", "reset", "resetRest", "ignore", "resetFailed", "submit"} :
        Frame(k, o, 0) \in WebFrames /\ Frame(k, o, 0).op = k
  BY <1>1
<1> QED
  BY <1>4, <1>5, <1>6, <1>7

(* Frames of the web thread that hand nothing in.                           *)
Unsent == {fs \in Seq(WebFrames) : \A i \in DOMAIN fs : fs[i].op # "submit"}

(* Lists of one, two or three of them, and one list after another.          *)
LEMMA UnsentMade ==
  /\ <<>> \in Unsent
  /\ \A f, g \in WebFrames : f.op # "submit" /\ g.op # "submit" => <<f>> \in Unsent /\ <<f, g>> \in Unsent
  /\ \A f, g, h \in WebFrames :
       f.op # "submit" /\ g.op # "submit" /\ h.op # "submit" => <<f, g, h>> \in Unsent
  /\ \A fs, gs \in Unsent : fs \o gs \in Unsent
<1>1. <<>> \in Unsent
  BY DEF Unsent
<1>2. ASSUME NEW f \in WebFrames, NEW g \in WebFrames, f.op # "submit", g.op # "submit"
      PROVE  <<f>> \in Unsent /\ <<f, g>> \in Unsent
  BY <1>2 DEF Unsent
<1>3. ASSUME NEW f \in WebFrames, NEW g \in WebFrames, NEW h \in WebFrames,
             f.op # "submit", g.op # "submit", h.op # "submit"
      PROVE  <<f, g, h>> \in Unsent
  BY <1>3 DEF Unsent
<1>4. ASSUME NEW fs \in Unsent, NEW gs \in Unsent PROVE fs \o gs \in Unsent
  <2>1. fs \in Seq(WebFrames) /\ gs \in Seq(WebFrames)
    BY DEF Unsent
  <2>2. /\ fs \o gs \in Seq(WebFrames) /\ Len(fs \o gs) = Len(fs) + Len(gs)
        /\ \A i \in 1..(Len(fs) + Len(gs)) :
             (fs \o gs)[i] = IF i <= Len(fs) THEN fs[i] ELSE gs[i - Len(fs)]
    BY <2>1, ConcatProperties
  <2>3. ASSUME NEW i \in DOMAIN (fs \o gs) PROVE (fs \o gs)[i].op # "submit"
    <3>1. i \in 1..(Len(fs) + Len(gs)) /\ Len(fs) \in Nat /\ Len(gs) \in Nat
      BY <2>1, <2>2
    <3>2. CASE i <= Len(fs)
      <4>1. i \in DOMAIN fs
        BY <2>1, <3>1, <3>2
      <4> QED
        BY <2>2, <3>1, <3>2, <4>1 DEF Unsent
    <3>3. CASE ~(i <= Len(fs))
      <4>1. i - Len(fs) \in DOMAIN gs
        BY <2>1, <3>1, <3>3
      <4> QED
        BY <2>2, <3>1, <3>3, <4>1 DEF Unsent
    <3> QED
      BY <3>2, <3>3
  <2> QED
    BY <2>2, <2>3 DEF Unsent
<1> QED
  BY <1>1, <1>2, <1>3, <1>4

(* A step of the web thread leaves it with frames, the last of which sends. *)
LEMMA WebStaysInOrder ==
  ASSUME web \in Seq(WebFrames), SubmitLast(web), WebStep
  PROVE  web' \in Seq(WebFrames) /\ SubmitLast(web')
<1>1. web # <<>>
  BY DEF WebStep, TraverseFlow, ResetFailedFlows, ResetMultiple, ResetRunning, ResetComposed,
         ResetComposedRest, ResetGroup, ResetLeaf, IgnoreLeaf, SubmitRefused, SubmitAccepted, WebDoing
<1>2. PICK o : o = Target
  OBVIOUS
<1>3. o \in Objects \cup {Multiple(j) : j \in Dependents}
  <2>1. Head(web) \in WebFrames
    BY <1>1
  <2> QED
    BY <1>2, <2>1 DEF WebFrames, Target
<1>4. PICK j : j = o[2]
  OBVIOUS
<1>5. \A x \in Objects \cup {Multiple(y) : y \in Dependents} :
        \A k \in {"traverse", "reset", "resetRest", "ignore", "resetFailed"} :
          Frame(k, x, 0) \in WebFrames /\ Frame(k, x, 0).op # "submit"
  BY WebFramesMade
<1>6. /\ j \in Jobs /\ Leaf(j) \in Objects
      /\ o[1] = "multiple" => j \in Dependents
      /\ o[1] \in {"leaf", "group", "composed"} => o \in Objects
      /\ o[1] \in {"group", "composed"} => j \in Dependents
      /\ j \in Dependents => Group(j) \in Objects /\ Composed(j) \in Objects
      /\ o[1] \in {"leaf", "group", "composed", "multiple"}
      /\ \A op \in {"traverse", "resetFailed"} : OnChildren(op, j) \in Unsent
  <2>1. /\ o[2] \in Jobs
        /\ o[1] = "multiple" => o[2] \in Dependents
        /\ o[1] \in {"leaf", "group", "composed"} => o \in Objects
        /\ o[1] \in {"group", "composed"} => o[2] \in Dependents
        /\ o[1] \in {"leaf", "group", "composed", "multiple"}
    BY <1>3, WebFramesMade
  <2>2. ASSUME NEW op \in {"traverse", "resetFailed"}
        PROVE  OnChildren(op, o[2]) \in Unsent
    <3>1. /\ OnChildren(op, o[2]) \in Seq(WebFrames)
          /\ \A i \in DOMAIN OnChildren(op, o[2]) : OnChildren(op, o[2])[i].op # "submit"
      BY <1>3, WebFramesMade
    <3> QED
      BY <3>1 DEF Unsent
  <2>3. Leaf(j) \in Objects /\ (j \in Dependents => Group(j) \in Objects /\ Composed(j) \in Objects)
    BY <1>4, <2>1, Names
  <2> QED
    BY <1>4, <2>1, <2>2, <2>3
<1>7. SUFFICES web' = <<>> \/ \E fs \in Unsent : web' = fs \o Tail(web)
  <2>1. <<>> \in Seq(WebFrames) /\ SubmitLast(<<>>)
    BY DEF SubmitLast
  <2>2. ASSUME NEW fs \in Unsent, web' = fs \o Tail(web)
        PROVE  web' \in Seq(WebFrames) /\ SubmitLast(web')
    BY <1>1, <2>2, WebGoesOn DEF Unsent
  <2> QED
    BY <2>1, <2>2
<1>8. \A f \in WebFrames : f.op # "submit" => <<f>> \in Unsent
  BY UnsentMade
<1>9. CASE TraverseFlow
  <2>1. web' = (CASE o[1] = "leaf"     -> <<Reset(o)>> \o (IF j \in disabled THEN <<Ignore(j)>> ELSE <<>>)
               [] o[1] = "multiple" -> <<Reset(o), Traverse(Composed(j))>> \o OnChildren("traverse", j)
               [] o[1] = "composed" -> <<Reset(o), Traverse(Leaf(j)), Traverse(Group(j))>>
               [] o[1] = "group"    -> <<Reset(o)>> \o OnChildren("traverse", j)) \o Tail(web)
    BY <1>2, <1>4, <1>9 DEF TraverseFlow, WebThen
  <2>2. Reset(o) \in WebFrames /\ Reset(o).op # "submit" /\ Ignore(j) \in WebFrames /\ Ignore(j).op # "submit"
    BY <1>3, <1>5, <1>6 DEF Reset, Ignore
  <2>3. CASE o[1] = "leaf"
    <3>1. web' = (<<Reset(o)>> \o (IF j \in disabled THEN <<Ignore(j)>> ELSE <<>>)) \o Tail(web)
      BY <2>1, <2>3
    <3>2. <<Reset(o)>> \o (IF j \in disabled THEN <<Ignore(j)>> ELSE <<>>) \in Unsent
      BY <2>2, <1>8, UnsentMade
    <3> QED
      BY <3>1, <3>2
  <2>4. CASE o[1] = "multiple"
    <3>1. web' = (<<Reset(o), Traverse(Composed(j))>> \o OnChildren("traverse", j)) \o Tail(web)
      BY <2>1, <2>4
    <3>2. Traverse(Composed(j)) \in WebFrames /\ Traverse(Composed(j)).op # "submit"
      BY <1>5, <1>6, <2>4 DEF Traverse
    <3>3. <<Reset(o), Traverse(Composed(j))>> \in Unsent
      BY <2>2, <3>2, UnsentMade
    <3>4. <<Reset(o), Traverse(Composed(j))>> \o OnChildren("traverse", j) \in Unsent
      BY <1>6, <3>3, UnsentMade
    <3> QED
      BY <3>1, <3>4
  <2>5. CASE o[1] = "composed"
    <3>1. web' = <<Reset(o), Traverse(Leaf(j)), Traverse(Group(j))>> \o Tail(web)
      BY <2>1, <2>5
    <3>2. /\ Traverse(Leaf(j)) \in WebFrames /\ Traverse(Leaf(j)).op # "submit"
          /\ Traverse(Group(j)) \in WebFrames /\ Traverse(Group(j)).op # "submit"
      BY <1>5, <1>6, <2>5 DEF Traverse
    <3>3. <<Reset(o), Traverse(Leaf(j)), Traverse(Group(j))>> \in Unsent
      BY <2>2, <3>2, UnsentMade
    <3> QED
      BY <3>1, <3>3
  <2>6. CASE o[1] = "group"
    <3>1. web' = (<<Reset(o)>> \o OnChildren("traverse", j)) \o Tail(web)
      BY <2>1, <2>6
    <3>2. <<Reset(o)>> \o OnChildren("traverse", j) \in Unsent
      BY <1>6, <1>8, <2>2, UnsentMade
    <3> QED
      BY <3>1, <3>2
  <2> QED
    BY <1>6, <2>3, <2>4, <2>5, <2>6
<1>10. CASE ResetFailedFlows
  <2>1. web' = ((IF status[FlowOf(j)] = "FAILED" THEN <<Reset(o)>> ELSE <<>>)
                  \o OnChildren("resetFailed", j)) \o Tail(web)
    BY <1>2, <1>4, <1>10 DEF ResetFailedFlows, WebThen
  <2>2. Reset(o) \in WebFrames /\ Reset(o).op # "submit"
    BY <1>3, <1>5 DEF Reset
  <2>3. (IF status[FlowOf(j)] = "FAILED" THEN <<Reset(o)>> ELSE <<>>) \in Unsent
    BY <1>8, <2>2, UnsentMade
  <2>4. (IF status[FlowOf(j)] = "FAILED" THEN <<Reset(o)>> ELSE <<>>)
          \o OnChildren("resetFailed", j) \in Unsent
    BY <1>6, <2>3, UnsentMade
  <2> QED
    BY <2>1, <2>4
<1>11. CASE ResetMultiple
  <2>1. o[1] = "multiple" /\ web' = <<Reset(Composed(j)), Reset(Group(j))>> \o Tail(web)
    BY <1>2, <1>4, <1>11 DEF ResetMultiple, WebThen
  <2>2. /\ Reset(Composed(j)) \in WebFrames /\ Reset(Composed(j)).op # "submit"
        /\ Reset(Group(j)) \in WebFrames /\ Reset(Group(j)).op # "submit"
    BY <1>5, <1>6, <2>1 DEF Reset
  <2> QED
    BY <2>1, <2>2, UnsentMade
<1>12. CASE ResetComposed
  <2>1. web' = <<Reset(Leaf(j)), ResetRest(o)>> \o Tail(web)
    BY <1>2, <1>4, <1>12 DEF ResetComposed, WebThen
  <2>2. /\ Reset(Leaf(j)) \in WebFrames /\ Reset(Leaf(j)).op # "submit"
        /\ ResetRest(o) \in WebFrames /\ ResetRest(o).op # "submit"
    BY <1>3, <1>5, <1>6 DEF Reset, ResetRest
  <2> QED
    BY <2>1, <2>2, UnsentMade
<1>13. CASE ResetRunning \/ ResetComposedRest \/ ResetGroup \/ ResetLeaf \/ IgnoreLeaf
            \/ SubmitRefused \/ SubmitAccepted
  <2>1. web' = <<>> \/ web' = <<>> \o Tail(web)
    BY <1>13 DEF ResetRunning, ResetComposedRest, ResetGroup, ResetLeaf, IgnoreLeaf,
                 SubmitRefused, SubmitAccepted, WebThen
  <2> QED
    BY <2>1, UnsentMade
<1> QED
  BY <1>9, <1>10, <1>11, <1>12, <1>13 DEF WebStep


-----------------------------------------------------------------------------
(* What a step of a thread of an execution leaves of that.                  *)
LEMMA MoveStaysQuiet ==
  ASSUME MonitorInv, QuietInv, NEW t \in Threads, Move(t), UNCHANGED web
  PROVE  QuietInv'
<1>1. PICK v, fs : Turns(t, v, fs) /\ Runs(t, fs) /\ Cancels(t, v, fs)
  BY MoveTurns DEF MonitorInv, Turn
<1>2. v \in Threads /\ fs \in Seq(AnyFrames) /\ Takes(t, v, fs)
  BY <1>1 DEF Turns
<1>3. stack \in [Threads -> Seq(AnyFrames)] /\ 1 \in DOMAIN stack[t] /\ stack[t] # <<>>
  BY <1>2, StacksAfter DEF MonitorInv, Typed
<1>4. LeavesServed'
  <2>1. ASSUME NEW j \in Jobs, status'[Leaf(j)] = "READY" PROVE callbacks'[Leaf(j)] = <<>>
    BY <1>1, <2>1 DEF QuietInv, LeavesServed, Runs
  <2>2. ASSUME NEW j \in Jobs, status'[Leaf(j)] = "RUNNING"
        PROVE  \E u \in Threads : \E i \in DOMAIN stack'[u] : LeafAt(stack'[u][i], j)
    <3>1. CASE \E i \in DOMAIN fs : LeafAt(fs[i], j)
      <4>1. PICK i \in DOMAIN fs : LeafAt(fs[i], j)
        BY <3>1
      <4>2. i \in DOMAIN stack'[v] /\ stack'[v][i] = fs[i]
        <5>1. CASE v = t
          BY <1>2, <1>3, <5>1, StacksAfter
        <5>2. CASE v # t
          BY <1>2, <1>3, <5>2, StacksAfter
        <5> QED
          BY <5>1, <5>2
      <4> QED
        BY <1>2, <4>1, <4>2
    <3>2. CASE status[Leaf(j)] = "RUNNING" /\ ~LeafAt(stack[t][1], j)
      <4>1. PICK u \in Threads : \E i \in DOMAIN stack[u] : LeafAt(stack[u][i], j)
        BY <3>2 DEF QuietInv, LeavesServed
      <4>2. PICK i \in DOMAIN stack[u] : LeafAt(stack[u][i], j)
        BY <4>1
      <4>3. CASE u = t
        <5>1. i # 1 /\ i \in DOMAIN stack[t]
          BY <3>2, <4>2, <4>3
        <5>2. PICK m \in DOMAIN stack'[t] : stack'[t][m] = stack[t][i]
          BY <1>2, <1>3, <5>1, StacksAfter
        <5> QED
          BY <4>2, <4>3, <5>2
      <4>4. CASE u # t
        <5>1. u # v
          <6>1. v # t => stack[v] = <<>>
            BY <1>2, <1>3, StacksAfter
          <6> QED
            BY <4>2, <4>4, <6>1
        <5>2. stack'[u] = stack[u]
          BY <1>2, <1>3, <4>4, <5>1, StacksAfter
        <5> QED
          BY <4>2, <5>2
      <4> QED
        BY <4>3, <4>4
    <3> QED
      BY <1>1, <2>2, <3>1, <3>2 DEF Runs
  <2> QED
    BY <2>1, <2>2 DEF LeavesServed, LeafAt, Leaf
<1>5. ASSUME web # <<>> PROVE OnlyCancels'
  <2>1. \A u \in Threads : \A i \in DOMAIN stack[u] : stack[u][i].op = "cancel"
    BY <1>5 DEF QuietInv, OnlyCancels
  <2>2. stack[t][1].op = "cancel"
    BY <1>3, <2>1
  <2>3. ~\E j \in Jobs : status[Leaf(j)] \in {"READY", "RUNNING"} /\ callbacks[Leaf(j)] # <<>>
    <3> SUFFICES ASSUME NEW j \in Jobs, status[Leaf(j)] \in {"READY", "RUNNING"}, callbacks[Leaf(j)] # <<>>
                 PROVE  FALSE
      OBVIOUS
    <3>1. \E u \in Threads : \E i \in DOMAIN stack[u] : LeafAt(stack[u][i], j)
      BY DEF QuietInv, LeavesServed
    <3> QED
      BY <2>1, <3>1 DEF LeafAt
  <2>4. v = t /\ \A i \in DOMAIN fs : fs[i].op = "cancel"
    BY <1>1, <2>2, <2>3 DEF Cancels
  <2>5. ASSUME NEW u \in Threads, NEW i \in DOMAIN stack'[u] PROVE stack'[u][i].op = "cancel"
    <3>1. CASE u = t
      <4>1. \/ i \in DOMAIN fs /\ stack'[t][i] = fs[i]
            \/ /\ i > Len(fs) /\ i - Len(fs) + 1 \in DOMAIN stack[t]
               /\ stack'[t][i] = stack[t][i - Len(fs) + 1]
        BY <1>2, <1>3, <2>4, <3>1, StacksAfter
      <4> QED
        BY <2>1, <2>4, <3>1, <4>1
    <3>2. CASE u # t
      <4>1. stack'[u] = stack[u]
        BY <1>2, <1>3, <2>4, <3>2, StacksAfter
      <4> QED
        BY <2>1, <4>1
    <3> QED
      BY <3>1, <3>2
  <2> QED
    BY <2>5 DEF OnlyCancels
<1>6. web' = web /\ web \in Seq(WebFrames) /\ SubmitLast(web)
  BY DEF QuietInv
<1>7. web' \in Seq(WebFrames) /\ SubmitLast(web')
  BY <1>6
<1> QED
  BY <1>4, <1>5, <1>6, <1>7 DEF QuietInv, SubmitLast, WebFrames, Multiple

(* A leaf that is served stays so when a thread gets its first frame.       *)
LEMMA ServedStill ==
  ASSUME LeavesServed, stack \in [Threads -> Seq(AnyFrames)],
         stack' = stack \/ \E u \in Threads, f \in AnyFrames : stack[u] = <<>> /\ stack' = [stack EXCEPT ![u] = <<f>>],
         \A j \in Jobs :
           /\ status'[Leaf(j)] = "READY" =>
                \/ callbacks'[Leaf(j)] = <<>>
                \/ status[Leaf(j)] = "READY" /\ callbacks'[Leaf(j)] = callbacks[Leaf(j)]
           /\ status'[Leaf(j)] = "RUNNING" => status[Leaf(j)] = "RUNNING"
  PROVE  LeavesServed'
<1>1. ASSUME NEW j \in Jobs, status'[Leaf(j)] = "READY" PROVE callbacks'[Leaf(j)] = <<>>
  BY <1>1 DEF LeavesServed
<1>2. ASSUME NEW j \in Jobs, status'[Leaf(j)] = "RUNNING"
      PROVE  \E w \in Threads : \E i \in DOMAIN stack'[w] : LeafAt(stack'[w][i], j)
  <2>1. PICK w \in Threads : \E i \in DOMAIN stack[w] : LeafAt(stack[w][i], j)
    BY <1>2 DEF LeavesServed
  <2>2. stack'[w] = stack[w]
    BY <2>1
  <2> QED
    BY <2>1, <2>2
<1> QED
  BY <1>1, <1>2 DEF LeavesServed, LeafAt, Leaf

(* A cancellation that begins.                                              *)
LEMMA CancelStaysQuiet ==
  ASSUME MonitorInv, QuietInv, CancelRoot, UNCHANGED web
  PROVE  QuietInv'
<1> DEFINE f == Cancel(FlowOf(Root))
<1>1. f \in AnyFrames /\ f.op = "cancel"
  BY FlowConstants, Names, AnyFramesMade DEF Cancel, Frame
<1>2. Canceller \in Threads /\ stack[Canceller] = <<>> /\ stack \in [Threads -> Seq(AnyFrames)]
      /\ stack' = [stack EXCEPT ![Canceller] = <<f>>] /\ UNCHANGED <<status, callbacks>>
  BY DEF CancelRoot, MonitorInv, Typed, Threads
<1> HIDE DEF f
<1>3. LeavesServed'
  BY <1>1, <1>2, ServedStill DEF QuietInv
<1>4. ASSUME web # <<>> PROVE OnlyCancels'
  <2>1. stack'[Canceller] = <<f>> /\ \A u \in Threads : u # Canceller => stack'[u] = stack[u]
    BY <1>2
  <2>2. DOMAIN <<f>> = {1} /\ <<f>>[1] = f
    BY <1>1, FewFrames
  <2> QED
    BY <1>1, <1>4, <2>1, <2>2 DEF QuietInv, OnlyCancels
<1>5. web' \in Seq(WebFrames) /\ SubmitLast(web')
  BY DEF QuietInv
<1> QED
  BY <1>3, <1>4, <1>5 DEF QuietInv, SubmitLast, WebFrames, Multiple

(* A request that comes when the execution is over.                         *)
LEMMA RequestStaysQuiet ==
  ASSUME MonitorInv, QuietInv, Request, ~WhileRunning
  PROVE  QuietInv'
<1>1. UNCHANGED <<stack, status, callbacks>> /\ \A u \in Threads : stack[u] = <<>>
  BY DEF Request, Over, Idle, vars
<1>2. LeavesServed'
  BY <1>1 DEF QuietInv, LeavesServed, LeafAt, Leaf
<1>3. OnlyCancels'
  BY <1>1 DEF OnlyCancels
<1>4. Outer(Root) \in Objects \cup {Multiple(j) : j \in Dependents}
  BY FlowConstants, Names DEF Outer
<1>5. /\ Submit \in WebFrames /\ Traverse(Outer(Root)) \in WebFrames /\ ResetFailed(Outer(Root)) \in WebFrames
      /\ Traverse(Outer(Root)).op # "submit" /\ ResetFailed(Outer(Root)).op # "submit"
  BY <1>4, WebFramesMade DEF Submit, Traverse, ResetFailed
<1>6. \E f \in WebFrames : web' = <<f, Submit>> /\ f.op # "submit"
  BY <1>5 DEF Request, ByHistory, ByExecution
<1>7. web' \in Seq(WebFrames) /\ SubmitLast(web')
  BY <1>5, <1>6 DEF SubmitLast
<1> QED
  BY <1>2, <1>3, <1>7 DEF QuietInv, SubmitLast, WebFrames, Multiple

(* A step of the web thread.                                                *)
LEMMA WebStaysQuiet ==
  ASSUME MonitorInv, QuietInv, WebStep
  PROVE  QuietInv'
<1>1. web \in Seq(WebFrames) /\ SubmitLast(web) /\ LeavesServed /\ (web # <<>> => OnlyCancels)
  BY DEF QuietInv
<1>2. web' \in Seq(WebFrames) /\ SubmitLast(web')
  BY <1>1, WebStaysInOrder
<1>3. web # <<>>
  BY DEF WebStep, TraverseFlow, ResetFailedFlows, ResetMultiple, ResetRunning, ResetComposed,
         ResetComposedRest, ResetGroup, ResetLeaf, IgnoreLeaf, SubmitRefused, SubmitAccepted, WebDoing
<1>4. /\ stack \in [Threads -> Seq(AnyFrames)]
      /\ status \in [Objects -> Status] /\ callbacks \in [Objects -> Seq(Callbacks)]
      /\ \A j \in Jobs : Leaf(j) \in Objects /\ Leaf(j)[1] = "leaf"
  BY Names DEF MonitorInv, Typed, FieldsTyped
<1>5. PICK o : o = Target
  OBVIOUS
<1>6. CASE SubmitAccepted
  <2>1. Head(web).op = "submit" /\ web' = <<>> \o Tail(web) /\ 1 \in DOMAIN web /\ web[1] = Head(web)
    BY <1>1, <1>3, <1>6 DEF SubmitAccepted, WebDoing, WebThen
  <2>2. Len(web) = 1
    BY <1>1, <2>1 DEF SubmitLast
  <2>3. web' = <<>>
    BY <1>1, <2>1, <2>2
  <2>4. Execute(FlowOf(Root), RootCallback) \in AnyFrames /\ Main \in Threads
    BY FlowConstants, Names, CalledFacts, AnyFramesMade DEF Main, Threads
  <2>5. LeavesServed'
    BY <1>1, <1>4, <1>6, <2>4, ServedStill DEF SubmitAccepted
  <2> QED
    BY <1>2, <2>3, <2>5 DEF QuietInv, SubmitLast, WebFrames, Multiple
<1>7. CASE ~SubmitAccepted
  <2>1. UNCHANGED stack
    BY <1>7 DEF WebStep, TraverseFlow, ResetFailedFlows, ResetMultiple, ResetRunning, ResetComposed,
         ResetComposedRest, ResetGroup, ResetLeaf, IgnoreLeaf, SubmitRefused, vars
  <2>2. OnlyCancels'
    BY <1>1, <1>3, <2>1 DEF OnlyCancels
  <2>3. \/ UNCHANGED <<status, callbacks>>
        \/ UNCHANGED callbacks /\ status' = [status EXCEPT ![o] = "READY"] /\ o[1] = "composed"
        \/ UNCHANGED status /\ callbacks' = [callbacks EXCEPT ![o] = <<>>]
        \/ status' = [status EXCEPT ![o] = "READY"] /\ callbacks' = [callbacks EXCEPT ![o] = <<>>]
        \/ UNCHANGED callbacks /\ status' = [status EXCEPT ![o] = "IGNORED"]
    BY <1>5, <1>7 DEF WebStep, TraverseFlow, ResetFailedFlows, ResetMultiple, ResetRunning, ResetComposed,
         ResetComposedRest, ResetGroup, ResetLeaf, IgnoreLeaf, SubmitRefused, SetStatus, vars
  <2>4. ASSUME NEW j \in Jobs
        PROVE  /\ status'[Leaf(j)] = "READY" =>
                    \/ callbacks'[Leaf(j)] = <<>>
                    \/ status[Leaf(j)] = "READY" /\ callbacks'[Leaf(j)] = callbacks[Leaf(j)]
               /\ status'[Leaf(j)] = "RUNNING" => status[Leaf(j)] = "RUNNING"
    <3>1. CASE status[Leaf(j)] = "READY"
      <4>1. callbacks[Leaf(j)] = <<>>
        BY <1>1, <3>1 DEF LeavesServed
      <4> QED
        BY <1>4, <2>3, <3>1, <4>1
    <3>2. CASE status[Leaf(j)] # "READY"
      BY <1>4, <2>3, <3>2
    <3> QED
      BY <3>1, <3>2
  <2>5. LeavesServed'
    BY <1>1, <1>4, <2>1, <2>4, ServedStill
  <2> QED
    BY <1>2, <2>2, <2>5 DEF QuietInv, SubmitLast, WebFrames, Multiple
<1> QED
  BY <1>6, <1>7

(* So it is in every state.                                                 *)
LEMMA QuietAlways == ~WhileRunning /\ RestartSpec => []QuietInv
<1> SUFFICES ASSUME ~WhileRunning PROVE RestartSpec => []QuietInv
  OBVIOUS
<1>1. RestartInit => QuietInv
  <2> SUFFICES ASSUME RestartInit PROVE QuietInv
    OBVIOUS
  <2>1. web = <<>> /\ web \in Seq(WebFrames) /\ SubmitLast(web)
    BY DEF RestartInit, SubmitLast
  <2>2. \A o \in Objects : callbacks[o] = <<>> /\ status[o] # "RUNNING"
    BY DEF RestartInit, Init, InitStatus
  <2> QED
    BY <2>1, <2>2, Names DEF QuietInv, LeavesServed
<1>2. MonitorInv /\ QuietInv /\ [RestartNext]_allVars => QuietInv'
  <2>1. ASSUME QuietInv, UNCHANGED <<vars, web>> PROVE QuietInv'
    BY <2>1 DEF QuietInv, OnlyCancels, LeavesServed, LeafAt, Leaf, SubmitLast, WebFrames, Multiple, vars
  <2> QED
    BY <2>1, MoveStaysQuiet, CancelStaysQuiet, RequestStaysQuiet, WebStaysQuiet
       DEF RestartNext, restartVars, allVars
<1> QED
  BY <1>1, <1>2, MonitorsAlways, PTL DEF RestartSpec

(* The web thread waits for nobody then: whom it could wait for has only    *)
(* frames of a cancellation, and these hold no monitor.                     *)
LEMMA WebWaitsForNobody ==
  ASSUME MonitorInv, QuietInv, NEW o \in Objects, o \in Wanted(Web)
  PROVE  monitor[o] \in {NoThread, Web}
<1>1. OnlyCancels
  BY DEF Wanted, QuietInv
<1>2. ASSUME NEW u \in Threads, monitor[o] = u, u # NoThread PROVE FALSE
  <2>1. GivesBack(u, o) /\ stack[u] \in Seq(AnyFrames)
    BY <1>2 DEF MonitorInv, Typed, HoldersGiveBack
  <2>2. PICK i \in DOMAIN stack[u] : stack[u][i].op # "cancel"
    BY <2>1 DEF GivesBack, Release, Frame
  <2> QED
    BY <1>1, <2>2 DEF OnlyCancels
<1> QED
  BY <1>2 DEF MonitorInv, Typed, FieldsTyped

(* No threads wait for each other's monitors in a circle, when requests     *)
(* come only after an execution is over, a cancellation at any time.        *)
THEOREM RestartsNeverBlock == ~WhileRunning /\ RestartSpec => []NoWaitCycle
<1>1. MonitorInv /\ QuietInv => NoWaitCycle
  <2> SUFFICES ASSUME MonitorInv, QuietInv PROVE NoWaitCycle
    OBVIOUS
  <2> DEFINE Owners(t) == {monitor[o] : o \in Wanted(t) \cap Objects} \ {NoThread, t}
             Blocked   == {t \in Threads \cup {Web} : Owners(t) # {}}
  <2>1. SUFFICES ASSUME NEW S \in SUBSET Blocked, S # {}, \A t \in S : Owners(t) \subseteq S
                 PROVE  FALSE
    BY DEF NoWaitCycle
  <2>2. Owners(Web) = {}
    BY WebWaitsForNobody
  <2>3. S \in SUBSET Threads
    BY <2>2
  <2>4. ASSUME NEW t \in S PROVE \E o \in Wanted(t) \cap Objects : monitor[o] \in S \ {NoThread, t}
    <3>1. PICK u \in Owners(t) : u \in S
      BY <2>1, <2>4
    <3> QED
      BY <3>1
  <2> HIDE DEF Owners, Blocked
  <2> QED
    BY <2>1, <2>3, <2>4, OrderBreaksCircles
<1> QED
  BY <1>1, MonitorsAlways, QuietAlways, PTL
==============================================================================
