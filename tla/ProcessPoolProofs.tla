--------------------------- MODULE ProcessPoolProofs ---------------------------
(* 6/processpool.h for any number of children, connections and deaths: each      *)
(* announcement has a connection, the turn goes round, the parent leaves nobody, *)
(* and what they do is what Prefork allows.                                      *)
EXTENDS ProcessPool, FiniteSetTheorems, SequenceTheorems, WellFoundedInduction, TLAPS

(* ------------------------------- the invariant ------------------------------- *)

Pieces == {"part", "end"}
Bit(x, S) == IF x \in S THEN 1 ELSE 0

ConnTypes ==
  /\ status \in [Conns -> {"new", "backlog", "open", "closed"}]
  /\ owner \in [Conns -> Children \cup {None}]
  /\ sent \in [Conns -> Nat] /\ fin \in [Conns -> BOOLEAN]
  /\ wire \in [Conns -> Seq(Pieces)] /\ buf \in [Conns -> Seq(Pieces)]
  /\ \A c \in Conns : Len(buf[c]) <= BufferSize
  /\ cgi \in [Conns -> {"none", "running", "zombie", "reaped"}]
ParentTypes ==
  /\ ppc \in {"wait", "events", "signals", "done"}
  /\ pedges \cup pbatch \subseteq {"listen", "sig"} /\ psigs \cup ptaken \subseteq {"TERM", "CHLD"}
  /\ alive \subseteq Children /\ sub_process_counter \in Children /\ pstop \in BOOLEAN
  /\ given \in [Children -> Nat] /\ asked \in BOOLEAN /\ crashes \in 0 .. MaxCrashes
ChildTypes ==
  /\ cpc \in [Children -> {"starting", "wait", "events", "zombie", "gone"}]
  /\ cedges \in [Children -> SUBSET (Conns \cup {"pipe", "sig"})]
  /\ cbatch \in [Children -> SUBSET (Conns \cup {"pipe", "sig"})]
  /\ csigs \in [Children -> SUBSET {"TERM", "CHLD"}] /\ cstop \in [Children -> BOOLEAN]
  /\ pipe \in [Children -> Nat]

\* The backlog holds once each who waits.
Lined ==
  /\ backlog \in Seq(Conns) /\ IsInjective(backlog)
  /\ ToSet(backlog) = {c \in Conns : status[c] = "backlog"}
\* A connection is open from the accept to the close, its events are its owner's,
\* and it has a program only when it is closed.
Owned ==
  /\ \A c \in Conns : status[c] = "open" <=> owner[c] # None /\ status[c] # "closed"
  /\ \A c \in Conns : cgi[c] # "none" => status[c] = "closed"
  /\ \A i \in Children, c \in Conns : c \in cedges[i] \cup cbatch[i] => owner[c] = i
\* HandoverCovered without the sizes of one-element sets
Waiting == Cardinality(InPipes) + Bit("listen", pedges) + Bit("listen", pbatch) <= Len(backlog)
Told == \A i \in Children : Bit("pipe", cedges[i]) + Bit("pipe", cbatch[i]) <= pipe[i]
Handed == IsFiniteSet(InPipes) /\ Waiting /\ Told
\* Until a child is reaped, those before the turn have had one connection more.
Turns ==
  alive = Children =>
    \E q \in Nat : \A i \in Children :
      given[i] = IF i < sub_process_counter THEN q + 1 ELSE q
\* The parent counts as alive whom it has not reaped, and stops with none.
Ends ==
  /\ alive = {i \in Children : cpc[i] # "gone"}
  /\ pstop => alive = {}
  /\ ppc = "done" => pstop

Types == ConnTypes /\ ParentTypes /\ ChildTypes
PoolInv == Types /\ Lined /\ Owned /\ Handed /\ Turns /\ Ends

LEMMA Constants ==
  /\ ProcessNumber \in Nat \ {0} /\ None \notin Children /\ Children \subseteq Nat
  /\ None \notin Conns /\ "pipe" \notin Conns /\ "sig" \notin Conns
  /\ Requests \in [Conns -> Seq(Pieces)] /\ BufferSize \in Nat /\ MaxCrashes \in Nat
  /\ 0 \in Children
  BY PoolAssumption DEF PoolAssumption, Children, Pieces

LEMMA BitIs == ASSUME NEW x, NEW S PROVE Cardinality({x} \cap S) = Bit(x, S)
<1>1. CASE x \in S
  <2>1. {x} \cap S = {x}
    BY <1>1
  <2> QED
    BY <1>1, <2>1, FS_Singleton DEF Bit
<1>2. CASE x \notin S
  <2>1. {x} \cap S = {}
    BY <1>2
  <2> QED
    BY <1>2, <2>1, FS_EmptySet DEF Bit
<1> QED
  BY <1>1, <1>2

LEMMA HandoverIs == Waiting /\ Told => HandoverCovered
  BY BitIs DEF Waiting, Told, HandoverCovered

LEMMA TypesGive == Types /\ Lined /\ Owned => TypeOK
  BY DEF Types, Lined, Owned, TypeOK, ConnTypes, ParentTypes, ChildTypes

(* ----------------------------- the turn and the pipes ------------------------ *)

LEMMA ModNumber ==
  ASSUME NEW x \in Children PROVE x % ProcessNumber = x /\ (x + ProcessNumber) % ProcessNumber = x
  BY Constants DEF Children

\* Some natural numbers have a least one.
LEMMA MinExists ==
  ASSUME NEW S \in SUBSET Nat, S # {} PROVE Min(S) \in S /\ \A k \in S : Min(S) <= k
<1>1. PICK x \in S : \A y \in S : ~ (<<y, x>> \in OpToRel(<, Nat))
  BY NatLessThanWellFounded, WFMin
<1>2. ASSUME NEW y \in S PROVE x <= y
  <2>1. x \in Nat /\ y \in Nat /\ <<y, x>> \in Nat \X Nat
    OBVIOUS
  <2>2. <<y, x>> \in OpToRel(<, Nat) <=> y < x
    BY <2>1, Zenon DEF OpToRel
  <2>3. ~ (y < x)
    BY <1>1, <2>2, Zenon
  <2> QED
    BY <2>1, <2>3
<1> QED
  BY <1>2 DEF Min

\* The child whose turn it is has not been reaped; the counter's own, if none has.
LEMMA ChosenAlive ==
  ASSUME alive \subseteq Children, alive # {}, sub_process_counter \in Children
  PROVE  Chosen \in alive /\ (alive = Children => Chosen = sub_process_counter)
<1> DEFINE n == ProcessNumber
           S == {k \in Children : Turn(k) \in alive}
<1>1. n \in Nat \ {0} /\ Children = 0 .. n - 1 /\ S \subseteq Nat
  BY Constants DEF Children
<1>2. S # {}
  <2>1. PICK i \in alive : TRUE
    OBVIOUS
  <2> DEFINE k == IF i >= sub_process_counter THEN i - sub_process_counter
                  ELSE i - sub_process_counter + n
  <2>2. k \in Children /\ (sub_process_counter + k = i \/ sub_process_counter + k = i + n)
    BY <1>1
  <2>3. Turn(k) = i
    BY <2>1, <2>2, ModNumber DEF Turn
  <2> QED
    BY <2>1, <2>2, <2>3
<1>4. Min(S) \in S /\ \A k \in S : Min(S) <= k
  BY <1>1, <1>2, MinExists
<1>5. Chosen \in alive
  BY <1>4 DEF Chosen
<1>6. ASSUME alive = Children PROVE Chosen = sub_process_counter
  <2>1. Turn(0) = sub_process_counter
    BY <1>1, ModNumber DEF Turn
  <2>2. 0 \in S
    BY <1>6, <2>1, <1>1
  <2>3. Min(S) = 0
    BY <1>1, <1>4, <2>2
  <2> QED
    BY <2>1, <2>3 DEF Chosen
<1> QED
  BY <1>5, <1>6

LEMMA InPipe == \A x : x \in InPipes <=> \E i \in Children : \E n \in 1 .. pipe[i] : x = <<i, n>>
  BY DEF InPipes

\* An integer more, or one less, in one pipe.
LEMMA PipeMore ==
  ASSUME IsFiniteSet(InPipes), pipe \in [Children -> Nat], NEW i \in Children,
         pipe' = [pipe EXCEPT ![i] = @ + 1]
  PROVE  IsFiniteSet(InPipes') /\ Cardinality(InPipes') = Cardinality(InPipes) + 1
<1> DEFINE new == <<i, pipe[i] + 1>>
<1>1. InPipes' = UNION {{j} \X (1 .. pipe'[j]) : j \in Children}
  BY DEF InPipes
<1>2. new \notin InPipes
  BY InPipe
<1>3. \A x : x \in InPipes' <=> x \in InPipes \cup {new}
  <2> SUFFICES ASSUME NEW x PROVE x \in InPipes' <=> x \in InPipes \cup {new}
    OBVIOUS
  <2>1. x \in InPipes' <=> \E j \in Children : \E n \in 1 .. pipe'[j] : x = <<j, n>>
    BY <1>1
  <2>2. x \in InPipes <=> \E j \in Children : \E n \in 1 .. pipe[j] : x = <<j, n>>
    BY InPipe
  <2>3. \A j \in Children : pipe'[j] = IF j = i THEN pipe[j] + 1 ELSE pipe[j]
    OBVIOUS
  <2>4. \A j \in Children : pipe[j] \in Nat
    OBVIOUS
  <2> QED
    BY <2>1, <2>2, <2>3, <2>4
<1>4. InPipes' = InPipes \cup {new}
  BY <1>3
<1> QED
  BY <1>2, <1>4, FS_AddElement

LEMMA PipeLess ==
  ASSUME IsFiniteSet(InPipes), pipe \in [Children -> Nat], NEW i \in Children, pipe[i] > 0,
         pipe' = [pipe EXCEPT ![i] = @ - 1]
  PROVE  IsFiniteSet(InPipes') /\ Cardinality(InPipes') = Cardinality(InPipes) - 1
<1> DEFINE old == <<i, pipe[i]>>
<1>1. InPipes' = UNION {{j} \X (1 .. pipe'[j]) : j \in Children}
  BY DEF InPipes
<1>2. old \in InPipes
  BY InPipe
<1>3. \A x : x \in InPipes' <=> x \in InPipes \ {old}
  <2> SUFFICES ASSUME NEW x PROVE x \in InPipes' <=> x \in InPipes \ {old}
    OBVIOUS
  <2>1. x \in InPipes' <=> \E j \in Children : \E n \in 1 .. pipe'[j] : x = <<j, n>>
    BY <1>1
  <2>2. x \in InPipes <=> \E j \in Children : \E n \in 1 .. pipe[j] : x = <<j, n>>
    BY InPipe
  <2>3. \A j \in Children : pipe'[j] = IF j = i THEN pipe[j] - 1 ELSE pipe[j]
    OBVIOUS
  <2>4. \A j \in Children : pipe[j] \in Nat
    OBVIOUS
  <2> QED
    BY <2>1, <2>2, <2>3, <2>4
<1>4. InPipes' = InPipes \ {old}
  BY <1>3
<1> QED
  BY <1>2, <1>4, FS_RemoveElement

LEMMA PipesEmptied ==
  ASSUME IsFiniteSet(InPipes), pipe \in [Children -> Nat], NEW D,
         pipe' = [i \in Children |-> IF i \in D THEN 0 ELSE pipe[i]]
  PROVE  /\ IsFiniteSet(InPipes') /\ Cardinality(InPipes') <= Cardinality(InPipes)
         /\ Cardinality(InPipes) \in Nat /\ Cardinality(InPipes') \in Nat
<1>1. InPipes' = UNION {{j} \X (1 .. pipe'[j]) : j \in Children}
  BY DEF InPipes
<1>2. \A x : x \in InPipes' => x \in InPipes
  BY <1>1, InPipe
<1>3. InPipes' \subseteq InPipes
  BY <1>2
<1> QED
  BY <1>3, FS_Subset, FS_CardinalityType

LEMMA PipesKept == pipe' = pipe => InPipes' = InPipes
  BY DEF InPipes

LEMMA HandedKept ==
  ASSUME Handed, Types, pipe' = pipe, backlog' = backlog,
         Bit("listen", pedges') <= Bit("listen", pedges),
         Bit("listen", pbatch') <= Bit("listen", pbatch),
         \A i \in Children : Bit("pipe", cedges'[i]) + Bit("pipe", cbatch'[i])
                               <= Bit("pipe", cedges[i]) + Bit("pipe", cbatch[i])
  PROVE  Handed'
<1>1. Cardinality(InPipes) \in Nat /\ InPipes' = InPipes /\ Len(backlog) = Len(backlog')
  BY FS_CardinalityType, PipesKept DEF Handed
<1>2. \A x, S : Bit(x, S) \in Nat
  BY DEF Bit
<1>3. IsFiniteSet(InPipes') /\ Waiting'
  <2>1. Len(backlog) \in Int \/ Len(backlog) \notin Int
    OBVIOUS
  <2>2. Cardinality(InPipes') + Bit("listen", pedges') + Bit("listen", pbatch')
          <= Cardinality(InPipes) + Bit("listen", pedges) + Bit("listen", pbatch)
    BY <1>1, <1>2
  <2> QED
    BY <1>1, <1>2, <2>2 DEF Handed, Waiting
<1>4. Told'
  <2> SUFFICES ASSUME NEW i \in Children
               PROVE  Bit("pipe", cedges'[i]) + Bit("pipe", cbatch'[i]) <= pipe'[i]
    BY DEF Told, Bit
  <2>1. Bit("pipe", cedges[i]) + Bit("pipe", cbatch[i]) <= pipe[i] /\ pipe[i] \in Nat
    BY DEF Handed, Told, Types, ChildTypes
  <2> QED
    BY <1>2, <2>1
<1> QED
  BY <1>3, <1>4 DEF Handed

LEMMA TurnsKept == Turns /\ UNCHANGED <<alive, given, sub_process_counter>> => Turns'
  BY DEF Turns

LEMMA EndsKept == Ends /\ UNCHANGED <<alive, cpc, pstop, ppc>> => Ends'
  BY DEF Ends

LEMMA LinedKept == Lined /\ UNCHANGED <<backlog, status>> => Lined'
  BY DEF Lined

(* ------------------------------ the environment ------------------------------ *)

LEMMA PoolInit == Init => PoolInv
<1> SUFFICES ASSUME Init PROVE PoolInv
  OBVIOUS
<1> USE DEF Init
<1>1. <<>> \in Seq(Pieces) /\ <<>> \in Seq(Conns) /\ Len(<<>>) = 0
  BY EmptySeq
<1>2. Types
  BY <1>1, Constants DEF Types, ConnTypes, ParentTypes, ChildTypes
<1>3. Lined
  BY <1>1 DEF Lined, IsInjective, ToSet
<1>4. Owned
  BY DEF Owned
<1>5. Handed
  <2>1. InPipes = {}
    BY Constants, InPipe
  <2>2. IsFiniteSet(InPipes) /\ Cardinality(InPipes) = 0
    BY <2>1, FS_EmptySet
  <2> QED
    BY <1>1, <2>2, Constants DEF Handed, Waiting, Told, Bit
<1>6. Turns
  <2>1. \A i \in Children : given[i] = IF i < sub_process_counter THEN 0 + 1 ELSE 0
    BY Constants DEF Children
  <2> QED
    BY <2>1 DEF Turns
<1>7. Ends
  BY DEF Ends
<1> QED
  BY <1>2, <1>3, <1>4, <1>5, <1>6, <1>7 DEF PoolInv

LEMMA PoolConnect == ASSUME PoolInv, NEW c \in Conns, Connect(c) PROVE PoolInv'
<1> USE DEF PoolInv, Types
<1>1. UNCHANGED <<owner, sent, wire, fin, buf, cgi, parentVars, psigs, childVars, cedges, csigs,
                  pipe>>
  BY DEF Connect
<1>2. /\ status[c] = "new" /\ status' = [status EXCEPT ![c] = "backlog"]
      /\ backlog' = Append(backlog, c) /\ pedges' = pedges \cup {"listen"}
  BY DEF Connect
<1>3. backlog \in Seq(Conns) /\ Len(backlog) \in Nat /\ DOMAIN backlog = 1 .. Len(backlog)
  BY LenProperties DEF Lined
<1>4. /\ backlog' \in Seq(Conns) /\ Len(backlog') = Len(backlog) + 1
      /\ backlog'[Len(backlog) + 1] = c
      /\ \A k \in 1 .. Len(backlog) : backlog'[k] = backlog[k]
      /\ DOMAIN backlog' = 1 .. Len(backlog) + 1
  BY <1>2, <1>3, AppendProperties, LenProperties
<1>5. Types'
  BY <1>1, <1>2 DEF parentVars, childVars, ConnTypes, ParentTypes, ChildTypes
<1>6. Lined'
  <2>1. \A k \in 1 .. Len(backlog) : backlog[k] # c
    BY <1>2, <1>3 DEF Lined, ToSet
  <2>2. IsInjective(backlog')
    BY <1>3, <1>4, <2>1 DEF Lined, IsInjective
  <2>3. ToSet(backlog') = ToSet(backlog) \cup {c}
    BY <1>3, <1>4 DEF ToSet
  <2> QED
    BY <1>2, <1>4, <2>2, <2>3 DEF Lined, ConnTypes
<1>7. Owned'
  BY <1>1, <1>2 DEF Owned, ConnTypes, childVars
<1>8. Handed'
  <2>1. InPipes' = InPipes /\ Cardinality(InPipes) \in Nat
    BY <1>1, PipesKept, FS_CardinalityType DEF Handed
  <2> QED
    BY <1>1, <1>2, <1>3, <1>4, <2>1 DEF Handed, Waiting, Told, Bit, parentVars, childVars
<1>9. Turns' /\ Ends'
  BY <1>1, TurnsKept, EndsKept DEF parentVars, childVars
<1> QED
  BY <1>5, <1>6, <1>7, <1>8, <1>9

\* Data or the end of a stream are an event of the owner.
LEMMA PoolClient == ASSUME PoolInv, NEW c \in Conns, Send(c) \/ Leave(c) PROVE PoolInv'
<1> USE DEF PoolInv, Types
<1>1. UNCHANGED <<status, owner, buf, cgi, backlog, parentVars, pedges, psigs, childVars, csigs, pipe>>
  BY DEF Send, Leave
<1>2. cedges' = [i \in Children |->
                   cedges[i] \cup (IF status[c] = "open" /\ owner[c] = i THEN {c} ELSE {})]
  BY DEF Send, Leave, Edge
<1>3. ConnTypes'
  <2>1. CASE Send(c)
    <3>1. /\ sent' = [sent EXCEPT ![c] = @ + 1] /\ fin' = fin /\ sent[c] < Len(Requests[c])
          /\ wire' = [wire EXCEPT ![c] = Append(@, Requests[c][sent[c] + 1])]
      BY <2>1 DEF Send
    <3>2. Requests[c] \in Seq(Pieces) /\ sent[c] \in Nat /\ wire[c] \in Seq(Pieces)
      BY Constants DEF ConnTypes
    <3>3. Requests[c][sent[c] + 1] \in Pieces
      BY <3>1, <3>2, ElementOfSeq, LenProperties
    <3>4. Append(wire[c], Requests[c][sent[c] + 1]) \in Seq(Pieces)
      BY <3>2, <3>3, AppendProperties
    <3> QED
      BY <1>1, <3>1, <3>4 DEF ConnTypes
  <2>2. CASE Leave(c)
    BY <1>1, <2>2 DEF Leave, ConnTypes
  <2> QED
    BY <2>1, <2>2
<1>4. ParentTypes' /\ ChildTypes'
  BY <1>1, <1>2 DEF parentVars, childVars, ParentTypes, ChildTypes
<1>5. Owned'
  BY <1>1, <1>2 DEF Owned, childVars
<1>6. Handed'
  <2>1. \A i \in Children : Bit("pipe", cedges'[i]) = Bit("pipe", cedges[i])
    BY <1>2, Constants DEF Bit
  <2>2. pbatch' = pbatch /\ cbatch' = cbatch
    BY <1>1 DEF parentVars, childVars
  <2>3. \A x, S : Bit(x, S) \in Nat
    BY DEF Bit
  <2> QED
    BY <1>1, <2>1, <2>2, <2>3, HandedKept
<1>7. Lined' /\ Turns' /\ Ends'
  BY <1>1, LinedKept, TurnsKept, EndsKept DEF parentVars, childVars
<1> QED
  BY <1>3, <1>4, <1>5, <1>6, <1>7

\* SIGTERM arrives, or the parent goes through its loop.
LEMMA PoolLoop ==
  ASSUME PoolInv, Terminate \/ EpollWait \/ BatchDone \/ TakeSignals PROVE PoolInv'
<1> USE DEF PoolInv, Types
<1>1. UNCHANGED <<connVars, backlog, alive, sub_process_counter, pstop, given, cpc, cbatch, cstop,
                  crashes, cedges, csigs, pipe>>
  BY DEF Terminate, EpollWait, BatchDone, TakeSignals, parentVars, childVars
<1>2. ConnTypes' /\ ChildTypes' /\ Lined' /\ Owned'
  BY <1>1, LinedKept DEF connVars, ConnTypes, ChildTypes, Owned
<1>3. /\ ParentTypes' /\ (ppc' = "done" => ppc = "done" \/ pstop)
      /\ Bit("listen", pedges') + Bit("listen", pbatch')
           <= Bit("listen", pedges) + Bit("listen", pbatch)
  <2>1. CASE Terminate
    BY <1>1, <2>1 DEF Terminate, Raise, parentVars, ParentTypes, Bit
  <2>2. CASE EpollWait
    BY <1>1, <2>2 DEF EpollWait, childVars, ParentTypes, Bit
  <2>3. CASE BatchDone
    BY <1>1, <2>3 DEF BatchDone, childVars, ParentTypes, Bit
  <2>4. CASE TakeSignals
    BY <1>1, <2>4 DEF TakeSignals, Dispatch, childVars, ParentTypes, Bit
  <2> QED
    BY <2>1, <2>2, <2>3, <2>4
<1>4. Handed'
  <2>1. InPipes' = InPipes /\ Cardinality(InPipes) \in Nat
    BY <1>1, PipesKept, FS_CardinalityType DEF Handed
  <2>2. \A x, S : Bit(x, S) \in Nat
    BY DEF Bit
  <2>3. Len(backlog) \in Nat
    BY LenProperties DEF Lined
  <2>4. Waiting'
    <3>1. Cardinality(InPipes') = Cardinality(InPipes) /\ Len(backlog') = Len(backlog)
      BY <1>1, <2>1
    <3>2. Cardinality(InPipes) + Bit("listen", pedges) + Bit("listen", pbatch) <= Len(backlog)
      BY DEF Handed, Waiting
    <3>3. Cardinality(InPipes') + Bit("listen", pedges') + Bit("listen", pbatch') <= Len(backlog')
      BY <1>3, <2>1, <2>2, <2>3, <3>1, <3>2
    <3> QED
      BY <3>3 DEF Waiting, Bit
  <2> QED
    BY <1>1, <2>1, <2>4 DEF Handed, Told, Bit
<1>5. Turns' /\ Ends'
  BY <1>1, <1>3, TurnsKept DEF Ends
<1> QED
  BY <1>2, <1>3, <1>4, <1>5

(* -------------------------------- run_parent --------------------------------- *)

\* The child whose turn it is gets one integer for the event that is gone.
LEMMA PoolListen == ASSUME PoolInv, Listen PROVE PoolInv'
<1> USE DEF PoolInv, Types
<1> DEFINE i == Chosen
<1>1. UNCHANGED <<connVars, backlog, ppc, ptaken, alive, pstop, pedges, psigs, childVars, csigs>>
  BY DEF Listen
<1>2. /\ alive # {} /\ "listen" \in pbatch /\ pbatch' = pbatch \ {"listen"}
      /\ sub_process_counter' = (i + 1) % ProcessNumber /\ given' = [given EXCEPT ![i] = @ + 1]
  BY DEF Listen, Dispatch, SendNewConn
<1>3. IF cpc[i] = "zombie" THEN pipe' = pipe /\ cedges' = cedges
      ELSE /\ pipe' = [pipe EXCEPT ![i] = @ + 1]
           /\ cedges' = [cedges EXCEPT ![i] = @ \cup {"pipe"}]
  BY DEF Listen, SendNewConn
<1>4. i \in Children /\ (alive = Children => i = sub_process_counter)
  BY <1>2, ChosenAlive DEF ParentTypes
<1> HIDE DEF i
<1>5. ProcessNumber \in Nat \ {0} /\ i \in Nat /\ i < ProcessNumber
  BY <1>4, Constants DEF Children
<1>6. sub_process_counter' = IF i + 1 = ProcessNumber THEN 0 ELSE i + 1
  <2>1. CASE i + 1 = ProcessNumber
    BY <1>2, <1>5, <2>1, Constants, ModNumber DEF Children
  <2>2. CASE i + 1 # ProcessNumber
    <3>1. i + 1 \in Children
      BY <1>5, <2>2 DEF Children
    <3> QED
      BY <1>2, <2>2, <3>1, ModNumber
  <2> QED
    BY <2>1, <2>2
<1>7. sub_process_counter' \in Children
  BY <1>5, <1>6 DEF Children
<1>8. ConnTypes' /\ Lined'
  BY <1>1, LinedKept DEF connVars, ConnTypes
<1>9. ParentTypes' /\ ChildTypes'
  BY <1>1, <1>2, <1>3, <1>4, <1>7 DEF childVars, ParentTypes, ChildTypes
<1>10. Owned'
  <2>1. \A j \in Children, c \in Conns : c \in cedges'[j] => c \in cedges[j]
    <3>1. \A j \in Children : cedges'[j] \in {cedges[j], cedges[j] \cup {"pipe"}}
      BY <1>3, <1>4 DEF ChildTypes
    <3> QED
      BY <3>1, Constants
  <2> QED
    BY <1>1, <2>1 DEF Owned, connVars, childVars
<1>11. Handed'
  <2>1. Cardinality(InPipes) \in Nat /\ Len(backlog) \in Nat
    BY FS_CardinalityType, LenProperties DEF Handed, Lined
  <2>2. Bit("listen", pbatch) = 1 /\ Bit("listen", pbatch') = 0 /\ pedges' = pedges
        /\ Bit("listen", pedges) \in Nat
    BY <1>1, <1>2 DEF Bit
  <2>3. IsFiniteSet(InPipes') /\ Cardinality(InPipes') \in Nat
        /\ Cardinality(InPipes') <= Cardinality(InPipes) + 1
    <3>1. CASE pipe' = pipe
      BY <2>1, <3>1, PipesKept DEF Handed
    <3>2. CASE pipe' = [pipe EXCEPT ![i] = @ + 1]
      <4>1. IsFiniteSet(InPipes) /\ pipe \in [Children -> Nat]
        BY DEF Handed, ChildTypes
      <4>2. IsFiniteSet(InPipes') /\ Cardinality(InPipes') = Cardinality(InPipes) + 1
        BY <1>4, <3>2, <4>1, PipeMore
      <4> QED
        BY <2>1, <4>2
    <3> QED
      BY <1>3, <3>1, <3>2
  <2>4. Waiting'
    <3>1. Cardinality(InPipes) + Bit("listen", pedges) + 1 <= Len(backlog)
      BY <2>2 DEF Handed, Waiting
    <3>2. Cardinality(InPipes') + Bit("listen", pedges') + 0 <= Len(backlog')
      BY <1>1, <2>1, <2>2, <2>3, <3>1
    <3> QED
      BY <2>2, <3>2 DEF Waiting, Bit
  <2>5. Told'
    <3>1. cbatch' = cbatch
      BY <1>1 DEF childVars
    <3>2. \A j \in Children : pipe[j] \in Nat /\ Bit("pipe", cedges[j]) + Bit("pipe", cbatch[j]) <= pipe[j]
      BY DEF Handed, Told, ChildTypes
    <3> QED
      BY <1>3, <1>4, <3>1, <3>2 DEF Told, Bit, ChildTypes
  <2> QED
    BY <2>3, <2>4, <2>5 DEF Handed
<1>12. Turns'
  <2> SUFFICES ASSUME alive' = Children
               PROVE  \E q \in Nat : \A j \in Children :
                        given'[j] = IF j < sub_process_counter' THEN q + 1 ELSE q
    BY DEF Turns
  <2>1. i = sub_process_counter /\ given \in [Children -> Nat]
    BY <1>1, <1>4 DEF ParentTypes
  <2>2. PICK q \in Nat : \A j \in Children : given[j] = IF j < sub_process_counter THEN q + 1 ELSE q
    BY <1>1 DEF Turns
  <2>3. \A j \in Children : j \in Nat /\ j < ProcessNumber
    BY <1>5 DEF Children
  <2>4. \A j \in Children : given'[j] = IF j <= i THEN q + 1 ELSE q
    BY <1>2, <1>4, <1>5, <2>1, <2>2, <2>3
  <2>5. CASE i + 1 = ProcessNumber
    <3>1. \A j \in Children : given'[j] = IF j < sub_process_counter' THEN (q + 1) + 1 ELSE q + 1
      BY <1>5, <1>6, <2>3, <2>4, <2>5
    <3> QED
      BY <2>2, <3>1
  <2>6. CASE i + 1 # ProcessNumber
    <3>1. \A j \in Children : given'[j] = IF j < sub_process_counter' THEN q + 1 ELSE q
      BY <1>5, <1>6, <2>3, <2>4, <2>6
    <3> QED
      BY <2>2, <3>1
  <2> QED
    BY <2>5, <2>6
<1>13. Ends'
  BY <1>1, EndsKept DEF childVars
<1> QED
  BY <1>8, <1>9, <1>10, <1>11, <1>12, <1>13

LEMMA PoolListenNoChild == ASSUME PoolInv, ListenNoChild PROVE PoolInv'
<1> USE DEF PoolInv, Types
<1>1. UNCHANGED <<connVars, backlog, ppc, ptaken, alive, sub_process_counter, given, pedges, psigs,
                  childVars, cedges, csigs, pipe>>
  BY DEF ListenNoChild
<1>2. alive = {} /\ ppc = "events" /\ pbatch' = {} /\ pstop' = TRUE
  BY DEF ListenNoChild
<1>3. Types'
  BY <1>1, <1>2 DEF connVars, childVars, ConnTypes, ParentTypes, ChildTypes
<1>4. Handed'
  <2>1. \A x, S : Bit(x, S) \in Nat /\ Bit(x, {}) = 0
    BY DEF Bit
  <2> QED
    BY <1>1, <1>2, <2>1, HandedKept DEF childVars
<1>5. Lined' /\ Owned' /\ Turns' /\ Ends'
  BY <1>1, <1>2, LinedKept, TurnsKept DEF connVars, childVars, Owned, Ends
<1> QED
  BY <1>3, <1>4, <1>5

\* waitpid takes the children that have ended out of the table.
LEMMA PoolChld == ASSUME PoolInv, HandleChld PROVE PoolInv'
<1> USE DEF PoolInv, Types
<1>1. UNCHANGED <<connVars, backlog, pbatch, sub_process_counter, given, pedges, psigs, cbatch,
                  cstop, crashes, asked, cedges, csigs, pipe>>
  BY DEF HandleChld, Reap
<1>2. /\ alive' = {i \in alive : cpc[i] # "zombie"} /\ pstop' = (alive' = {})
      /\ cpc' = [i \in Children |-> IF cpc[i] = "zombie" THEN "gone" ELSE cpc[i]]
  BY DEF HandleChld, Reap
<1>3. ptaken' \subseteq ptaken /\ ppc' \in {"events", "signals"}
  BY DEF HandleChld, Reap, Handled
<1>4. ConnTypes' /\ ChildTypes' /\ Lined' /\ Owned'
  BY <1>1, <1>2, LinedKept DEF connVars, ConnTypes, ChildTypes, Owned
<1>5. ParentTypes'
  BY <1>1, <1>2, <1>3 DEF ParentTypes
<1>6. Handed'
  BY <1>1, HandedKept DEF Bit
<1>7. Turns'
  <2> SUFFICES ASSUME alive' = Children PROVE Turns'
    BY DEF Turns
  <2>1. alive = Children
    BY <1>2 DEF ParentTypes
  <2> QED
    BY <1>1, <2>1 DEF Turns
<1>8. Ends'
  BY <1>2, <1>3 DEF Ends, ChildTypes
<1> QED
  BY <1>4, <1>5, <1>6, <1>7, <1>8

(* ---------------------------- the end of a child ----------------------------- *)

\* Children end, others are told to: no connection of theirs, no integer and no
\* event stays behind.
LEMMA EndKeeps ==
  ASSUME PoolInv, NEW D \in SUBSET Children, NEW K \in SUBSET Children, End(D, K),
         \A i \in D : cpc[i] # "gone",
         UNCHANGED <<pbatch, alive>>, ppc' \in {ppc, "events", "signals"},
         ptaken' \subseteq ptaken, asked' = asked, crashes' \in 0 .. MaxCrashes
  PROVE  PoolInv'
<1> USE DEF PoolInv, Types
<1> DEFINE theirs == {c \in Conns : owner[c] \in D}
<1>1. /\ cpc' = [i \in Children |-> IF i \in D THEN "zombie" ELSE cpc[i]]
      /\ cbatch' = [i \in Children |-> IF i \in D THEN {} ELSE cbatch[i]]
      /\ pipe' = [i \in Children |-> IF i \in D THEN 0 ELSE pipe[i]]
      /\ cedges' = [i \in Children |-> IF i \in D THEN {} ELSE
                                       IF i \in K THEN cedges[i] \cup {"sig"} ELSE cedges[i]]
      /\ csigs' = [i \in Children |-> IF i \in D THEN {} ELSE
                                      IF i \in K THEN csigs[i] \cup {"TERM"} ELSE csigs[i]]
  BY DEF End
<1>2. /\ status' = [c \in Conns |-> IF c \in theirs THEN "closed" ELSE status[c]]
      /\ wire' = [c \in Conns |-> IF c \in theirs THEN <<>> ELSE wire[c]]
      /\ buf' = [c \in Conns |-> IF c \in theirs THEN <<>> ELSE buf[c]]
      /\ cgi' = [c \in Conns |-> IF c \in theirs /\ cgi[c] = "zombie" THEN "reaped" ELSE cgi[c]]
      /\ UNCHANGED <<owner, sent, fin, backlog, sub_process_counter, pstop, given, cstop>>
  BY DEF End
<1>3. psigs' \subseteq psigs \cup {"CHLD"} /\ pedges' \in {pedges, pedges \cup {"sig"}}
  <2>1. CASE D = {}
    <3>1. UNCHANGED <<psigs, pedges>>
      BY <2>1 DEF End
    <3> QED
      BY <3>1
  <2>2. CASE D # {}
    <3>1. psigs' = psigs \cup {"CHLD"} /\ pedges' = pedges \cup {"sig"}
      BY <2>2 DEF End, Raise
    <3> QED
      BY <3>1
  <2> QED
    BY <2>1, <2>2
<1>4. \A c \in theirs : status[c] # "backlog" /\ c \in Conns /\ owner[c] # None
  BY Constants DEF Owned
<1>5. \A c \in Conns : c \in theirs <=> owner[c] \in D
  OBVIOUS
<1> HIDE DEF theirs
<1>6. <<>> \in Seq(Pieces) /\ Len(<<>>) = 0 /\ 0 <= BufferSize
  BY EmptySeq, Constants
<1>7. ConnTypes'
  <2>1. wire' \in [Conns -> Seq(Pieces)] /\ buf' \in [Conns -> Seq(Pieces)]
    BY <1>2, <1>6 DEF ConnTypes
  <2>2. \A c \in Conns : Len(buf'[c]) <= BufferSize
    BY <1>2, <1>6 DEF ConnTypes
  <2> QED
    BY <1>2, <2>1, <2>2 DEF ConnTypes
<1>8. ParentTypes'
  BY <1>2, <1>3 DEF ParentTypes
<1>9. ChildTypes'
  BY <1>1, <1>2 DEF ChildTypes
<1>10. Lined'
  <2>1. \A c \in Conns : status'[c] = "backlog" <=> status[c] = "backlog"
    BY <1>2, <1>4
  <2>2. {c \in Conns : status'[c] = "backlog"} = {c \in Conns : status[c] = "backlog"}
    BY <2>1
  <2> QED
    BY <1>2, <2>2 DEF Lined
<1>11. Owned'
  <2>1. \A i \in Children, c \in Conns : c \in cedges'[i] \cup cbatch'[i] => c \in cedges[i] \cup cbatch[i]
    <3>1. \A i \in Children : /\ cedges'[i] \in {{}, cedges[i], cedges[i] \cup {"sig"}}
                              /\ cbatch'[i] \in {{}, cbatch[i]}
      BY <1>1
    <3> QED
      BY <3>1, Constants
  <2>2. \A c \in Conns : status'[c] = "open" <=> owner'[c] # None /\ status'[c] # "closed"
    BY <1>2, <1>4 DEF Owned
  <2>3. \A c \in Conns : cgi'[c] # "none" => status'[c] = "closed"
    BY <1>2 DEF Owned
  <2> QED
    BY <1>2, <2>1, <2>2, <2>3 DEF Owned
<1>12. Handed'
  <2>1. /\ IsFiniteSet(InPipes') /\ Cardinality(InPipes') <= Cardinality(InPipes)
        /\ Cardinality(InPipes) \in Nat /\ Cardinality(InPipes') \in Nat
    <3>1. IsFiniteSet(InPipes) /\ pipe \in [Children -> Nat]
      BY DEF Handed, ChildTypes
    <3> QED
      BY <1>1, <3>1, PipesEmptied
  <2>2. Waiting'
    <3>1. Bit("listen", pedges') = Bit("listen", pedges) /\ Bit("listen", pbatch') = Bit("listen", pbatch)
      BY <1>3 DEF Bit
    <3>2. Cardinality(InPipes) + Bit("listen", pedges) + Bit("listen", pbatch) <= Len(backlog)
          /\ Len(backlog) \in Nat /\ Len(backlog') = Len(backlog)
          /\ Bit("listen", pedges) \in Nat /\ Bit("listen", pbatch) \in Nat
      BY <1>2, LenProperties DEF Handed, Waiting, Lined, Bit
    <3>3. Cardinality(InPipes') + Bit("listen", pedges') + Bit("listen", pbatch') <= Len(backlog')
      BY <2>1, <3>1, <3>2
    <3> QED
      BY <3>3 DEF Waiting, Bit
  <2>3. Told'
    <3> SUFFICES ASSUME NEW i \in Children
                 PROVE  Bit("pipe", cedges'[i]) + Bit("pipe", cbatch'[i]) <= pipe'[i]
      BY DEF Told, Bit
    <3>1. CASE i \in D
      BY <1>1, <3>1 DEF Bit
    <3>2. CASE i \notin D
      <4>1. pipe'[i] = pipe[i] /\ cbatch'[i] = cbatch[i]
            /\ cedges'[i] \in {cedges[i], cedges[i] \cup {"sig"}}
        BY <1>1, <3>2
      <4> QED
        BY <4>1 DEF Handed, Told, Bit
    <3> QED
      BY <3>1, <3>2
  <2> QED
    BY <2>1, <2>2, <2>3 DEF Handed
<1>13. Turns'
  BY <1>2, TurnsKept
<1>14. Ends'
  <2>1. \A i \in Children : cpc'[i] = "gone" <=> cpc[i] = "gone"
    BY <1>1
  <2>2. {i \in Children : cpc'[i] # "gone"} = {i \in Children : cpc[i] # "gone"}
    BY <2>1
  <2> QED
    BY <1>2, <2>2 DEF Ends
<1> QED
  BY <1>7, <1>8, <1>9, <1>10, <1>11, <1>12, <1>13, <1>14

LEMMA PoolTerm == ASSUME PoolInv, HandleTerm PROVE PoolInv'
<1> DEFINE D == {i \in alive : cpc[i] = "starting"}
           K == {i \in alive : cpc[i] \in {"wait", "events"}}
<1>1. /\ End(D, K) /\ UNCHANGED <<pbatch, alive, crashes, asked>>
      /\ ptaken' \subseteq ptaken /\ ppc' \in {"events", "signals"}
  BY DEF HandleTerm, KillAll, Handled
<1>2. /\ D \subseteq Children /\ K \subseteq Children /\ crashes' \in 0 .. MaxCrashes
      /\ \A i \in D : cpc[i] # "gone"
  BY <1>1 DEF PoolInv, Types, ParentTypes
<1> HIDE DEF D, K
<1> QED
  BY <1>1, <1>2, EndKeeps

LEMMA PoolEnds == ASSUME PoolInv, NEW i \in Children, Crash(i) \/ ChildStops(i) PROVE PoolInv'
<1>1. /\ End({i}, {}) /\ UNCHANGED <<ppc, pbatch, ptaken, alive, asked>> /\ cpc[i] # "gone"
      /\ crashes' = crashes \/ (crashes < MaxCrashes /\ crashes' = crashes + 1)
  BY DEF Crash, ChildStops
<1>2. crashes' \in 0 .. MaxCrashes
  BY <1>1, Constants DEF PoolInv, Types, ParentTypes
<1>3. {i} \in SUBSET Children /\ {} \in SUBSET Children /\ \A j \in {i} : cpc[j] # "gone"
  BY <1>1
<1> QED
  BY <1>1, <1>2, <1>3, EndKeeps

(* --------------------------------- run_child --------------------------------- *)

\* The steps of a child that only move it through its loop.
LEMMA PoolChildLoop ==
  ASSUME PoolInv, NEW i \in Children, Setup(i) \/ ChildWait(i) \/ ChildBatchDone(i)
  PROVE  PoolInv'
<1> USE DEF PoolInv, Types
<1>1. UNCHANGED <<connVars, backlog, parentVars, pedges, psigs, cstop, crashes, asked, csigs, pipe>>
  BY DEF Setup, ChildWait, ChildBatchDone
<1>2. /\ cpc[i] # "gone"
      /\ cpc' = [cpc EXCEPT ![i] = "wait"] \/ cpc' = [cpc EXCEPT ![i] = "events"]
  BY DEF Setup, ChildWait, ChildBatchDone
<1>3. \/ UNCHANGED <<cedges, cbatch>>
      \/ /\ cbatch' = [cbatch EXCEPT ![i] = Reported(i)] /\ Reported(i) \subseteq cedges[i]
         /\ cedges' = [cedges EXCEPT ![i] = {}]
  BY DEF Setup, ChildWait, ChildBatchDone, Reported
<1>4. cpc' \in [Children -> {"starting", "wait", "events", "zombie", "gone"}]
      /\ \A j \in Children : cpc'[j] = "gone" <=> cpc[j] = "gone"
  BY <1>2 DEF ChildTypes
<1>5. \A j \in Children :
        /\ cedges'[j] \subseteq cedges[j] /\ cbatch'[j] \subseteq cbatch[j] \cup cedges[j]
        /\ Bit("pipe", cedges'[j]) + Bit("pipe", cbatch'[j])
             <= Bit("pipe", cedges[j]) + Bit("pipe", cbatch[j])
  BY <1>3 DEF ChildTypes, Bit
<1>6. ConnTypes' /\ ParentTypes'
  BY <1>1 DEF connVars, parentVars, ConnTypes, ParentTypes
<1>7. ChildTypes'
  <2>1. \A j \in Children : cedges[j] \in SUBSET (Conns \cup {"pipe", "sig"})
                         /\ cbatch[j] \in SUBSET (Conns \cup {"pipe", "sig"})
    BY DEF ChildTypes
  <2>2. /\ cedges' \in [Children -> SUBSET (Conns \cup {"pipe", "sig"})]
        /\ cbatch' \in [Children -> SUBSET (Conns \cup {"pipe", "sig"})]
    BY <1>3, <2>1 DEF ChildTypes
  <2> QED
    BY <1>1, <1>4, <2>2 DEF ChildTypes
<1>8. Owned'
  BY <1>1, <1>5 DEF Owned, connVars
<1>9. Handed'
  <2>1. pbatch' = pbatch /\ Bit("listen", pbatch) \in Nat /\ Bit("listen", pedges) \in Nat
    BY <1>1 DEF parentVars, Bit
  <2> QED
    BY <1>1, <1>5, <2>1, HandedKept
<1>10. Lined' /\ Turns'
  BY <1>1, LinedKept, TurnsKept DEF connVars, parentVars
<1>11. Ends'
  BY <1>1, <1>4 DEF Ends, parentVars
<1> QED
  BY <1>6, <1>7, <1>8, <1>9, <1>10, <1>11

LEMMA PoolChildSignals == ASSUME PoolInv, NEW i \in Children, ChildSignals(i) PROVE PoolInv'
<1> USE DEF PoolInv, Types
<1>1. UNCHANGED <<status, owner, sent, wire, fin, buf, backlog, parentVars, pedges, psigs, cpc,
                  crashes, asked, cedges, pipe>>
  BY DEF ChildSignals
<1>2. /\ cbatch' = [cbatch EXCEPT ![i] = @ \ {"sig"}] /\ csigs' = [csigs EXCEPT ![i] = {}]
      /\ cstop' = [cstop EXCEPT ![i] = @ \/ "TERM" \in csigs[i]]
  BY DEF ChildSignals, ChildDispatch
<1>3. /\ cgi' \in [Conns -> {"none", "running", "zombie", "reaped"}]
      /\ \A c \in Conns : cgi'[c] # "none" => cgi[c] # "none"
  BY DEF ChildSignals, Collected, ConnTypes
<1>4. cstop' \in [Children -> BOOLEAN]
  BY <1>2, Zenon DEF ChildTypes
<1>5. ConnTypes' /\ ParentTypes' /\ ChildTypes'
  BY <1>1, <1>2, <1>3, <1>4 DEF parentVars, ConnTypes, ParentTypes, ChildTypes
<1>6. Owned'
  BY <1>1, <1>2, <1>3 DEF Owned, ChildTypes
<1>7. Handed'
  BY <1>1, <1>2, HandedKept DEF parentVars, ChildTypes, Bit
<1>8. Lined' /\ Turns' /\ Ends'
  BY <1>1, LinedKept, TurnsKept, EndsKept DEF parentVars
<1> QED
  BY <1>5, <1>6, <1>7, <1>8

\* A child that finds its integer takes the connection that waited longest.
LEMMA PoolAccept == ASSUME PoolInv, NEW i \in Children, ChildAccept(i) PROVE PoolInv'
<1> USE DEF PoolInv, Types
<1>1. UNCHANGED <<sent, wire, fin, buf, cgi, parentVars, pedges, psigs, cpc, cstop, crashes, asked,
                  csigs>>
  BY DEF ChildAccept
<1>2. /\ "pipe" \in cbatch[i] /\ cbatch' = [cbatch EXCEPT ![i] = @ \ {"pipe"}]
      /\ pipe[i] > 0 /\ pipe' = [pipe EXCEPT ![i] = @ - 1]
  BY DEF ChildAccept, ChildDispatch
<1>3. /\ IsFiniteSet(InPipes') /\ Cardinality(InPipes') = Cardinality(InPipes) - 1
      /\ Cardinality(InPipes) \in Nat
  <2>1. IsFiniteSet(InPipes) /\ pipe \in [Children -> Nat]
    BY DEF Handed, ChildTypes
  <2> QED
    BY <1>2, <2>1, PipeLess, FS_CardinalityType
<1>4. backlog \in Seq(Conns) /\ Len(backlog) \in Nat /\ DOMAIN backlog = 1 .. Len(backlog)
  BY LenProperties DEF Lined
<1>5. backlog # <<>>
  <2>1. Len(backlog) >= 1
    <3>1. /\ Cardinality(InPipes) + Bit("listen", pedges) + Bit("listen", pbatch) <= Len(backlog)
          /\ Bit("listen", pedges) \in Nat /\ Bit("listen", pbatch) \in Nat
      BY DEF Handed, Waiting, Bit
    <3>2. Cardinality(InPipes') \in Nat
      BY <1>3, FS_CardinalityType
    <3> QED
      BY <1>3, <1>4, <3>1, <3>2
  <2> QED
    BY <2>1, EmptySeq
<1> DEFINE c == Head(backlog)
<1>6. /\ backlog' = Tail(backlog)
      /\ status' = [status EXCEPT ![c] = "open"] /\ owner' = [owner EXCEPT ![c] = i]
      /\ cedges' = [cedges EXCEPT ![i] = @ \cup {c}]
  BY <1>5 DEF ChildAccept
<1>7. /\ c = backlog[1] /\ c \in Conns /\ Len(backlog) >= 1
      /\ backlog' \in Seq(Conns) /\ Len(backlog') = Len(backlog) - 1
      /\ DOMAIN backlog' = 1 .. Len(backlog) - 1
      /\ \A k \in 1 .. Len(backlog) - 1 : backlog'[k] = backlog[k + 1]
  BY <1>4, <1>5, <1>6, HeadTailProperties, LenProperties, EmptySeq
<1>8. status[c] = "backlog"
  BY <1>4, <1>7 DEF Lined, ToSet
<1>9. owner[c] = None /\ cgi[c] = "none"
  BY <1>7, <1>8 DEF Owned
<1> HIDE DEF c
<1>10. ConnTypes' /\ ParentTypes'
  BY <1>1, <1>6 DEF parentVars, ConnTypes, ParentTypes
<1>11. ChildTypes'
  <2>1. pipe' \in [Children -> Nat]
    BY <1>2 DEF ChildTypes
  <2> QED
    BY <1>1, <1>2, <1>6, <1>7, <2>1 DEF ChildTypes
<1>12. Lined'
  <2>1. IsInjective(backlog')
    BY SMTT(30), <1>4, <1>7 DEF Lined, IsInjective
  <2>2. \A k \in 1 .. Len(backlog) - 1 : backlog'[k] # c
    BY <1>4, <1>7 DEF Lined, IsInjective
  <2>3. ToSet(backlog') = ToSet(backlog) \ {c}
    <3>1. \A d : d \in ToSet(backlog) /\ d # c => d \in ToSet(backlog')
      <4> SUFFICES ASSUME NEW k \in 1 .. Len(backlog), backlog[k] # c
                   PROVE  backlog[k] \in ToSet(backlog')
        BY <1>4 DEF ToSet
      <4>1. k - 1 \in 1 .. Len(backlog) - 1 /\ backlog'[k - 1] = backlog[k]
        BY <1>4, <1>7
      <4> QED
        BY <1>7, <4>1 DEF ToSet
    <3>2. \A d : d \in ToSet(backlog') => d \in ToSet(backlog) /\ d # c
      <4> SUFFICES ASSUME NEW k \in 1 .. Len(backlog) - 1
                   PROVE  backlog'[k] \in ToSet(backlog) /\ backlog'[k] # c
        BY <1>7 DEF ToSet
      <4>1. k + 1 \in 1 .. Len(backlog) /\ backlog'[k] = backlog[k + 1]
        BY <1>4, <1>7
      <4> QED
        BY <1>4, <2>2, <4>1 DEF ToSet
    <3> QED
      BY <3>1, <3>2
  <2>4. \A d \in Conns : status'[d] = "backlog" <=> status[d] = "backlog" /\ d # c
    BY <1>6, <1>7 DEF ConnTypes
  <2> QED
    BY <1>7, <2>1, <2>3, <2>4 DEF Lined
<1>13. Owned'
  <2>1. \A d \in Conns : status'[d] = "open" <=> owner'[d] # None /\ status'[d] # "closed"
    BY <1>6, <1>7, Constants DEF Owned, ConnTypes
  <2>2. \A d \in Conns : cgi'[d] # "none" => status'[d] = "closed"
    BY <1>1, <1>6, <1>7, <1>9 DEF Owned, ConnTypes
  <2>3. ASSUME NEW j \in Children, NEW d \in Conns, d \in cedges'[j] \cup cbatch'[j]
        PROVE  owner'[d] = j
    <3>1. d \in cedges[j] \cup cbatch[j] \/ (j = i /\ d = c)
      BY <1>2, <1>6, <2>3 DEF ChildTypes
    <3>2. CASE j = i /\ d = c
      BY <1>6, <1>7, <3>2 DEF ConnTypes
    <3>3. CASE d \in cedges[j] \cup cbatch[j]
      <4>1. owner[d] = j /\ d # c
        BY <1>9, <3>3, Constants DEF Owned
      <4> QED
        BY <1>6, <4>1 DEF ConnTypes
    <3> QED
      BY <3>1, <3>2, <3>3
  <2> QED
    BY <2>1, <2>2, <2>3 DEF Owned
<1>14. Handed'
  <2>1. Waiting'
    <3>1. Cardinality(InPipes) + Bit("listen", pedges) + Bit("listen", pbatch) <= Len(backlog)
          /\ Bit("listen", pedges) \in Nat /\ Bit("listen", pbatch) \in Nat
      BY DEF Handed, Waiting, Bit
    <3>2. pedges' = pedges /\ pbatch' = pbatch
      BY <1>1 DEF parentVars
    <3>3. Cardinality(InPipes') + Bit("listen", pedges) + Bit("listen", pbatch) <= Len(backlog')
      BY <1>3, <1>4, <1>7, <3>1
    <3> QED
      BY <3>2, <3>3 DEF Waiting
  <2>2. Told'
    <3> SUFFICES ASSUME NEW j \in Children
                 PROVE  Bit("pipe", cedges'[j]) + Bit("pipe", cbatch'[j]) <= pipe'[j]
      BY DEF Told, Bit
    <3>1. Bit("pipe", cedges[j]) + Bit("pipe", cbatch[j]) <= pipe[j] /\ pipe[j] \in Nat
      BY DEF Handed, Told, ChildTypes
    <3>2. CASE j = i
      <4>1. /\ pipe'[j] = pipe[j] - 1 /\ cbatch'[j] = cbatch[j] \ {"pipe"}
            /\ cedges'[j] = cedges[j] \cup {c}
        BY <1>2, <1>6, <3>2 DEF ChildTypes
      <4>2. "pipe" \in cbatch[j] /\ c # "pipe"
        BY <1>2, <1>7, <3>2, Constants
      <4> QED
        BY <3>1, <4>1, <4>2 DEF Bit
    <3>3. CASE j # i
      BY <1>2, <1>6, <3>1, <3>3 DEF ChildTypes, Bit
    <3> QED
      BY <3>2, <3>3
  <2> QED
    BY <1>3, <2>1, <2>2 DEF Handed
<1>15. Turns' /\ Ends'
  BY <1>1, TurnsKept, EndsKept DEF parentVars
<1> QED
  BY <1>10, <1>11, <1>12, <1>13, <1>14, <1>15

\* An accept that fails takes the integer and leaves the connection.
LEMMA PoolAcceptFails == ASSUME PoolInv, NEW i \in Children, ChildAcceptFails(i) PROVE PoolInv'
<1> USE DEF PoolInv, Types
<1>1. UNCHANGED <<connVars, backlog, parentVars, pedges, psigs, cpc, cstop, crashes, asked, cedges,
                  csigs>>
  BY DEF ChildAcceptFails
<1>2. /\ "pipe" \in cbatch[i] /\ cbatch' = [cbatch EXCEPT ![i] = @ \ {"pipe"}]
      /\ pipe[i] > 0 /\ pipe' = [pipe EXCEPT ![i] = @ - 1]
  BY DEF ChildAcceptFails, ChildDispatch
<1>3. /\ IsFiniteSet(InPipes') /\ Cardinality(InPipes') = Cardinality(InPipes) - 1
      /\ Cardinality(InPipes) \in Nat
  <2>1. IsFiniteSet(InPipes) /\ pipe \in [Children -> Nat]
    BY DEF Handed, ChildTypes
  <2> QED
    BY <1>2, <2>1, PipeLess, FS_CardinalityType
<1>4. ConnTypes' /\ ParentTypes'
  BY <1>1 DEF connVars, parentVars, ConnTypes, ParentTypes
<1>5. ChildTypes'
  <2>1. pipe' \in [Children -> Nat]
    BY <1>2 DEF ChildTypes
  <2> QED
    BY <1>1, <1>2, <2>1 DEF ChildTypes
<1>6. Lined' /\ Turns' /\ Ends'
  BY <1>1, LinedKept, TurnsKept, EndsKept DEF connVars, parentVars
<1>7. Owned'
  BY <1>1, <1>2 DEF Owned, ChildTypes, connVars
<1>8. Waiting'
  <2>1. /\ Bit("listen", pedges) \in Nat /\ Bit("listen", pbatch) \in Nat
        /\ Len(backlog) \in Nat
    BY LenProperties DEF Bit, Lined
  <2>2. Cardinality(InPipes') + Bit("listen", pedges) + Bit("listen", pbatch) <= Len(backlog)
    BY <1>3, <2>1 DEF Handed, Waiting
  <2>3. UNCHANGED <<pedges, pbatch, backlog>>
    BY <1>1 DEF parentVars
  <2> QED
    BY <2>2, <2>3 DEF Waiting
<1>9. Told'
  <2> SUFFICES ASSUME NEW j \in Children
               PROVE  Bit("pipe", cedges'[j]) + Bit("pipe", cbatch'[j]) <= pipe'[j]
    BY DEF Told, Bit
  <2>1. Bit("pipe", cedges[j]) + Bit("pipe", cbatch[j]) <= pipe[j] /\ pipe[j] \in Nat
    BY DEF Handed, Told, ChildTypes
  <2>2. CASE j = i
    BY <1>1, <1>2, <2>1, <2>2 DEF ChildTypes, Bit
  <2>3. CASE j # i
    BY <1>1, <1>2, <2>1, <2>3 DEF ChildTypes, Bit
  <2> QED
    BY <2>2, <2>3
<1> QED
  BY <1>3, <1>4, <1>5, <1>6, <1>7, <1>8, <1>9 DEF Handed

LEMMA MinSame == ASSUME NEW n \in Nat PROVE Min({n, n}) = n
<1>1. Min({n, n}) \in {n, n}
  BY MinExists
<1> QED
  BY <1>1

\* cgi_conn::process closes the connection or has room for what it keeps.
LEMMA PoolRead == ASSUME PoolInv, NEW i \in Children, NEW c \in Conns, Read(i, c) PROVE PoolInv'
<1> USE DEF PoolInv, Types
<1> DEFINE n == Len(wire[c])
<1>1. UNCHANGED <<owner, sent, fin, backlog, parentVars, pedges, psigs, cpc, cstop, crashes, asked,
                  cedges, csigs, pipe>>
  BY DEF Read, Process
<1>2. c \in cbatch[i] /\ cbatch' = [cbatch EXCEPT ![i] = @ \ {c}]
  BY DEF Read, Process, ChildDispatch
<1>3. \/ Close(c) /\ (cgi' = cgi \/ \E p \in {"none", "running"} : cgi' = [cgi EXCEPT ![c] = p])
      \/ Len(buf[c]) + n <= BufferSize /\ Keep(c, n)
  <2>1. wire[c] \in Seq(Pieces) /\ buf[c] \in Seq(Pieces)
    BY DEF ConnTypes
  <2>2. n \in Nat /\ Len(buf[c]) \in Nat /\ BufferSize \in Nat
    BY <2>1, LenProperties, Constants
  <2>3. \/ Close(c) /\ \E p \in {"none", "running"} : cgi' = [cgi EXCEPT ![c] = p]
        \/ Close(c) /\ cgi' = cgi
        \/ ~(Len(buf[c]) + n > BufferSize) /\ Keep(c, n)
    BY Zenon DEF Read, Process
  <2>4. ~(Len(buf[c]) + n > BufferSize) => Len(buf[c]) + n <= BufferSize
    <3>1. \A a, b, m \in Nat : ~(a + b > m) => a + b <= m
      OBVIOUS
    <3> HIDE DEF n
    <3> QED
      BY <2>2, <3>1, Zenon
  <2> QED
    BY <2>3, <2>4, Zenon
<1>4. owner[c] = i /\ status[c] \notin {"new", "backlog"}
  <2>1. owner[c] = i
    BY <1>2 DEF Owned
  <2> QED
    BY <2>1, Constants DEF Owned, ConnTypes
<1>5. <<>> \in Seq(Pieces) /\ Len(<<>>) = 0 /\ 0 <= BufferSize
  BY EmptySeq, Constants
<1>6. ConnTypes'
  <2>1. CASE Close(c)
    <3>1. /\ status' = [status EXCEPT ![c] = "closed"]
          /\ wire' = [wire EXCEPT ![c] = <<>>] /\ buf' = [buf EXCEPT ![c] = <<>>]
      BY <2>1 DEF Close
    <3>2. cgi' \in [Conns -> {"none", "running", "zombie", "reaped"}]
      BY <1>3 DEF Keep, ConnTypes
    <3>3. \A d \in Conns : Len(buf'[d]) <= BufferSize
      BY <3>1, <1>5 DEF ConnTypes
    <3> QED
      BY <1>1, <1>5, <3>1, <3>2, <3>3 DEF ConnTypes
  <2>2. CASE Len(buf[c]) + n <= BufferSize /\ Keep(c, n)
    <3>1. /\ buf' = [buf EXCEPT ![c] = @ \o Take(wire[c], n)]
          /\ wire' = [wire EXCEPT ![c] = SubSeq(@, n + 1, Len(@))]
          /\ UNCHANGED <<status, cgi>>
      BY <2>2 DEF Keep
    <3>2. wire[c] \in Seq(Pieces) /\ buf[c] \in Seq(Pieces) /\ n \in Nat
      BY LenProperties DEF ConnTypes
    <3>3. Take(wire[c], n) = wire[c]
      BY <3>2, MinSame, SubSeqFull DEF Take
    <3>4. SubSeq(wire[c], n + 1, Len(wire[c])) = <<>>
      BY <3>2, SubSeqEmpty
    <3>5. /\ buf[c] \o wire[c] \in Seq(Pieces) /\ Len(buf[c] \o wire[c]) = Len(buf[c]) + n
      BY <3>2, ConcatProperties
    <3>6. buf' = [buf EXCEPT ![c] = buf[c] \o wire[c]] /\ wire' = [wire EXCEPT ![c] = <<>>]
      BY <3>1, <3>3, <3>4
    <3>7. \A d \in Conns : Len(buf'[d]) <= BufferSize
      BY <2>2, <3>5, <3>6 DEF ConnTypes
    <3>8. buf' \in [Conns -> Seq(Pieces)] /\ wire' \in [Conns -> Seq(Pieces)]
      BY <1>5, <3>5, <3>6 DEF ConnTypes
    <3> QED
      BY <1>1, <3>1, <3>7, <3>8 DEF ConnTypes
  <2> QED
    BY <1>3, <2>1, <2>2
<1>7. ParentTypes' /\ ChildTypes'
  BY <1>1, <1>2 DEF parentVars, ParentTypes, ChildTypes
<1>8. /\ \A d \in Conns : d # c => status'[d] = status[d] /\ cgi'[d] = cgi[d]
      /\ status'[c] = "closed" \/ (status'[c] = status[c] /\ cgi'[c] = cgi[c])
  BY <1>3 DEF Close, Keep, ConnTypes
<1>9. Lined'
  <2>1. \A d \in Conns : status'[d] = "backlog" <=> status[d] = "backlog"
    BY <1>4, <1>8
  <2>2. {d \in Conns : status'[d] = "backlog"} = {d \in Conns : status[d] = "backlog"}
    BY <2>1
  <2> QED
    BY <1>1, <2>2 DEF Lined
<1>10. Owned'
  <2>1. \A j \in Children, d \in Conns : d \in cedges'[j] \cup cbatch'[j] => d \in cedges[j] \cup cbatch[j]
    BY <1>1, <1>2 DEF ChildTypes
  <2>2. \A d \in Conns : status'[d] = "open" <=> owner'[d] # None /\ status'[d] # "closed"
    BY <1>1, <1>8 DEF Owned
  <2>3. \A d \in Conns : cgi'[d] # "none" => status'[d] = "closed"
    BY <1>8 DEF Owned
  <2> QED
    BY <1>1, <2>1, <2>2, <2>3 DEF Owned
<1>11. Handed'
  <2>1. \A j \in Children : Bit("pipe", cbatch'[j]) <= Bit("pipe", cbatch[j])
                         /\ Bit("pipe", cbatch'[j]) \in Nat /\ Bit("pipe", cbatch[j]) \in Nat
    BY <1>2 DEF ChildTypes, Bit
  <2>2. \A x, S : Bit(x, S) \in Nat
    BY DEF Bit
  <2>3. pbatch' = pbatch
    BY <1>1 DEF parentVars
  <2> QED
    BY <1>1, <2>1, <2>2, <2>3, HandedKept
<1>12. Turns' /\ Ends'
  BY <1>1, TurnsKept, EndsKept DEF parentVars
<1> QED
  BY <1>6, <1>7, <1>9, <1>10, <1>11, <1>12

LEMMA PoolCgiEnds == ASSUME PoolInv, NEW c \in Conns, CgiEnds(c) PROVE PoolInv'
<1> USE DEF PoolInv, Types
<1>1. UNCHANGED <<status, owner, sent, wire, fin, buf, backlog, parentVars, pedges, psigs, childVars,
                  pipe>>
  BY DEF CgiEnds
<1>2. /\ cgi[c] = "running"
      /\ \E p \in {"zombie", "reaped"} : cgi' = [cgi EXCEPT ![c] = p]
      /\ \/ UNCHANGED <<csigs, cedges>>
         \/ /\ csigs' = [csigs EXCEPT ![owner[c]] = @ \cup {"CHLD"}]
            /\ cedges' = [cedges EXCEPT ![owner[c]] = @ \cup {"sig"}]
  BY DEF CgiEnds
<1>3. \A j \in Children : cedges'[j] \in {cedges[j], cedges[j] \cup {"sig"}}
  BY <1>2 DEF ChildTypes
<1>4. ConnTypes' /\ ParentTypes'
  BY <1>1, <1>2 DEF parentVars, childVars, ConnTypes, ParentTypes
<1>5. ChildTypes'
  BY <1>1, <1>2 DEF childVars, ChildTypes
<1>6. Owned'
  <2>1. \A j \in Children, d \in Conns : d \in cedges'[j] => d \in cedges[j]
    BY <1>3, Constants
  <2>2. \A d \in Conns : cgi'[d] # "none" => cgi[d] # "none"
    BY <1>2 DEF ConnTypes
  <2> QED
    BY <1>1, <2>1, <2>2 DEF Owned, childVars
<1>7. Handed'
  <2>1. \A j \in Children : Bit("pipe", cedges'[j]) = Bit("pipe", cedges[j])
    BY <1>3 DEF Bit
  <2>2. \A x, S : Bit(x, S) \in Nat
    BY DEF Bit
  <2>3. pbatch' = pbatch /\ cbatch' = cbatch
    BY <1>1 DEF parentVars, childVars
  <2> QED
    BY <1>1, <2>1, <2>2, <2>3, HandedKept
<1>8. Lined' /\ Turns' /\ Ends'
  BY <1>1, LinedKept, TurnsKept, EndsKept DEF parentVars, childVars
<1> QED
  BY <1>4, <1>5, <1>6, <1>7, <1>8

LEMMA PoolStutter == PoolInv /\ UNCHANGED vars => PoolInv'
<1> SUFFICES ASSUME PoolInv, UNCHANGED vars PROVE PoolInv'
  OBVIOUS
<1> USE DEF PoolInv, Types, vars, connVars, parentVars, childVars
<1>1. ConnTypes' /\ ParentTypes' /\ ChildTypes'
  BY DEF ConnTypes, ParentTypes, ChildTypes
<1>2. Lined' /\ Owned' /\ Turns' /\ Ends'
  BY LinedKept, TurnsKept, EndsKept DEF Owned
<1>3. Handed'
  BY HandedKept DEF Bit
<1> QED
  BY <1>1, <1>2, <1>3

LEMMA PoolNext == PoolInv /\ [Next]_vars => PoolInv'
<1> SUFFICES ASSUME PoolInv, [Next]_vars PROVE PoolInv'
  OBVIOUS
<1>1. CASE ParentStep
  BY <1>1, PoolLoop, PoolListen, PoolListenNoChild, PoolTerm, PoolChld DEF ParentStep
<1>2. ASSUME NEW i \in Children, ChildStep(i) PROVE PoolInv'
  BY <1>2, PoolChildLoop, PoolEnds, PoolChildSignals, PoolAccept, PoolAcceptFails, PoolRead
     DEF ChildStep
<1>3. CASE Environment
  BY <1>3, PoolLoop, PoolConnect, PoolClient, PoolCgiEnds, PoolEnds DEF Environment
<1>4. CASE UNCHANGED vars
  BY <1>4, PoolStutter
<1> QED
  BY <1>1, <1>2, <1>3, <1>4 DEF Next

(* ---------------------------------- theorems --------------------------------- *)

LEMMA PoolAlways == Spec => []PoolInv
  BY PoolInit, PoolNext, PTL DEF Spec

\* processpool.h:166-181, 236-248: for any number of children and connections, with
\* children that die anywhere, an integer in a pipe or an unanswered event of the
\* listening socket has a connection of its own that waits to be accepted.
THEOREM HandoverIsCovered == Spec => []HandoverCovered
<1>1. PoolInv => HandoverCovered
  BY HandoverIs DEF PoolInv, Handed
<1> QED
  BY <1>1, PoolAlways, PTL

\* processpool.h:237-248: as long as no child has been reaped the turn goes round:
\* no child is announced two connections more than another.
THEOREM TurnGoesRound == Spec => []RoundRobin
<1>1. PoolInv => RoundRobin
  <2> SUFFICES ASSUME PoolInv PROVE RoundRobin
    OBVIOUS
  <2>1. TypeOK
    BY TypesGive DEF PoolInv
  <2>2. ASSUME alive = Children, NEW i \in Children, NEW j \in Children
        PROVE  given[i] - given[j] <= 1
    BY <2>2 DEF PoolInv, Turns
  <2> QED
    BY <2>1, <2>2 DEF RoundRobin
<1> QED
  BY <1>1, PoolAlways, PTL

\* processpool.h:236-246, 258-277: the parent leaves its loop only when each child
\* has ended and was reaped, whatever the order of deaths, signals and events.
THEOREM NobodyIsOrphaned == Spec => []NoOrphans
<1>1. PoolInv => NoOrphans
  BY DEF PoolInv, Ends, NoOrphans
<1> QED
  BY <1>1, PoolAlways, PTL

(* -------------------------------- the contract ------------------------------- *)

\* What a client has sent is in its buffer and on the wire, and nothing is left of
\* that when it is closed.
Received ==
  \A c \in Conns :
    /\ sent[c] <= Len(Requests[c])
    /\ status[c] # "closed" => buf[c] \o wire[c] = SubSeq(Requests[c], 1, sent[c])
    /\ status[c] = "closed" => buf[c] = <<>> /\ wire[c] = <<>>

\* The variables of Prefork, as ProcessPool gives them
Working == {i \in Children : cpc[i] \notin {"zombie", "gone"}}
OpenConns == {c \in Conns : status[c] = "open"}
Said == {c \in Conns : Contains(SubSeq(Requests[c], 1, sent[c]), "end")}
Begun == {c \in Conns : cgi[c] # "none"}
Contractual == [Contract!PreforkNext]_(Contract!preforkVars)

LEMMA ReceivedKept ==
  Received /\ UNCHANGED <<status, sent, wire, buf>> => Received'
BY DEF Received

LEMMA ContractKept ==
  ASSUME UNCHANGED <<backlog, pipe, owner>>, Working' = Working, OpenConns' = OpenConns,
         Said' = Said, Begun' = Begun
  PROVE  Contractual
BY DEF Contractual, Contract!preforkVars, Working, OpenConns, Said, Begun

\* Many steps change nothing that the contract knows of.
LEMMA ContractQuiet ==
  ASSUME UNCHANGED <<backlog, pipe, owner, status, sent, wire, buf>>, Received,
         Working' = Working, Begun' = Begun
  PROVE  Contractual /\ Received'
<1>1. OpenConns' = OpenConns /\ Said' = Said
  BY DEF OpenConns, Said
<1> QED
  BY <1>1, ContractKept, ReceivedKept

LEMMA WorkingKept == cpc' = cpc => Working' = Working
  BY DEF Working
LEMMA BegunKept == cgi' = cgi => Begun' = Begun
  BY DEF Begun

LEMMA ContractLoop ==
  ASSUME PoolInv, Received,
         \/ Terminate \/ EpollWait \/ BatchDone \/ TakeSignals \/ ListenNoChild \/ HandleChld
         \/ \E c \in Conns : Leave(c) \/ CgiEnds(c)
         \/ \E i \in Children : Setup(i) \/ ChildWait(i) \/ ChildBatchDone(i) \/ ChildSignals(i)
  PROVE  Contractual /\ Received'
<1> USE DEF PoolInv, Types, ConnTypes, ChildTypes
<1>1. UNCHANGED <<backlog, pipe, owner, status, sent, wire, buf>>
  BY DEF Terminate, EpollWait, BatchDone, TakeSignals, ListenNoChild, HandleChld, Reap, Leave, CgiEnds,
         Setup, ChildWait, ChildBatchDone, ChildSignals, connVars
<1>2. Working' = Working
  <2>1. \A i \in Children : cpc'[i] \in {"zombie", "gone"} <=> cpc[i] \in {"zombie", "gone"}
    <3>1. CASE HandleChld
      BY <3>1 DEF HandleChld, Reap
    <3>2. CASE \E i \in Children : Setup(i) \/ ChildWait(i) \/ ChildBatchDone(i)
      BY <3>2 DEF Setup, ChildWait, ChildBatchDone
    <3>3. CASE \/ Terminate \/ EpollWait \/ BatchDone \/ TakeSignals \/ ListenNoChild
               \/ \E c \in Conns : Leave(c) \/ CgiEnds(c)
               \/ \E i \in Children : ChildSignals(i)
      <4>1. cpc' = cpc
        BY <3>3 DEF Terminate, EpollWait, BatchDone, TakeSignals, ListenNoChild, Leave, CgiEnds,
                    ChildSignals, childVars
      <4> QED
        BY <4>1
    <3> QED
      BY <3>1, <3>2, <3>3
  <2> QED
    BY <2>1 DEF Working
<1>3. Begun' = Begun
  <2>1. CASE \E c \in Conns : CgiEnds(c)
    BY <2>1 DEF CgiEnds, Begun
  <2>2. CASE \E i \in Children : ChildSignals(i)
    BY <2>2 DEF ChildSignals, Collected, Begun
  <2>3. CASE \/ Terminate \/ EpollWait \/ BatchDone \/ TakeSignals \/ ListenNoChild \/ HandleChld
             \/ \E c \in Conns : Leave(c)
             \/ \E i \in Children : Setup(i) \/ ChildWait(i) \/ ChildBatchDone(i)
    <3>1. cgi' = cgi
      BY <2>3 DEF Terminate, EpollWait, BatchDone, TakeSignals, ListenNoChild, HandleChld, Reap, Leave,
                  Setup, ChildWait, ChildBatchDone, connVars
    <3> QED
      BY <3>1, BegunKept
  <2> QED
    BY <2>1, <2>2, <2>3
<1> QED
  BY <1>1, <1>2, <1>3, ContractQuiet

LEMMA ContractConnect ==
  ASSUME PoolInv, Received, NEW c \in Conns, Connect(c) PROVE Contractual /\ Received'
<1> USE DEF PoolInv, Types
<1>1. /\ status[c] = "new" /\ status' = [status EXCEPT ![c] = "backlog"]
      /\ backlog' = Append(backlog, c)
      /\ UNCHANGED <<pipe, owner, sent, wire, buf, cgi, cpc>>
  BY DEF Connect, childVars
<1>2. owner[c] = None /\ \A k \in DOMAIN backlog : backlog[k] # c
  BY <1>1 DEF Owned, Lined, ToSet
<1>3. OpenConns' = OpenConns /\ Said' = Said /\ Begun' = Begun /\ Working' = Working
  BY <1>1 DEF OpenConns, Said, Begun, Working, ConnTypes
<1>4. Contract!Arrive(c)
  BY <1>1, <1>2, <1>3 DEF Contract!Arrive, OpenConns, Said, Begun, Working
<1>5. Received'
  BY <1>1 DEF Received, ConnTypes
<1> QED
  BY <1>4, <1>5 DEF Contractual, Contract!PreforkNext

LEMMA OneMorePiece ==
  ASSUME NEW S, NEW R \in Seq(S), NEW n \in Nat, n < Len(R), NEW b \in Seq(S), NEW w \in Seq(S),
         b \o w = SubSeq(R, 1, n)
  PROVE  b \o Append(w, R[n + 1]) = SubSeq(R, 1, n + 1)
<1>1. n + 1 \in 1 .. Len(R) /\ R[n + 1] \in S
  BY ElementOfSeq
<1>2. PICK x \in S : x = R[n + 1]
  BY <1>1
<1>3. b \o Append(w, x) = Append(b \o w, x)
  OBVIOUS
<1>4. Append(SubSeq(R, 1, n), x) = SubSeq(R, 1, n + 1)
  BY <1>1, <1>2
<1> QED
  BY <1>2, <1>3, <1>4

LEMMA ContractSend ==
  ASSUME PoolInv, Received, NEW c \in Conns, Send(c) PROVE Contractual /\ Received'
<1> USE DEF PoolInv, Types
<1>1. /\ status[c] \in {"backlog", "open"} /\ sent[c] < Len(Requests[c])
      /\ sent' = [sent EXCEPT ![c] = @ + 1]
      /\ wire' = [wire EXCEPT ![c] = Append(@, Requests[c][sent[c] + 1])]
      /\ UNCHANGED <<backlog, pipe, owner, status, buf, cgi, cpc>>
  BY DEF Send, Alive, childVars
<1> DEFINE R == Requests[c]  n == sent[c]
<1>2. R \in Seq(Pieces) /\ n \in Nat /\ Len(R) \in Nat /\ wire[c] \in Seq(Pieces) /\ buf[c] \in Seq(Pieces)
  BY Constants, LenProperties DEF ConnTypes
<1>3. sent'[c] = n + 1 /\ \A d \in Conns \ {c} : sent'[d] = sent[d] /\ wire'[d] = wire[d]
  BY <1>1 DEF ConnTypes
<1>4. wire'[c] = Append(wire[c], R[n + 1])
  BY <1>1 DEF ConnTypes
<1>5. /\ Len(SubSeq(R, 1, n)) = n /\ \A k \in 1 .. n : SubSeq(R, 1, n)[k] = R[k]
      /\ Len(SubSeq(R, 1, n + 1)) = n + 1 /\ \A k \in 1 .. n + 1 : SubSeq(R, 1, n + 1)[k] = R[k]
      /\ SubSeq(R, 1, n) \in Seq(Pieces) /\ SubSeq(R, 1, n + 1) \in Seq(Pieces)
  <2>1. n + 1 <= Len(R)
    BY <1>1, <1>2
  <2> QED
    BY <1>2, <2>1, SubSeqProperties
<1>6. R[n + 1] \in Pieces
  BY <1>1, <1>2, ElementOfSeq
<1>7. buf[c] \o Append(wire[c], R[n + 1]) = SubSeq(R, 1, n + 1)
  <2>1. buf[c] \o wire[c] = SubSeq(R, 1, n) /\ n < Len(R)
    BY <1>1 DEF Received
  <2> HIDE DEF R, n
  <2> QED
    BY <1>2, <2>1, OneMorePiece
<1>8. Received'
  <2>1. sent'[c] <= Len(Requests[c]) /\ buf'[c] \o wire'[c] = SubSeq(Requests[c], 1, sent'[c])
    <3>1. n + 1 <= Len(R) /\ buf'[c] = buf[c]
      BY <1>1, <1>2
    <3> QED
      BY <1>3, <1>4, <1>7, <3>1, Zenon
  <2>2. \A d \in Conns \ {c} : sent'[d] = sent[d] /\ wire'[d] = wire[d] /\ buf'[d] = buf[d]
                              /\ status'[d] = status[d]
    BY <1>1, <1>3
  <2>3. status'[c] # "closed"
    BY <1>1
  <2> HIDE DEF R, n
  <2> QED
    BY <2>1, <2>2, <2>3 DEF Received
<1>9. Said' = Said \/ Said' = Said \cup {c}
  <2>1. \A d \in Conns \ {c} : d \in Said' <=> d \in Said
    BY <1>3 DEF Said
  <2>2. ASSUME c \in Said PROVE c \in Said'
    <3>1. PICK k \in 1 .. n : R[k] = "end"
      BY <1>5, <2>2 DEF Said, Contains
    <3>2. k \in 1 .. n + 1
      BY <1>2
    <3>3. Contains(SubSeq(R, 1, n + 1), "end")
      BY <1>5, <3>1, <3>2 DEF Contains
    <3> QED
      BY <1>3, <3>3 DEF Said
  <2> QED
    BY <2>1, <2>2 DEF Said
<1>10. OpenConns' = OpenConns /\ Begun' = Begun /\ Working' = Working
  BY <1>1 DEF OpenConns, Begun, Working
<1>11. c \in OpenConns \/ owner[c] = None
  BY <1>1 DEF Owned, OpenConns
<1>12. CASE Said' = Said
  BY <1>1, <1>10, <1>12, <1>8, ContractKept
<1>13. CASE Said' = Said \cup {c}
  <2>1. Contract!CompleteLine(c)
    BY <1>1, <1>10, <1>11, <1>13
    DEF Contract!CompleteLine, OpenConns, Said, Begun, Working
  <2> QED
    BY <1>8, <2>1 DEF Contractual, Contract!PreforkNext
<1> QED
  BY <1>9, <1>12, <1>13

\* read(2): what a buffer takes is the beginning of what there is.
LEMMA Taken ==
  ASSUME NEW S, NEW s \in Seq(S), NEW n \in Nat
  PROVE  \A k \in 1 .. Len(Take(s, n)) : Take(s, n)[k] = s[k] /\ k \in 1 .. Len(s)
<1>1. Len(s) \in Nat
  BY LenProperties
<1>2. Min({n, Len(s)}) \in {n, Len(s)} /\ Min({n, Len(s)}) <= Len(s)
  BY <1>1, MinExists
<1>3. PICK m \in Nat : m = Min({n, Len(s)}) /\ m <= Len(s)
  BY <1>1, <1>2
<1>4. Take(s, n) = SubSeq(s, 1, m)
  BY <1>3 DEF Take
<1>5. CASE m = 0
  <2>1. SubSeq(s, 1, 0) = <<>>
    BY SubSeqEmpty
  <2> QED
    BY <1>4, <1>5, <2>1
<1>6. CASE m > 0
  <2>1. \A k \in 1 .. m : s[k] \in S
    BY <1>1, <1>3, ElementOfSeq
  <2>2. Len(SubSeq(s, 1, m)) = m /\ \A k \in 1 .. m : SubSeq(s, 1, m)[k] = s[1 + k - 1]
    <3>1. \A k \in 1 .. m - 1 + 1 : SubSeq(s, 1, m)[k] = s[1 + k - 1]
      BY <1>3, <2>1, SubSeqProperties
    <3>2. Len(SubSeq(s, 1, m)) = IF 1 <= m THEN m - 1 + 1 ELSE 0
      BY <1>3, <2>1, SubSeqProperties
    <3>3. m - 1 + 1 = m /\ 1 <= m
      BY <1>3, <1>6
    <3> QED
      BY <3>1, <3>2, <3>3, Zenon
  <2> QED
    BY <1>1, <1>3, <1>4, <2>2
<1> QED
  BY <1>3, <1>5, <1>6

\* The contract counts with the Cardinality of its own instance.
LEMMA SameCount == ASSUME NEW S PROVE Contract!Cardinality(S) = Cardinality(S)
  BY DEF Contract!Cardinality, Cardinality

LEMMA ContractListen == ASSUME PoolInv, Received, Listen PROVE Contractual /\ Received'
<1> USE DEF PoolInv, Types
<1>1. UNCHANGED <<status, owner, sent, wire, buf, cgi, backlog, cpc>> /\ alive # {}
      /\ "listen" \in pbatch
  BY DEF Listen, connVars, childVars, Dispatch
<1>2. PICK i : i = Chosen
  OBVIOUS
<1>3. i \in alive /\ i \in Children
  BY <1>1, <1>2, ChosenAlive DEF ParentTypes
<1>4. Working' = Working /\ Begun' = Begun /\ OpenConns' = OpenConns /\ Said' = Said
  BY <1>1 DEF Working, Begun, OpenConns, Said
<1>5. Received'
  BY <1>1, ReceivedKept
<1>6. CASE pipe' = pipe
  BY <1>1, <1>4, <1>5, <1>6, ContractKept
<1>7. CASE cpc[i] # "zombie" /\ pipe' = [pipe EXCEPT ![i] = @ + 1]
  <2>1. i \in Working
    BY <1>3, <1>7 DEF Ends, Working
  <2>2. Cardinality(InPipes) < Len(backlog)
    <3>1. Cardinality(InPipes) \in Nat /\ Len(backlog) \in Nat
      BY FS_CardinalityType, LenProperties DEF Handed, Lined
    <3>2. Bit("listen", pbatch) = 1 /\ Bit("listen", pedges) \in Nat
      BY <1>1 DEF Bit
    <3> QED
      BY <3>1, <3>2 DEF Handed, Waiting
  <2>3. Contract!Announce(i)
    BY <1>1, <1>4, <1>7, <2>1, <2>2, SameCount
    DEF Contract!Announce, Contract!Tickets, InPipes, Working, Begun, OpenConns, Said
  <2> QED
    BY <1>3, <1>5, <2>3 DEF Contractual, Contract!PreforkNext
<1> QED
  BY <1>2, <1>6, <1>7 DEF Listen, SendNewConn

\* The end of children takes their integers and their connections with them.
LEMMA ContractEnd ==
  ASSUME PoolInv, Received, NEW D, D \subseteq Working, NEW K, End(D, K)
  PROVE  Contractual /\ Received'
<1> USE DEF PoolInv, Types
<1> DEFINE theirs == {c \in Conns : owner[c] \in D}
<1>1. /\ cpc' = [i \in Children |-> IF i \in D THEN "zombie" ELSE cpc[i]]
      /\ pipe' = [i \in Children |-> IF i \in D THEN 0 ELSE pipe[i]]
      /\ status' = [c \in Conns |-> IF c \in theirs THEN "closed" ELSE status[c]]
      /\ wire' = [c \in Conns |-> IF c \in theirs THEN <<>> ELSE wire[c]]
      /\ buf' = [c \in Conns |-> IF c \in theirs THEN <<>> ELSE buf[c]]
      /\ cgi' = [c \in Conns |-> IF c \in theirs /\ cgi[c] = "zombie" THEN "reaped" ELSE cgi[c]]
      /\ UNCHANGED <<owner, sent, backlog>>
  BY DEF End
<1>2. D \subseteq Children /\ D \in SUBSET Working
  BY DEF Working
<1>3. Working' = Working \ D
  BY <1>1 DEF Working
<1>4. OpenConns' = {c \in OpenConns : owner[c] \notin D}
  BY <1>1 DEF OpenConns
<1>5. Said' = Said /\ Begun' = Begun
  BY <1>1 DEF Said, Begun
<1>6. Contract!Die(D)
  BY <1>1, <1>3, <1>4, <1>5 DEF Contract!Die, Working, OpenConns, Said, Begun
<1>7. Received'
  <2>1. ASSUME NEW c \in theirs
        PROVE  status'[c] = "closed" /\ buf'[c] = <<>> /\ wire'[c] = <<>> /\ sent'[c] = sent[c]
    BY <1>1
  <2>2. ASSUME NEW c \in Conns \ theirs
        PROVE  status'[c] = status[c] /\ buf'[c] = buf[c] /\ wire'[c] = wire[c] /\ sent'[c] = sent[c]
    BY <1>1
  <2> HIDE DEF theirs
  <2> QED
    BY <2>1, <2>2 DEF Received
<1> QED
  BY <1>2, <1>6, <1>7 DEF Contractual, Contract!PreforkNext, Working

LEMMA ContractEnds ==
  ASSUME PoolInv, Received, HandleTerm \/ \E i \in Children : Crash(i) \/ ChildStops(i)
  PROVE  Contractual /\ Received'
<1>1. ASSUME HandleTerm PROVE Contractual /\ Received'
  <2>1. /\ {i \in alive : cpc[i] = "starting"} \subseteq Working
        /\ \E K : End({i \in alive : cpc[i] = "starting"}, K)
    BY <1>1 DEF HandleTerm, KillAll, Working, PoolInv, Types, ParentTypes
  <2> QED
    BY <2>1, ContractEnd
<1>2. ASSUME NEW i \in Children, Crash(i) \/ ChildStops(i) PROVE Contractual /\ Received'
  <2>1. {i} \subseteq Working /\ \E K : End({i}, K)
    BY <1>2 DEF Crash, ChildStops, Working
  <2> QED
    BY <2>1, ContractEnd
<1> QED
  BY <1>1, <1>2

LEMMA ContractAccept ==
  ASSUME PoolInv, Received, NEW i \in Children, ChildAccept(i) PROVE Contractual /\ Received'
<1> USE DEF PoolInv, Types
<1>1. /\ UNCHANGED <<sent, wire, buf, cgi, cpc>> /\ cpc[i] = "events"
      /\ pipe[i] > 0 /\ pipe' = [pipe EXCEPT ![i] = @ - 1]
  BY DEF ChildAccept, ChildDispatch
<1>2. backlog # <<>>
  <2>1. IsFiniteSet(InPipes) /\ <<i, 1>> \in InPipes
    BY <1>1, InPipe DEF Handed, ChildTypes
  <2>2. Cardinality(InPipes) \in Nat /\ Cardinality(InPipes) # 0
    BY <2>1, FS_EmptySet, FS_CardinalityType
  <2>3. Bit("listen", pedges) \in Nat /\ Bit("listen", pbatch) \in Nat /\ Len(backlog) \in Nat
    BY LenProperties DEF Bit, Lined
  <2>4. Len(backlog) # 0
    BY <2>2, <2>3 DEF Handed, Waiting
  <2> QED
    BY <2>4, EmptySeq
<1>3. PICK c : c = Head(backlog)
  OBVIOUS
<1>4. /\ backlog' = Tail(backlog)
      /\ status' = [status EXCEPT ![c] = "open"] /\ owner' = [owner EXCEPT ![c] = i]
  BY <1>2, <1>3 DEF ChildAccept
<1>5. c \in Conns /\ status[c] = "backlog"
  <2>1. c \in ToSet(backlog)
    <3>1. backlog \in Seq(Conns) /\ 1 \in DOMAIN backlog /\ c = backlog[1]
      BY <1>2, <1>3, EmptySeq, LenProperties DEF Lined
    <3> QED
      BY <3>1 DEF ToSet
  <2> QED
    BY <2>1 DEF Lined
<1>6. OpenConns' = OpenConns \cup {c}
  BY <1>4, <1>5 DEF OpenConns, ConnTypes
<1>7. Working' = Working /\ Begun' = Begun /\ Said' = Said /\ i \in Working
  BY <1>1 DEF Working, Begun, Said
<1>8. Contract!Accept(i)
  BY <1>1, <1>2, <1>3, <1>4, <1>6, <1>7
  DEF Contract!Accept, Working, Begun, Said, OpenConns
<1>9. Received'
  <2>1. \A d \in Conns : status'[d] # "closed" <=> status[d] # "closed"
    BY <1>4, <1>5 DEF ConnTypes
  <2> QED
    BY <1>1, <2>1 DEF Received
<1> QED
  BY <1>8, <1>9 DEF Contractual, Contract!PreforkNext

LEMMA ContractAcceptFails ==
  ASSUME PoolInv, Received, NEW i \in Children, ChildAcceptFails(i) PROVE Contractual /\ Received'
<1>1. /\ UNCHANGED <<status, owner, sent, wire, buf, cgi, backlog, cpc>> /\ cpc[i] = "events"
      /\ pipe[i] > 0 /\ pipe' = [pipe EXCEPT ![i] = @ - 1]
  BY DEF ChildAcceptFails, ChildDispatch, connVars
<1>2. /\ Working' = Working /\ Begun' = Begun /\ OpenConns' = OpenConns /\ Said' = Said
      /\ i \in Working
  BY <1>1 DEF Working, Begun, OpenConns, Said
<1>3. Contract!Waste(i)
  BY <1>1, <1>2 DEF Contract!Waste, Working, Begun, OpenConns, Said
<1>4. Received'
  BY <1>1, ReceivedKept
<1> QED
  BY <1>3, <1>4 DEF Contractual, Contract!PreforkNext

\* process() starts a program for what the client has sent, once.
LEMMA ContractRead ==
  ASSUME PoolInv, Received, NEW i \in Children, NEW c \in Conns, Read(i, c)
  PROVE  Contractual /\ Received'
<1> USE DEF PoolInv, Types
<1>1. UNCHANGED <<owner, sent, backlog, cpc, pipe>> /\ cpc[i] = "events" /\ c \in cbatch[i]
  BY DEF Read, Process, ChildDispatch
<1>2. owner[c] = i /\ i \in Working
  BY <1>1 DEF Owned, Working
<1>3. wire[c] \in Seq(Pieces) /\ buf[c] \in Seq(Pieces) /\ Len(wire[c]) \in Nat
  BY LenProperties DEF ConnTypes
<1>4. Take(wire[c], Len(wire[c])) = wire[c] /\ SubSeq(wire[c], Len(wire[c]) + 1, Len(wire[c])) = <<>>
  BY <1>3, MinSame, SubSeqFull, SubSeqEmpty DEF Take
<1> DEFINE text == Take(buf[c] \o wire[c], BufferSize)
<1>5. \/ Contains(text, "end") /\ Close(c) /\ \E p \in {"none", "running"} : cgi' = [cgi EXCEPT ![c] = p]
      \/ ~ Contains(text, "end") /\ Close(c) /\ cgi' = cgi
      \/ Keep(c, Len(wire[c]))
  BY <1>4, Zenon DEF Read, Process
<1>6. Said' = Said /\ Working' = Working
  BY <1>1 DEF Said, Working
<1>7. CASE Keep(c, Len(wire[c]))
  <2>1. /\ buf' = [buf EXCEPT ![c] = buf[c] \o wire[c]] /\ wire' = [wire EXCEPT ![c] = <<>>]
        /\ UNCHANGED <<status, cgi>>
    BY <1>4, <1>7 DEF Keep
  <2>2. buf'[c] \o wire'[c] = buf[c] \o wire[c] /\ (buf[c] = <<>> /\ wire[c] = <<>> => buf'[c] = <<>>)
    <3>1. buf'[c] = buf[c] \o wire[c] /\ wire'[c] = <<>>
      BY <2>1 DEF ConnTypes
    <3>2. buf[c] \o wire[c] \in Seq(Pieces)
      BY <1>3, ConcatProperties
    <3>3. (buf[c] \o wire[c]) \o <<>> = buf[c] \o wire[c]
      BY <3>2, ConcatEmptySeq
    <3> QED
      BY <1>3, <3>1, <3>3, ConcatEmptySeq
  <2>3. \A d \in Conns \ {c} : buf'[d] = buf[d] /\ wire'[d] = wire[d]
    BY <2>1
  <2>4. wire'[c] = <<>>
    BY <2>1 DEF ConnTypes
  <2>5. Received'
    BY <1>1, <2>1, <2>2, <2>3, <2>4 DEF Received
  <2>6. OpenConns' = OpenConns /\ Begun' = Begun
    BY <2>1 DEF OpenConns, Begun
  <2> QED
    BY <1>1, <1>6, <2>5, <2>6, ContractKept
<1>8. CASE Close(c) /\ (Contains(text, "end") \/ cgi' = cgi)
  <2>1. /\ status' = [status EXCEPT ![c] = "closed"]
        /\ wire' = [wire EXCEPT ![c] = <<>>] /\ buf' = [buf EXCEPT ![c] = <<>>]
    BY <1>8 DEF Close
  <2>2. Received'
    <3>1. \A d \in Conns \ {c} : buf'[d] = buf[d] /\ wire'[d] = wire[d] /\ status'[d] = status[d]
      BY <2>1
    <3>2. status'[c] = "closed" /\ buf'[c] = <<>> /\ wire'[c] = <<>>
      BY <2>1 DEF ConnTypes
    <3> QED
      BY <1>1, <3>1, <3>2 DEF Received
  <2>3. OpenConns' = OpenConns \ {c}
    BY <2>1 DEF OpenConns, ConnTypes
  <2>4. \A k \in 1 .. Len(text) : text[k] = (buf[c] \o wire[c])[k] /\ k \in 1 .. Len(buf[c] \o wire[c])
    <3>1. buf[c] \o wire[c] \in Seq(Pieces) /\ BufferSize \in Nat
      BY <1>3, ConcatProperties, Constants
    <3> QED
      BY <3>1, Taken
  <2>5. CASE status[c] = "closed"
    <3>1. Len(buf[c] \o wire[c]) = 0
      <4>1. buf[c] = <<>> /\ wire[c] = <<>>
        BY <2>5 DEF Received
      <4>2. buf[c] \o wire[c] = <<>> \o <<>>
        BY <4>1
      <4>3. <<>> \o <<>> = <<>>
        OBVIOUS
      <4> HIDE DEF text
      <4> QED
        BY <4>2, <4>3
    <3>2. ~ Contains(text, "end")
      <4>1. 1 .. Len(buf[c] \o wire[c]) = {}
        BY <3>1
      <4> HIDE DEF text
      <4> QED
        BY <2>4, <4>1 DEF Contains
    <3>3. cgi' = cgi
      BY <1>8, <3>2
    <3>4. OpenConns' = OpenConns /\ Begun' = Begun
      BY <2>3, <2>5, <3>3 DEF OpenConns, Begun
    <3> QED
      BY <1>1, <1>6, <2>2, <3>4, ContractKept
  <2>6. CASE status[c] # "closed"
    <3>1. c \in OpenConns
      BY <1>2, <2>6, Constants DEF Owned, OpenConns
    <3>2. Contains(text, "end") => c \in Said
      <4>1. buf[c] \o wire[c] = SubSeq(Requests[c], 1, sent[c])
        BY <2>6 DEF Received
      <4> HIDE DEF text
      <4> QED
        BY <2>4, <4>1 DEF Contains, Said
    <3>3. Begun' = Begun \/ (Contains(text, "end") /\ Begun' = Begun \cup {c})
      <4>1. cgi[c] = "none"
        BY <2>6 DEF Owned
      <4>2. CASE cgi' = cgi
        BY <4>2 DEF Begun
      <4>3. CASE Contains(text, "end") /\ \E p \in {"none", "running"} : cgi' = [cgi EXCEPT ![c] = p]
        <5> HIDE DEF text
        <5> QED
          BY <4>1, <4>3 DEF Begun, ConnTypes
      <4>4. Close(c) => ~ Keep(c, Len(wire[c])) \/ cgi' = cgi
        BY DEF Keep
      <4> QED
        BY <1>5, <1>8, <4>2, <4>3, <4>4
    <3>4. Contract!Serve(c)
      <4> HIDE DEF text
      <4> QED
        BY <1>1, <1>2, <1>6, <2>3, <3>1, <3>2, <3>3
        DEF Contract!Serve, OpenConns, Working, Said, Begun
    <3> QED
      BY <2>2, <3>4 DEF Contractual, Contract!PreforkNext
  <2> QED
    BY <2>5, <2>6
<1> QED
  BY <1>5, <1>7, <1>8

LEMMA ContractNext == PoolInv /\ Received /\ [Next]_vars => Contractual /\ Received'
<1> SUFFICES ASSUME PoolInv, Received, [Next]_vars PROVE Contractual /\ Received'
  OBVIOUS
<1>1. CASE ParentStep
  BY <1>1, ContractLoop, ContractListen, ContractEnds DEF ParentStep
<1>2. ASSUME NEW i \in Children, ChildStep(i) PROVE Contractual /\ Received'
  BY <1>2, ContractLoop, ContractEnds, ContractAccept, ContractAcceptFails, ContractRead
     DEF ChildStep
<1>3. CASE Environment
  BY <1>3, ContractLoop, ContractConnect, ContractSend, ContractEnds DEF Environment
<1>4. CASE UNCHANGED vars
  <2>1. UNCHANGED <<backlog, pipe, owner, status, sent, wire, buf, cgi, cpc>>
    BY <1>4 DEF vars, connVars, childVars
  <2> QED
    BY <2>1, ContractQuiet, WorkingKept, BegunKept
<1> QED
  BY <1>1, <1>2, <1>3, <1>4 DEF Next

LEMMA ContractInit == Init => Contract!PreforkInit /\ Received
<1> SUFFICES ASSUME Init PROVE Contract!PreforkInit /\ Received
  OBVIOUS
<1>1. ASSUME NEW c \in Conns PROVE SubSeq(Requests[c], 1, 0) = <<>> /\ 0 <= Len(Requests[c])
  <2>1. Requests[c] \in Seq(Pieces) /\ Len(Requests[c]) \in Nat
    BY Constants, LenProperties
  <2> QED
    BY <2>1, SubSeqEmpty
<1>2. \A c \in Conns : sent[c] = 0 /\ buf[c] = <<>> /\ wire[c] = <<>> /\ status[c] = "new"
  BY DEF Init
<1>3. <<>> \o <<>> = <<>> /\ ~ Contains(<<>>, "end")
  BY DEF Contains
<1>4. Received
  BY <1>1, <1>2, <1>3 DEF Received
<1>5. Said = {}
  BY <1>1, <1>2, <1>3 DEF Said
<1>6. Working = Children /\ OpenConns = {} /\ Begun = {}
  BY DEF Init, Working, OpenConns, Begun
<1> QED
  BY <1>4, <1>5, <1>6 DEF Init, Contract!PreforkInit, Working, OpenConns, Said, Begun

\* processpool.h:159-216, 228-292; 6_CGI_server.cpp:31-70: for any number of children,
\* connections and deaths, any requests and any buffer, each step of the pool is one
\* that Prefork allows or changes nothing it knows of.
THEOREM PoolIsPrefork == Spec => ImplementsPrefork
<1> DEFINE Inv == PoolInv /\ Received
<1>1. Init => Inv /\ Contract!PreforkInit
  BY PoolInit, ContractInit
<1>2. Inv /\ [Next]_vars => Inv' /\ Contractual
  BY PoolNext, ContractNext
<1> QED
  BY <1>1, <1>2, PTL DEF Spec, ImplementsPrefork, Contract!PreforkSpec, Contractual

\* What Prefork's own steps keep: the line holds each client once who has nobody
\* yet, and a client with a server is open or has been turned away.
Promised ==
  /\ backlog \in Seq(Conns) /\ IsInjective(backlog)
  /\ \A k \in DOMAIN backlog : owner[backlog[k]] = None
  /\ owner \in [Conns -> Children \cup {None}] /\ pipe \in [Children -> Nat]
  /\ IsFiniteSet(InPipes) /\ Cardinality(InPipes) <= Len(backlog)
  /\ Begun \subseteq Said /\ OpenConns \cap Begun = {}
  /\ \A c \in OpenConns \cup Begun : owner[c] # None

LEMMA PromisedArrive == ASSUME Promised, NEW c \in Conns, Contract!Arrive(c) PROVE Promised'
<1>1. /\ owner[c] = None /\ \A k \in DOMAIN backlog : backlog[k] # c
      /\ backlog' = Append(backlog, c) /\ pipe' = pipe /\ owner' = owner
      /\ OpenConns' = OpenConns /\ Said' = Said /\ Begun' = Begun
  BY DEF Contract!Arrive, OpenConns, Said, Begun
<1>2. backlog \in Seq(Conns) /\ Len(backlog) \in Nat /\ DOMAIN backlog = 1 .. Len(backlog)
  BY LenProperties DEF Promised
<1>3. /\ backlog' \in Seq(Conns) /\ Len(backlog') = Len(backlog) + 1
      /\ backlog'[Len(backlog) + 1] = c
      /\ \A k \in 1 .. Len(backlog) : backlog'[k] = backlog[k]
      /\ DOMAIN backlog' = 1 .. Len(backlog) + 1
  BY <1>1, <1>2, AppendProperties, LenProperties
<1>4. IsInjective(backlog') /\ \A k \in DOMAIN backlog' : owner'[backlog'[k]] = None
  BY <1>1, <1>2, <1>3 DEF Promised, IsInjective
<1>5. IsFiniteSet(InPipes') /\ Cardinality(InPipes') <= Len(backlog')
  BY <1>1, <1>2, <1>3, PipesKept, FS_CardinalityType DEF Promised
<1> QED
  BY <1>1, <1>3, <1>4, <1>5 DEF Promised

LEMMA PromisedAnnounce == ASSUME Promised, NEW i \in Children, Contract!Announce(i) PROVE Promised'
<1>1. /\ pipe' = [pipe EXCEPT ![i] = @ + 1] /\ backlog' = backlog /\ owner' = owner
      /\ OpenConns' = OpenConns /\ Said' = Said /\ Begun' = Begun
  BY DEF Contract!Announce, OpenConns, Said, Begun
<1>2. Cardinality(InPipes) < Len(backlog)
  BY SameCount DEF Contract!Announce, Contract!Tickets, InPipes
<1>3. IsFiniteSet(InPipes') /\ Cardinality(InPipes') = Cardinality(InPipes) + 1
  BY <1>1, PipeMore DEF Promised
<1>4. Cardinality(InPipes) \in Nat /\ Len(backlog) \in Nat
  BY FS_CardinalityType, LenProperties DEF Promised
<1>5. pipe' \in [Children -> Nat]
  BY <1>1 DEF Promised
<1> QED
  BY <1>1, <1>2, <1>3, <1>4, <1>5 DEF Promised

LEMMA PromisedAccept == ASSUME Promised, NEW i \in Children, Contract!Accept(i) PROVE Promised'
<1>1. PICK c : c = Head(backlog)
  OBVIOUS
<1>2. /\ pipe[i] > 0 /\ backlog # <<>> /\ backlog' = Tail(backlog)
      /\ pipe' = [pipe EXCEPT ![i] = @ - 1] /\ owner' = [owner EXCEPT ![c] = i]
      /\ OpenConns' = OpenConns \cup {c} /\ Said' = Said /\ Begun' = Begun
  BY <1>1 DEF Contract!Accept, OpenConns, Said, Begun
<1>3. backlog \in Seq(Conns) /\ Len(backlog) \in Nat /\ DOMAIN backlog = 1 .. Len(backlog)
  BY LenProperties DEF Promised
<1>4. /\ c = backlog[1] /\ c \in Conns /\ Len(backlog) >= 1
      /\ backlog' \in Seq(Conns) /\ Len(backlog') = Len(backlog) - 1
      /\ DOMAIN backlog' = 1 .. Len(backlog) - 1
      /\ \A k \in 1 .. Len(backlog) - 1 : backlog'[k] = backlog[k + 1]
  BY <1>1, <1>2, <1>3, HeadTailProperties, LenProperties, EmptySeq
<1>5. owner[c] = None /\ c \notin OpenConns \cup Begun
  BY <1>3, <1>4 DEF Promised
<1>6. owner'[c] = i /\ i # None /\ \A d \in Conns \ {c} : owner'[d] = owner[d]
  BY <1>2, <1>4, Constants DEF Promised
<1>7. IsInjective(backlog') /\ \A k \in DOMAIN backlog' : owner'[backlog'[k]] = None
  <2>1. \A k \in 1 .. Len(backlog) - 1 :
          /\ k + 1 \in DOMAIN backlog /\ k + 1 # 1 /\ 1 \in DOMAIN backlog
          /\ backlog'[k] = backlog[k + 1]
    BY <1>3, <1>4
  <2>2. \A j, k \in DOMAIN backlog : backlog[j] = backlog[k] => j = k
    BY DEF Promised, IsInjective
  <2>3. \A k \in 1 .. Len(backlog) - 1 : backlog'[k] \in Conns \ {c}
    <3> SUFFICES ASSUME NEW k \in 1 .. Len(backlog) - 1
                 PROVE  backlog[k + 1] \in Conns /\ backlog[k + 1] # backlog[1]
      BY <1>4
    <3>1. k + 1 \in 1 .. Len(backlog)
      BY <1>3
    <3> QED
      BY <1>3, <2>1, <2>2, <3>1, ElementOfSeq
  <2>4. IsInjective(backlog')
    <3> SUFFICES ASSUME NEW j \in 1 .. Len(backlog) - 1, NEW k \in 1 .. Len(backlog) - 1,
                        backlog'[j] = backlog'[k]
                 PROVE  j = k
      BY <1>4 DEF IsInjective
    <3>1. j + 1 = k + 1
      BY <2>1, <2>2
    <3> QED
      BY <1>3, <3>1
  <2> QED
    BY <1>3, <1>4, <1>6, <2>1, <2>3, <2>4 DEF Promised
<1>8. IsFiniteSet(InPipes') /\ Cardinality(InPipes') <= Len(backlog')
  <2>1. IsFiniteSet(InPipes') /\ Cardinality(InPipes') = Cardinality(InPipes) - 1
    BY <1>2, PipeLess DEF Promised
  <2>2. Cardinality(InPipes) \in Nat /\ Cardinality(InPipes) <= Len(backlog)
    BY FS_CardinalityType DEF Promised
  <2> QED
    BY <1>3, <1>4, <2>1, <2>2
<1>9. pipe' \in [Children -> Nat]
  BY <1>2 DEF Promised
<1>10. owner' \in [Conns -> Children \cup {None}]
  BY <1>2 DEF Promised
<1>11. OpenConns \cup Begun \subseteq Conns
  BY DEF OpenConns, Begun
<1> QED
  BY <1>2, <1>4, <1>5, <1>6, <1>7, <1>8, <1>9, <1>10, <1>11 DEF Promised

LEMMA PromisedWaste == ASSUME Promised, NEW i \in Children, Contract!Waste(i) PROVE Promised'
<1>1. /\ pipe[i] > 0 /\ pipe' = [pipe EXCEPT ![i] = @ - 1]
      /\ backlog' = backlog /\ owner' = owner
      /\ OpenConns' = OpenConns /\ Said' = Said /\ Begun' = Begun
  BY DEF Contract!Waste, OpenConns, Said, Begun
<1>2. IsFiniteSet(InPipes') /\ Cardinality(InPipes') = Cardinality(InPipes) - 1
  BY <1>1, PipeLess DEF Promised
<1>3. Cardinality(InPipes) \in Nat /\ Len(backlog) \in Nat
  BY FS_CardinalityType, LenProperties DEF Promised
<1>4. pipe' \in [Children -> Nat]
  BY <1>1 DEF Promised
<1> QED
  BY <1>1, <1>2, <1>3, <1>4 DEF Promised

LEMMA PromisedClient ==
  ASSUME Promised, NEW c \in Conns, Contract!CompleteLine(c) \/ Contract!Serve(c)
  PROVE  Promised'
<1>1. backlog' = backlog /\ pipe' = pipe /\ owner' = owner
  BY DEF Contract!CompleteLine, Contract!Serve
<1>2. \/ OpenConns' = OpenConns /\ Said' = Said \cup {c} /\ Begun' = Begun
      \/ /\ c \in OpenConns /\ OpenConns' = OpenConns \ {c} /\ Said' = Said
         /\ Begun' = Begun \/ (c \in Said /\ Begun' = Begun \cup {c})
  BY DEF Contract!CompleteLine, Contract!Serve, OpenConns, Said, Begun
<1>3. Begun' \subseteq Said' /\ OpenConns' \cap Begun' = {}
      /\ OpenConns' \cup Begun' \subseteq OpenConns \cup Begun
  BY <1>2 DEF Promised
<1> QED
  BY <1>1, <1>3, PipesKept DEF Promised

LEMMA PromisedDie == ASSUME Promised, NEW D, Contract!Die(D) PROVE Promised'
<1>1. /\ pipe' = [i \in Children |-> IF i \in D THEN 0 ELSE pipe[i]]
      /\ backlog' = backlog /\ owner' = owner
      /\ OpenConns' \subseteq OpenConns /\ Said' = Said /\ Begun' = Begun
  BY DEF Contract!Die, OpenConns, Said, Begun
<1>2. /\ IsFiniteSet(InPipes') /\ Cardinality(InPipes') <= Cardinality(InPipes)
      /\ Cardinality(InPipes) \in Nat /\ Cardinality(InPipes') \in Nat
  BY <1>1, PipesEmptied DEF Promised
<1>3. Len(backlog) \in Nat /\ pipe' \in [Children -> Nat]
  BY <1>1, LenProperties DEF Promised
<1> QED
  BY <1>1, <1>2, <1>3 DEF Promised

LEMMA PromisedStep == Promised /\ Contractual => Promised'
<1> SUFFICES ASSUME Promised, Contractual PROVE Promised'
  OBVIOUS
<1>1. CASE Contract!PreforkNext
  BY <1>1, PromisedArrive, PromisedAnnounce, PromisedAccept, PromisedWaste, PromisedClient,
     PromisedDie
  DEF Contract!PreforkNext
<1>2. CASE UNCHANGED Contract!preforkVars
  <2>1. /\ backlog' = backlog /\ pipe' = pipe /\ owner' = owner
        /\ OpenConns' = OpenConns /\ Said' = Said /\ Begun' = Begun
    BY <1>2 DEF Contract!preforkVars, OpenConns, Said, Begun
  <2> QED
    BY <2>1, PipesKept DEF Promised
<1> QED
  BY <1>1, <1>2 DEF Contractual

LEMMA PromisedInit == Contract!PreforkInit => Promised
<1> SUFFICES ASSUME Contract!PreforkInit PROVE Promised
  OBVIOUS
<1>1. /\ backlog = <<>> /\ pipe = [i \in Children |-> 0] /\ owner = [c \in Conns |-> None]
      /\ OpenConns = {} /\ Said = {} /\ Begun = {}
  BY DEF Contract!PreforkInit, OpenConns, Said, Begun
<1>2. InPipes = {}
  BY <1>1, InPipe
<1>3. IsFiniteSet(InPipes) /\ Cardinality(InPipes) = 0
  BY <1>2, FS_EmptySet
<1>4. backlog \in Seq(Conns) /\ Len(backlog) = 0 /\ DOMAIN backlog = {}
  BY <1>1, EmptySeq
<1> QED
  BY <1>1, <1>3, <1>4 DEF Promised, IsInjective

\* Whatever does what Prefork allows has a waiting client for each ticket, and has
\* started programs only for complete lines of clients that it is done with.
THEOREM PreforkKeepsPromise == Contract!PreforkSpec => []Contract!Promise
<1>1. Promised => Contract!Promise
  <2> SUFFICES ASSUME Promised PROVE Contract!Covered /\ Contract!StartedOnce
    BY DEF Contract!Promise
  <2>1. Contract!Covered
    BY SameCount DEF Promised, Contract!Covered, Contract!Tickets, InPipes
  <2>2. Contract!StartedOnce
    BY DEF Promised, Contract!StartedOnce, Begun, OpenConns, Said
  <2> QED
    BY <2>1, <2>2
<1> QED
  BY <1>1, PromisedInit, PromisedStep, PTL DEF Contract!PreforkSpec, Contractual
=============================================================================
