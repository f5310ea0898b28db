--------------------------- MODULE Pipeline_proofs ---------------------------
(***************************************************************************)
(* Proofs about the shells and the drivers, for any commands, pipes of any  *)
(* capacity and any number of children and of open pipes.                   *)
(***************************************************************************)
EXTENDS Pipeline, FiniteSetTheorems, SequenceTheorems, TLAPS

\* A job is in hand wherever one is run, and its pipe exists once it was made.
InHand ==
    /\ pc \notin {"prompt", "exit"} => line # <<>>
    /\ pc \in {"fork1", "fork2"} => buf # <<>>
    /\ pc = "close" => waits = 2

\* The children not yet reaped: the strays, and those still to be waited for.
\* A driver may have fewer, since it waits twice whatever became of fork.
Left ==
    /\ pc \in {"prompt", "run", "fork1", "exit"} => Cardinality(Unreaped) = strays
    /\ pc = "fork2" /\ Shell => Cardinality(Unreaped) = strays + 1
    /\ pc = "fork2" /\ ~Shell => Cardinality(Unreaped) \in 0 .. 1
    /\ pc \in {"close", "wait"} /\ Shell => Cardinality(Unreaped) = strays + waits
    /\ pc \in {"close", "wait"} /\ ~Shell => Cardinality(Unreaped) \in 0 .. waits
    /\ ~Shell => strays = 0 /\ ~back

IInv == TypeOK /\ InHand /\ Left

-----------------------------------------------------------------------------
(* Children and jobs *)

LEMMA KidTypes ==
    ASSUME NEW reads \in Reads, NEW left \in 0 .. MaxOut, NEW in \in {0} \cup Pipes,
           NEW out \in {0} \cup Pipes, NEW R \in SUBSET Pipes, NEW W \in SUBSET Pipes
    PROVE  /\ Kid(reads, left, in, out, R, W) \in KidType
           /\ Kid(reads, left, in, out, R, W).st = "run"
           /\ Kid(reads, left, in, out, R, W).reads = reads
           /\ Kid(reads, left, in, out, R, W).in = in
  BY DEF Kid, KidType

LEMMA EndedTypes ==
    ASSUME NEW st \in {"zombie", "reaped"}
    PROVE  Ended(st) \in KidType /\ Ended(st).st = st /\ Ended(st).reads = "none"
<1> DEFINE kid == Kid("none", 0, 0, 0, {}, {})
<1>1. kid \in KidType /\ kid.reads = "none"
  BY KidTypes, PipeAssumption DEF Reads
<1> HIDE DEF kid
<1>2. Ended(st) = [kid EXCEPT !.st = st]
  BY DEF Ended, kid
<1> QED  BY <1>1, <1>2 DEF KidType

LEMMA JobTypes ==
    ASSUME NEW s \in Job
    PROVE  s.l \in 0 .. MaxOut /\ s.r \in Reads
<1>1. CASE s = Single
  BY <1>1, PipeAssumption DEF Single, Reads
<1>2. CASE s \in [piped : {TRUE}, l : 0 .. MaxOut, r : Reads]
  BY <1>2
<1> QED  BY <1>1, <1>2 DEF Job

\* What a run of children is left with when one of them changes.
LEMMA KidsExcept ==
    ASSUME TypeOK, NEW c \in Kids, NEW kid \in KidType,
           kid.reads # "none" => kid.in # 0,
           kids' = [kids EXCEPT ![c] = kid], Pipes' = Pipes
    PROVE  /\ kids' \in Seq(KidType)' /\ Kids' = Kids /\ kids'[c] = kid
           /\ \A d \in Kids : d # c => kids'[d] = kids[d]
           /\ \A d \in Kids' : kids'[d].reads # "none" => kids'[d].in # 0
<1>1. kids \in Seq(KidType) /\ Kids = 1 .. Len(kids) /\ KidType' = KidType
  BY DEF TypeOK, Kids, KidType
<1>2. /\ kids' \in Seq(KidType) /\ Len(kids') = Len(kids)
      /\ \A d \in 1 .. Len(kids) : kids'[d] = IF d = c THEN kid ELSE kids[d]
  BY <1>1, ExceptSeq
<1>3. Kids' = Kids
  BY <1>1, <1>2 DEF Kids
<1> QED  BY <1>1, <1>2, <1>3 DEF TypeOK

\* What it is left with when one is started.
LEMMA KidsAppend ==
    ASSUME TypeOK, NEW kid \in KidType, kid.st = "run",
           kid.reads # "none" => kid.in # 0,
           kids' = Append(kids, kid), Pipes' = Pipes
    PROVE  /\ kids' \in Seq(KidType)'
           /\ \A d \in Kids' : kids'[d].reads # "none" => kids'[d].in # 0
           /\ Unreaped' = Unreaped \cup {Len(kids) + 1}
           /\ Len(kids) + 1 \notin Unreaped
<1>1. kids \in Seq(KidType) /\ Kids = 1 .. Len(kids) /\ KidType' = KidType
      /\ Len(kids) \in Nat
  BY DEF TypeOK, Kids, KidType
<1>2. /\ kids' \in Seq(KidType) /\ Len(kids') = Len(kids) + 1
      /\ \A d \in 1 .. Len(kids) + 1 : kids'[d] = IF d = Len(kids) + 1 THEN kid ELSE kids[d]
  BY <1>1, AppendProperties
<1>3. Kids' = Kids \cup {Len(kids) + 1} /\ Len(kids) + 1 \notin Kids
  BY <1>1, <1>2 DEF Kids
<1>4. \A d \in Kids' : kids'[d].reads # "none" => kids'[d].in # 0
  BY <1>1, <1>2, <1>3 DEF TypeOK
<1>5. Unreaped' = Unreaped \cup {Len(kids) + 1} /\ Len(kids) + 1 \notin Unreaped
  BY <1>1, <1>2, <1>3 DEF Unreaped
<1> QED  BY <1>1, <1>2, <1>4, <1>5

-----------------------------------------------------------------------------
(* How many are left *)

LEMMA UnreapedFinite ==
    ASSUME TypeOK  PROVE IsFiniteSet(Unreaped) /\ Cardinality(Unreaped) \in Nat
<1>1. Kids = 1 .. Len(kids) /\ Len(kids) \in Nat
  BY DEF TypeOK, Kids
<1>2. IsFiniteSet(Kids)
  BY <1>1, FS_Interval
<1>3. Unreaped \in SUBSET Kids
  BY DEF Unreaped
<1> QED  BY <1>2, <1>3, FS_Subset, FS_CardinalityType

LEMMA OneMore ==
    ASSUME TypeOK, NEW x, x \notin Unreaped, Unreaped' = Unreaped \cup {x}
    PROVE  Cardinality(Unreaped') = Cardinality(Unreaped) + 1
  BY UnreapedFinite, FS_AddElement

LEMMA OneLess ==
    ASSUME TypeOK, NEW x \in Unreaped, Unreaped' = Unreaped \ {x}
    PROVE  /\ Cardinality(Unreaped') = Cardinality(Unreaped) - 1
           /\ Cardinality(Unreaped) > 0
<1>1. Cardinality(Unreaped) # 0
  BY UnreapedFinite, FS_EmptySet
<1> QED  BY <1>1, UnreapedFinite, FS_RemoveElement

LEMMA ReturnKeeps ==
    ASSUME TypeOK, line # <<>>, Return
    PROVE  /\ line' \in Seq(Job) /\ back' = FALSE /\ pc' \in {"run", "prompt"}
           /\ pc' = "run" => line' # <<>>
<1>1. line \in Seq(Job)
  BY DEF TypeOK
<1>2. Tail(line) \in Seq(Job) /\ Len(Tail(line)) = Len(line) - 1 /\ Len(line) \in Nat
  BY <1>1, HeadTailProperties
<1>3. Len(line) > 1 => Tail(line) # <<>>
  <2> DEFINE rest == Tail(line)
  <2>1. Len(rest) = Len(line) - 1 /\ Len(line) \in Nat
    BY <1>2
  <2> HIDE DEF rest
  <2>2. Len(line) > 1 => rest # <<>>
    BY <2>1
  <2> QED  BY <2>2 DEF rest
<1> QED  BY <1>2, <1>3 DEF Return

\* wait takes one that is left, if any is.
LEMMA ReapKeeps ==
    ASSUME TypeOK, Reap, UNCHANGED buf
    PROVE  /\ kids' \in Seq(KidType)'
           /\ \A d \in Kids' : kids'[d].reads # "none" => kids'[d].in # 0
           /\ \/ Cardinality(Unreaped) = 0 /\ Cardinality(Unreaped') = 0
              \/ Cardinality(Unreaped) > 0 /\ Cardinality(Unreaped') = Cardinality(Unreaped) - 1
<1>1. Pipes' = Pipes /\ KidType' = KidType
  BY DEF Pipes, KidType
<1>2. CASE Unreaped = {}
  <2>1. UNCHANGED kids
    BY <1>2 DEF Reap
  <2>2. Unreaped' = Unreaped /\ Kids' = Kids
    BY <2>1 DEF Unreaped, Kids
  <2>3. Cardinality(Unreaped) = 0 /\ Cardinality(Unreaped') = 0
    BY <1>2, <2>2, FS_EmptySet
  <2> QED  BY <1>1, <2>1, <2>2, <2>3 DEF TypeOK
<1>3. CASE Unreaped # {}
  <2>1. PICK c \in Kids : kids[c].st = "zombie" /\ kids' = [kids EXCEPT ![c] = Ended("reaped")]
    BY <1>3 DEF Reap
  <2>2. Ended("reaped") \in KidType /\ Ended("reaped").st = "reaped"
        /\ Ended("reaped").reads = "none"
    BY EndedTypes
  <2>3. /\ kids' \in Seq(KidType)' /\ Kids' = Kids /\ kids'[c] = Ended("reaped")
        /\ \A d \in Kids : d # c => kids'[d] = kids[d]
        /\ \A d \in Kids' : kids'[d].reads # "none" => kids'[d].in # 0
    BY <1>1, <2>1, <2>2, KidsExcept
  <2>4. c \in Unreaped /\ Unreaped' = Unreaped \ {c}
    BY <2>1, <2>2, <2>3 DEF Unreaped
  <2> QED  BY <2>3, <2>4, OneLess
<1> QED  BY <1>2, <1>3

\* What a command does by itself leaves it unreaped.
LEMMA KidStepKeeps ==
    ASSUME IInv, NEW c \in Kids, KidStep(c)  PROVE IInv'
<1>0. /\ TypeOK /\ InHand /\ Left /\ kids[c] \in KidType /\ Alive(c)
      /\ CAP \in Nat \ {0} /\ MaxOut \in Nat
  BY PipeAssumption, ElementOfSeq DEF IInv, TypeOK, Kids, KidStep, Write, SigPipe, Read,
                                      ReadsEnd, KidExits
<1>1. UNCHANGED <<prog, tty, pc, line, back, held, waits, strays, timedout>>
  BY DEF KidStep, Write, SigPipe, Read, ReadsEnd, KidExits, ByKid
<1>2. buf' \in Seq(0 .. CAP) /\ Pipes' = Pipes
  <2>1. CASE UNCHANGED buf
    BY <1>0, <2>1 DEF TypeOK, Pipes
  <2>2. ASSUME NEW k \in Pipes, NEW n \in 0 .. CAP, buf' = [buf EXCEPT ![k] = n]
        PROVE  buf' \in Seq(0 .. CAP) /\ Pipes' = Pipes
    BY <1>0, <2>2, ExceptSeq DEF TypeOK, Pipes
  <2>3. CASE Write(c) /\ kids[c].out # 0
    <3>1. kids[c].out \in Pipes
      BY <1>0, <2>3 DEF KidType
    <3>2. buf[kids[c].out] \in 0 .. CAP
      BY <1>0, <3>1, ElementOfSeq DEF TypeOK, Pipes
    <3>3. buf[kids[c].out] < CAP /\ buf' = [buf EXCEPT ![kids[c].out] = buf[kids[c].out] + 1]
      BY <2>3 DEF Write
    <3>4. buf[kids[c].out] + 1 \in 0 .. CAP
      BY <1>0, <3>2, <3>3
    <3> QED  BY <2>2, <3>1, <3>3, <3>4
  <2>4. CASE Read(c)
    <3>1. kids[c].in \in Pipes
      BY <1>0, <2>4 DEF KidType, Read, TypeOK
    <3>2. buf[kids[c].in] \in 0 .. CAP
      BY <1>0, <3>1, ElementOfSeq DEF TypeOK, Pipes
    <3>3. buf[kids[c].in] > 0 /\ buf' = [buf EXCEPT ![kids[c].in] = buf[kids[c].in] - 1]
      BY <2>4 DEF Read
    <3>4. buf[kids[c].in] - 1 \in 0 .. CAP
      BY <1>0, <3>2, <3>3
    <3> QED  BY <2>2, <3>1, <3>3, <3>4
  <2> QED  BY <2>1, <2>3, <2>4 DEF KidStep, Write, SigPipe, ReadsEnd, KidExits
<1>3. PICK kid \in KidType : /\ kids' = [kids EXCEPT ![c] = kid]
                             /\ kid.st # "reaped"
                             /\ kid.reads # "none" => kid.in # 0
  <2>1. CASE Write(c)
    <3>1. /\ [kids[c] EXCEPT !.left = @ - 1] \in KidType
          /\ [kids[c] EXCEPT !.left = @ - 1].st = kids[c].st
          /\ [kids[c] EXCEPT !.left = @ - 1].reads = kids[c].reads
          /\ [kids[c] EXCEPT !.left = @ - 1].in = kids[c].in
      BY <1>0, <2>1 DEF KidType, Write
    <3> QED  BY <1>0, <2>1, <3>1 DEF Write, Alive, TypeOK
  <2>2. CASE Read(c) \/ ReadsEnd(c)
    <3>1. PICK reads \in {"none", kids[c].reads} : kids' = [kids EXCEPT ![c].reads = reads]
      BY <2>2 DEF Read, ReadsEnd
    <3>2. /\ [kids[c] EXCEPT !.reads = reads] \in KidType
          /\ [kids[c] EXCEPT !.reads = reads].st = kids[c].st
          /\ [kids[c] EXCEPT !.reads = reads].reads = reads
          /\ [kids[c] EXCEPT !.reads = reads].in = kids[c].in
      BY <1>0 DEF KidType, Reads
    <3> QED  BY <1>0, <3>1, <3>2 DEF Alive, TypeOK
  <2>3. CASE SigPipe(c) \/ KidExits(c)
    BY <2>3, EndedTypes DEF SigPipe, KidExits
  <2> QED  BY <2>1, <2>2, <2>3 DEF KidStep
<1>4. /\ kids' \in Seq(KidType)' /\ Kids' = Kids /\ kids'[c] = kid
      /\ \A d \in Kids : d # c => kids'[d] = kids[d]
      /\ \A d \in Kids' : kids'[d].reads # "none" => kids'[d].in # 0
  BY <1>0, <1>2, <1>3, KidsExcept
<1>5. Unreaped' = Unreaped
  BY <1>0, <1>3, <1>4 DEF Unreaped, Alive
<1>6. TypeOK'
  BY <1>0, <1>1, <1>2, <1>4 DEF TypeOK
<1>7. InHand'
  <2>1. buf' # <<>> <=> buf # <<>>
    BY <1>0, <1>2 DEF TypeOK, Pipes
  <2> QED  BY <1>0, <1>1, <2>1 DEF InHand
<1>8. Left'
  BY <1>0, <1>1, <1>5 DEF Left, Shell
<1> QED  BY <1>6, <1>7, <1>8 DEF IInv

-----------------------------------------------------------------------------
(* The steps of the parent *)

\* A child is started.
LEMMA ForkKeeps ==
    ASSUME TypeOK, NEW kid \in KidType, kid.st = "run", kid.reads # "none" => kid.in # 0,
           kids' = Append(kids, kid), UNCHANGED buf
    PROVE  /\ kids' \in Seq(KidType)' /\ Pipes' = Pipes
           /\ \A d \in Kids' : kids'[d].reads # "none" => kids'[d].in # 0
           /\ Cardinality(Unreaped') = Cardinality(Unreaped) + 1
  BY KidsAppend, OneMore DEF Pipes

\* Nothing happens to the children.
LEMMA SameKids ==
    ASSUME UNCHANGED <<buf, kids>>
    PROVE  Pipes' = Pipes /\ Kids' = Kids /\ KidType' = KidType /\ Unreaped' = Unreaped
  BY DEF Pipes, Kids, KidType, Unreaped

\* The children that a shell or a driver starts.
LEMMA NewKids ==
    ASSUME TypeOK
    PROVE  /\ Kid("none", 0, 0, 0, held, held) \in KidType
           /\ Kid("none", 0, 0, 0, held, held).st = "run"
           /\ Kid("none", 0, 0, 0, held, held).reads = "none"
           /\ line # <<>> /\ buf # <<>> =>
                 /\ Writer(Len(buf)) \in KidType /\ Writer(Len(buf)).st = "run"
                 /\ Writer(Len(buf)).reads = "none"
                 /\ Reader(Len(buf)) \in KidType /\ Reader(Len(buf)).st = "run"
                 /\ Reader(Len(buf)).in # 0
<1>1. held \in SUBSET Pipes /\ \A k \in Nat : held \ {k} \in SUBSET Pipes
  BY DEF TypeOK
<1>2. "none" \in Reads /\ 0 \in 0 .. MaxOut
  BY PipeAssumption DEF Reads
<1>3. ASSUME line # <<>>, buf # <<>>
      PROVE  /\ Head(line).l \in 0 .. MaxOut /\ Head(line).r \in Reads
             /\ Len(buf) \in Pipes /\ Len(buf) # 0 /\ Len(buf) \in Nat
  <2>1. Head(line) \in Job
    BY <1>3, HeadTailProperties DEF TypeOK
  <2>2. Len(buf) \in Nat \ {0} /\ DOMAIN buf = 1 .. Len(buf)
    BY <1>3, EmptySeq, LenProperties DEF TypeOK
  <2> QED  BY <2>1, <2>2, JobTypes DEF Pipes
<1>4. ASSUME line # <<>>, buf # <<>>
      PROVE  /\ Writer(Len(buf)) \in KidType /\ Writer(Len(buf)).st = "run"
             /\ Writer(Len(buf)).reads = "none"
  <2>1. (IF Shell THEN held \ {Len(buf)} ELSE held) \in SUBSET Pipes
    BY <1>1, <1>3, <1>4
  <2> QED  BY <1>1, <1>2, <1>3, <1>4, <2>1, KidTypes DEF Writer
<1>5. ASSUME line # <<>>, buf # <<>>
      PROVE  /\ Reader(Len(buf)) \in KidType /\ Reader(Len(buf)).st = "run"
             /\ Reader(Len(buf)).in # 0
  BY <1>1, <1>2, <1>3, <1>5, KidTypes DEF Reader
<1> QED  BY <1>1, <1>2, <1>4, <1>5, KidTypes

LEMMA PromptSteps ==
    ASSUME IInv, ReadLine \/ Quit \/ ForkSingleFails \/ MakePipeFails \/ CloseEnds \/ WaitsDone
    PROVE  IInv'
<1>0. TypeOK /\ InHand /\ Left /\ UNCHANGED <<buf, kids>>
  BY DEF IInv, ReadLine, Quit, ForkSingleFails, MakePipeFails, CloseEnds, WaitsDone
<1>1. Pipes' = Pipes /\ Kids' = Kids /\ KidType' = KidType /\ Unreaped' = Unreaped
  BY <1>0, SameKids
<1>2. Cardinality(Unreaped) \in Nat
  BY <1>0, UnreapedFinite
<1>3. CASE ReadLine
  <2>1. line' \in Seq(Job) /\ line' # <<>>
    <3>1. PICK s1 \in Job, s2 \in Job : line' \in {<<s1>>, <<s1, s2>>}
      BY <1>3 DEF ReadLine
    <3>2. CASE line' = <<s1>>
      BY <3>2
    <3>3. CASE line' = <<s1, s2>>
      BY <3>3
    <3> QED  BY <3>1, <3>2, <3>3
  <2>2. TypeOK'
    BY <1>0, <1>1, <1>3, <2>1 DEF TypeOK, ReadLine
  <2>3. InHand'
    BY <1>3, <2>1 DEF InHand, ReadLine
  <2>4. Left'
    BY <1>0, <1>1, <1>3 DEF Left, ReadLine, Shell
  <2> QED  BY <2>2, <2>3, <2>4 DEF IInv
<1>4. CASE Quit
  BY <1>0, <1>1, <1>4 DEF IInv, TypeOK, InHand, Left, Quit, Shell
<1>5. CASE ForkSingleFails \/ MakePipeFails
  <2>1. pc = "run" /\ Return /\ UNCHANGED <<prog, tty, held, waits, strays, timedout>>
    BY <1>5 DEF ForkSingleFails, MakePipeFails
  <2>2. /\ line' \in Seq(Job) /\ back' = FALSE /\ pc' \in {"run", "prompt"}
        /\ pc' = "run" => line' # <<>>
    BY <1>0, <2>1, ReturnKeeps DEF InHand
  <2>3. TypeOK' /\ InHand'
    BY <1>0, <1>1, <2>1, <2>2 DEF TypeOK, InHand
  <2>4. Left'
    BY <1>0, <1>1, <2>1, <2>2 DEF Left, Shell
  <2> QED  BY <2>3, <2>4 DEF IInv
<1>6. CASE CloseEnds
  <2>1. TypeOK' /\ InHand'
    BY <1>0, <1>1, <1>6 DEF TypeOK, InHand, CloseEnds
  <2>2. Left'
    BY <1>0, <1>1, <1>6 DEF Left, CloseEnds, Shell
  <2> QED  BY <2>1, <2>2 DEF IInv
<1>7. CASE WaitsDone
  <2>1. CASE Shell
    <3>1. /\ line' \in Seq(Job) /\ back' = FALSE /\ pc' \in {"run", "prompt"}
          /\ pc' = "run" => line' # <<>>
      BY <1>0, <1>7, <2>1, ReturnKeeps DEF InHand, WaitsDone
    <3>2. TypeOK' /\ InHand'
      BY <1>0, <1>1, <1>7, <2>1, <3>1 DEF TypeOK, InHand, WaitsDone
    <3>3. Left'
      BY <1>0, <1>1, <1>2, <1>7, <2>1, <3>1 DEF Left, WaitsDone, Shell, TypeOK
    <3> QED  BY <3>2, <3>3 DEF IInv
  <2>2. CASE ~Shell
    <3>1. TypeOK' /\ InHand'
      BY <1>0, <1>1, <1>7, <2>2 DEF TypeOK, InHand, WaitsDone
    <3>2. Left'
      BY <1>0, <1>1, <1>2, <1>7, <2>2 DEF Left, WaitsDone, Shell, TypeOK
    <3> QED  BY <3>1, <3>2 DEF IInv
  <2> QED  BY <2>1, <2>2
<1> QED  BY <1>3, <1>4, <1>5, <1>6, <1>7

LEMMA PipeSteps ==
    ASSUME IInv, MakePipe \/ Fork1Fails \/ Fork2Fails  PROVE IInv'
<1>0. TypeOK /\ InHand /\ Left /\ UNCHANGED <<prog, tty, kids, timedout>>
  BY DEF IInv, MakePipe, Fork1Fails, Fork2Fails
<1>1. Kids' = Kids /\ Unreaped' = Unreaped
  BY <1>0 DEF Kids, Unreaped
<1>2. CASE MakePipe
  <2>1. /\ buf' \in Seq(0 .. CAP) /\ buf' # <<>> /\ Pipes \subseteq Pipes'
        /\ Len(buf') \in Pipes'
    <3>1. buf \in Seq(0 .. CAP) /\ 0 \in 0 .. CAP /\ buf' = Append(buf, 0)
      BY <1>0, <1>2, PipeAssumption DEF TypeOK, MakePipe
    <3>2. buf' \in Seq(0 .. CAP) /\ Len(buf') = Len(buf) + 1 /\ Len(buf) \in Nat
      BY <3>1, AppendProperties, LenProperties
    <3>3. DOMAIN buf = 1 .. Len(buf) /\ DOMAIN buf' = 1 .. Len(buf')
      BY <3>1, <3>2, LenProperties
    <3> QED  BY <3>2, <3>3 DEF Pipes
  <2>2. KidType \subseteq KidType'
    BY <2>1 DEF KidType
  <2>3. kids' \in Seq(KidType')
    BY <1>0, <2>2, SeqMonotonic DEF TypeOK
  <2>4. held' \subseteq Pipes'
    BY <1>0, <1>2, <2>1 DEF MakePipe, TypeOK
  <2>5. TypeOK'
    BY <1>0, <1>1, <1>2, <2>1, <2>3, <2>4 DEF TypeOK, MakePipe
  <2>6. InHand' /\ Left'
    BY <1>0, <1>1, <1>2, <2>1 DEF InHand, Left, MakePipe, Shell
  <2> QED  BY <2>5, <2>6 DEF IInv
<1>3. CASE Fork1Fails \/ Fork2Fails
  <2>1. /\ Pipes' = Pipes /\ KidType' = KidType /\ UNCHANGED <<held, buf>>
        /\ pc \in {"fork1", "fork2"} /\ line # <<>>
    BY <1>0, <1>3, SameKids DEF Fork1Fails, Fork2Fails, InHand
  <2>2. Cardinality(Unreaped) \in Nat
    BY <1>0, UnreapedFinite
  <2>3. CASE Shell
    <3>1. Return /\ UNCHANGED waits /\ strays' \in {strays, strays + 1}
          /\ (pc = "fork2" <=> strays' = strays + 1)
      BY <1>0, <1>3, <2>3 DEF Fork1Fails, Fork2Fails, TypeOK
    <3>2. /\ line' \in Seq(Job) /\ back' = FALSE /\ pc' \in {"run", "prompt"}
          /\ pc' = "run" => line' # <<>>
      BY <1>0, <2>1, <3>1, ReturnKeeps
    <3>3. InHand'
      BY <2>1, <3>2 DEF InHand
    <3>4. TypeOK'
      <4>1. strays' \in Nat /\ waits' \in 0 .. 2 /\ back' \in BOOLEAN
        <5>1. back' \in BOOLEAN
          BY <3>2
        <5>2. strays' \in Nat /\ waits' \in 0 .. 2
          BY <1>0, <3>1 DEF TypeOK
        <5> QED  BY <5>1, <5>2
      <4> QED  BY <1>0, <1>1, <2>1, <3>2, <4>1 DEF TypeOK
    <3>5. Left'
      BY <1>0, <1>1, <2>1, <2>3, <3>1, <3>2 DEF Left, Shell
    <3> QED  BY <3>3, <3>4, <3>5 DEF IInv
  <2>4. CASE ~Shell
    <3>1. UNCHANGED <<line, back, strays>>
          /\ \/ pc = "fork1" /\ pc' = "fork2" /\ UNCHANGED waits
             \/ pc = "fork2" /\ pc' = "close" /\ waits' = 2
      BY <1>0, <1>3, <2>4 DEF Fork1Fails, Fork2Fails, WaitForBoth
    <3>2. TypeOK' /\ InHand'
      BY <1>0, <1>1, <2>1, <3>1 DEF TypeOK, InHand
    <3>3. Left'
      BY <1>0, <1>1, <2>1, <2>2, <2>4, <3>1 DEF Left, Shell
    <3> QED  BY <3>2, <3>3 DEF IInv
  <2> QED  BY <2>3, <2>4
<1> QED  BY <1>2, <1>3

LEMMA ForkSteps ==
    ASSUME IInv, ForkBack \/ ForkSingle \/ Fork1 \/ Fork2  PROVE IInv'
<1>0. TypeOK /\ InHand /\ Left /\ UNCHANGED <<prog, tty, held, buf, timedout>> /\ line # <<>>
  BY DEF IInv, ForkBack, ForkSingle, Fork1, Fork2, InHand
<1>1. PICK kid \in KidType : /\ kid.st = "run" /\ (kid.reads # "none" => kid.in # 0)
                             /\ kids' = Append(kids, kid)
  <2>1. pc \in {"fork1", "fork2"} => buf # <<>>
    BY <1>0 DEF InHand
  <2> QED  BY <1>0, <2>1, NewKids DEF ForkBack, ForkSingle, NewSingle, Fork1, Fork2
<1>2. /\ kids' \in Seq(KidType)' /\ Pipes' = Pipes
      /\ \A d \in Kids' : kids'[d].reads # "none" => kids'[d].in # 0
      /\ Cardinality(Unreaped') = Cardinality(Unreaped) + 1
  BY <1>0, <1>1, ForkKeeps
<1>3. CASE ForkBack
  <2>1. /\ line' \in Seq(Job) /\ back' = FALSE /\ pc' \in {"run", "prompt"}
        /\ pc' = "run" => line' # <<>>
    BY <1>0, <1>3, ReturnKeeps DEF ForkBack
  <2>2. TypeOK' /\ InHand'
    <3>1. strays' \in Nat /\ waits' \in 0 .. 2 /\ back' \in BOOLEAN
      <4>1. back' \in BOOLEAN
        BY <2>1
      <4>2. strays' \in Nat /\ waits' \in 0 .. 2
        BY <1>0, <1>3 DEF TypeOK, ForkBack
      <4> QED  BY <4>1, <4>2
    <3>2. TypeOK'
      BY <1>0, <1>2, <2>1, <3>1 DEF TypeOK
    <3> QED  BY <2>1, <3>2 DEF InHand
  <2>3. Left'
    BY <1>0, <1>2, <1>3, <2>1 DEF Left, ForkBack, Shell
  <2> QED  BY <2>2, <2>3 DEF IInv
<1>4. CASE ForkSingle \/ Fork1 \/ Fork2
  <2>1. /\ UNCHANGED <<line, back, strays>>
        /\ \/ pc = "run" /\ pc' = "wait" /\ waits' = 1
           \/ pc = "fork1" /\ pc' = "fork2" /\ waits' = waits
           \/ pc = "fork2" /\ pc' = (IF Shell THEN "wait" ELSE "close") /\ waits' = 2
    BY <1>4 DEF ForkSingle, Fork1, Fork2, WaitForBoth
  <2>2. TypeOK' /\ InHand'
    BY <1>0, <1>2, <2>1 DEF TypeOK, InHand
  <2>3. Left'
    BY <1>0, <1>2, <2>1 DEF Left, Shell, TypeOK
  <2> QED  BY <2>2, <2>3 DEF IInv
<1> QED  BY <1>3, <1>4

LEMMA WaitStep ==
    ASSUME IInv, Wait  PROVE IInv'
<1>0. /\ TypeOK /\ InHand /\ Left /\ Reap /\ waits > 0 /\ waits' = waits - 1
      /\ pc = "wait"
      /\ UNCHANGED <<prog, tty, pc, line, back, held, buf, strays, timedout>>
  BY DEF IInv, Wait
<1>1. /\ kids' \in Seq(KidType)'
      /\ \A d \in Kids' : kids'[d].reads # "none" => kids'[d].in # 0
      /\ \/ Cardinality(Unreaped) = 0 /\ Cardinality(Unreaped') = 0
         \/ Cardinality(Unreaped) > 0 /\ Cardinality(Unreaped') = Cardinality(Unreaped) - 1
  BY <1>0, ReapKeeps
<1>2. Cardinality(Unreaped) \in Nat
  BY <1>0, UnreapedFinite
<1>3. TypeOK' /\ InHand'
  BY <1>0, <1>1 DEF TypeOK, InHand, Pipes
<1>4. Left'
  BY <1>0, <1>1, <1>2 DEF Left, Shell, TypeOK
<1> QED  BY <1>3, <1>4 DEF IInv

\* The handler ends whom it finds, and reaps nobody.
LEMMA AlarmStep ==
    ASSUME IInv, Alarm  PROVE IInv'
<1>0. /\ TypeOK /\ InHand /\ Left /\ prog = "Ques5" /\ pc \in {"close", "wait"}
      /\ timedout' = TRUE /\ pc' = "wait" /\ waits' = 2
      /\ UNCHANGED <<prog, tty, line, back, held, buf, strays>>
  BY DEF IInv, Alarm, WaitForBoth
<1>1. PICK n \in {0, 1} : kids' = [c \in Kids |-> Terminated(c, n)]
  BY DEF Alarm
<1>2. Kids = 1 .. Len(kids) /\ Len(kids) \in Nat /\ \A c \in Kids : kids[c] \in KidType
  BY <1>0, LenProperties, ElementOfSeq DEF TypeOK, Kids
<1>3. ASSUME NEW c \in Kids
      PROVE  /\ Terminated(c, n) \in KidType
             /\ Terminated(c, n).reads # "none" => Terminated(c, n).in # 0
             /\ Terminated(c, n).st = "reaped" <=> kids[c].st = "reaped"
  <2>1. CASE kids[c].st # "run"
    <3>1. Terminated(c, n) = kids[c]
      BY <2>1 DEF Terminated
    <3> QED  BY <1>0, <1>2, <3>1 DEF TypeOK
  <2>2. CASE kids[c].st = "run" /\ kids[c].out = 0
    BY <2>2, EndedTypes DEF Terminated
  <2>3. CASE kids[c].st = "run" /\ kids[c].out # 0
    <3> DEFINE left == IF kids[c].left < n THEN kids[c].left ELSE n
               kid == [kids[c] EXCEPT !.st = "dying", !.left = left]
    <3>1. Terminated(c, n) = kid
      BY <2>3 DEF Terminated
    <3>2. left \in 0 .. MaxOut
      BY <1>2, <1>1, PipeAssumption DEF KidType
    <3> HIDE DEF left
    <3>3. kid \in KidType /\ kid.st = "dying" /\ kid.reads = kids[c].reads
          /\ kid.in = kids[c].in
      BY <1>2, <3>2 DEF KidType
    <3> QED  BY <1>0, <2>3, <3>1, <3>3 DEF TypeOK
  <2> QED  BY <2>1, <2>2, <2>3
<1>4. /\ kids' \in Seq(KidType') /\ Kids' = Kids
      /\ \A d \in Kids' : kids'[d].reads # "none" => kids'[d].in # 0
  <2>1. kids' \in [1 .. Len(kids) -> KidType]
    BY <1>1, <1>2, <1>3
  <2>2. kids' \in Seq(KidType)
    BY <1>2, <2>1
  <2>3. KidType' = KidType
    BY <1>0 DEF KidType, Pipes
  <2>4. Kids' = Kids
    BY <1>1 DEF Kids
  <2> QED  BY <1>1, <1>3, <2>2, <2>3, <2>4
<1>5. Unreaped' = Unreaped
  BY <1>1, <1>3, <1>4 DEF Unreaped
<1>6. TypeOK' /\ InHand'
  BY <1>0, <1>4 DEF TypeOK, InHand, Pipes
<1>7. Left'
  BY <1>0, <1>5 DEF Left, TypeOK, Shell
<1> QED  BY <1>6, <1>7 DEF IInv

LEMMA InitHolds ==
    ASSUME Init  PROVE IInv
<1>1. Unreaped = {} /\ Cardinality({}) = 0
  BY FS_EmptySet DEF Init, Unreaped, Kids
<1>2. line \in Seq(Job) /\ (pc = "run" => line # <<>>)
  <2>1. CASE Shell
    BY <2>1 DEF Init
  <2>2. CASE ~Shell
    <3>1. PICK n \in 0 .. MaxOut : line = <<[piped |-> TRUE, l |-> n, r |-> "once"]>>
      BY <2>2 DEF Init
    <3>2. [piped |-> TRUE, l |-> n, r |-> "once"] \in Job
      BY DEF Job, Reads
    <3> QED  BY <3>1, <3>2
  <2> QED  BY <2>1, <2>2
<1>3. TypeOK
  <2>1. /\ kids \in Seq(KidType) /\ buf \in Seq(0 .. CAP) /\ held \subseteq Pipes
        /\ \A c \in Kids : kids[c].reads # "none" => kids[c].in # 0
    BY EmptySeq DEF Init, Kids
  <2>2. prog \in Programs /\ tty \in BOOLEAN /\ pc \in {"prompt", "run"}
    BY DEF Init
  <2>3. back \in BOOLEAN /\ timedout \in BOOLEAN
    BY DEF Init
  <2>4. waits \in 0 .. 2 /\ strays \in Nat
    BY DEF Init
  <2> QED  BY <1>2, <2>1, <2>2, <2>3, <2>4 DEF TypeOK
<1>4. InHand /\ Left
  BY <1>1, <1>2 DEF Init, InHand, Left, Shell
<1> QED  BY <1>3, <1>4 DEF IInv

LEMMA NextKeeps ==
    ASSUME IInv, [Next]_vars  PROVE IInv'
<1>1. CASE ReadLine \/ Quit
  BY <1>1, PromptSteps
<1>2. CASE ParentStep
  BY <1>2, PromptSteps, PipeSteps, ForkSteps, WaitStep DEF ParentStep
<1>3. CASE Alarm
  BY <1>3, AlarmStep
<1>4. ASSUME NEW c \in Kids, KidStep(c)  PROVE IInv'
  BY <1>4, KidStepKeeps
<1>5. CASE UNCHANGED vars
  <2>1. Pipes' = Pipes /\ Kids' = Kids /\ KidType' = KidType /\ Unreaped' = Unreaped
    BY <1>5, SameKids DEF vars
  <2> QED  BY <1>5, <2>1 DEF vars, IInv, TypeOK, InHand, Left, Shell
<1> QED  BY <1>1, <1>2, <1>3, <1>4, <1>5 DEF Next

-----------------------------------------------------------------------------

\* The inductive invariant.
THEOREM Invariant == Spec => []IInv
  BY InitHolds, NextKeeps, PTL DEF Spec

\* Types: the ends that children hold (shell4.c execute2, Ques5.c main) are those of
\* pipes that were made, nobody reads from a pipe that is not there, and no pipe holds
\* more than its capacity, for any commands and any number of children and pipes.
THEOREM TypeCorrect == Spec => []TypeOK
<1>1. IInv => TypeOK
  BY DEF IInv
<1> QED  BY Invariant, <1>1, PTL

\* At the prompt of a shell, and at the end of a shell or driver, as many children
\* are left as were started without meaning to wait for them, although wait
\* (shell4.c execute, execute2) takes any child and the alarm of Ques5 makes it
\* wait again for those it has already waited for.
THEOREM ChildrenLeft == Spec => []OnlyStraysLeft
<1>1. IInv => OnlyStraysLeft
  BY DEF IInv, Left, OnlyStraysLeft
<1> QED  BY Invariant, <1>1, PTL
=============================================================================
