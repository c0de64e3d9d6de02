------------------------- MODULE MainStreams_proof -------------------------
(***************************************************************************)
(* Proofs about the streams that the main module sends: the calls of a     *)
(* thread are in order, none is lost, types are declared before they are   *)
(* named, and a stream is a handshake followed by whole packets, each sent *)
(* once.  They build on Calm of MainModule_proof.                          *)
(***************************************************************************)
EXTENDS MainModule_proof

(***************************************************************************)
(* What pipe_buffer holds, and the stream of the current session: what has *)
(* been sent, followed by what the buffer holds.  Between the write() and  *)
(* the end of the unlock the buffer holds what has been sent already, or a *)
(* packet that is being moved to its start.                                *)
(***************************************************************************)

CellsOf(t, p) == [i \in 1 .. Size[p.kind] |-> CellOf(t, p, i)]
PacketAt(t, b) ==
    \A i \in 1 .. Size[First(t).kind] : pipe_buffer[b + i - 1] = CellOf(t, First(t), i)

(* The packet that thread t has put behind the head.                       *)
Held(t) ==
    ~Idle(t) /\ First(t).op = "packet" =>
        /\ At(t) = "unlock" => Bottom(t).ptr = head /\ PacketAt(t, head)
        /\ At(t) \in {"write", "fail", "rewind"} /\ Overflows(Bottom(t)) =>
              Bottom(t).ptr <= BufferSize /\ PacketAt(t, Bottom(t).ptr)
        /\ At(t) = "copy" =>
              /\ Bottom(t).ptr - head \in 1 .. BufferSize
              /\ head <= Size[First(t).kind]
              /\ \A i \in 1 .. Size[First(t).kind] :
                    pipe_buffer[(IF i <= head THEN 0 ELSE Bottom(t).ptr - head) + i - 1]
                        = CellOf(t, First(t), i)
Holds == \A t \in Threads : Held(t)

Moving == \E t \in Threads : At(t) \in {"rewind", "copy"}
Content == [j \in 1 .. head |-> pipe_buffer[j - 1]]
Stream == IF Moving THEN out[fd_proc] ELSE out[fd_proc] \o Content
Live == fd_proc > 0 /\ \A t \in Threads : ~Op(t, "reset")

(* The first packet of thread t is in the stream.                          *)
Added(t) ==
    /\ ~Idle(t) /\ First(t).op = "packet"
    /\ \/ At(t) = "release"
       \/ At(t) \in {"write", "fail", "rewind"} /\ ~Overflows(Bottom(t))

HoldPlaces == {"unlock", "write", "fail", "rewind", "copy", "release"}

LEMMA WritersLock ==
    ASSUME Calm, NEW t \in Threads, NEW u \in Threads, At(t) \in HoldPlaces,
           At(u) \in HoldPlaces, First(t).op = "packet", First(u).op = "packet"
    PROVE  t = u /\ locked = 1
<1>1. StackOK /\ ~Idle(t) /\ ~Idle(u) /\ LockExcludes
  BY InvStack DEF Calm, At, HoldPlaces
<1>2. ASSUME NEW v \in Threads, ~Idle(v), At(v) \in HoldPlaces, First(v).op = "packet"
      PROVE  1 \in DOMAIN stack[v] /\ Holding(stack[v][1])
  <2>1. stack[v] \in Seq(Activation) /\ stack[v] # <<>>
    BY <1>1, <1>2 DEF StackOK, Idle
  <2>2. 1 \in DOMAIN stack[v]
    BY <2>1
  <2>3. stack[v][1].todo # <<>>
    BY <1>1, <1>2, Views DEF Bottom
  <2> QED
    BY <1>2, <2>2, <2>3 DEF Holding, At, First, HoldPlaces
<1>3. /\ 1 \in DOMAIN stack[t] /\ Holding(stack[t][1])
      /\ 1 \in DOMAIN stack[u] /\ Holding(stack[u][1])
  BY <1>1, <1>2
<1> QED
  BY <1>1, <1>3 DEF LockExcludes

(* Only one thread at a time is between the lock and the unlock, or inside *)
(* a flush.                                                                *)
LEMMA OneWrites ==
    ASSUME Calm, NEW t \in Threads, NEW u \in Threads, At(t) \in HoldPlaces, ~Idle(u),
           At(u) \in HoldPlaces \/ First(u).op = "flush"
    PROVE  t = u
<1>1. /\ StackOK /\ ~Idle(t) /\ OuterFits(t) /\ OuterFits(u) /\ Apart
  BY InvStack DEF Calm, Shape, Fits, At, HoldPlaces
<1>2. /\ First(t).op \in {"packet", "flush"}
      /\ At(u) \in HoldPlaces => First(u).op \in {"packet", "flush"}
  BY <1>1 DEF OuterFits, HoldPlaces
<1>3. CASE First(t).op = "flush" \/ First(u).op = "flush"
  <2>1. Solo(t) \/ Solo(u)
    BY <1>1, <1>3, SoloFirst
  <2> QED
    BY <1>1, <2>1 DEF Apart
<1>4. CASE First(t).op = "packet" /\ First(u).op = "packet"
  BY <1>2, <1>4, WritersLock
<1> QED
  BY <1>2, <1>3, <1>4

LEMMA HeldOther ==
    ASSUME NEW u \in Threads, stack'[u] = stack[u], Held(u), UNCHANGED <<pipe_buffer, head>>
    PROVE  Held(u)'
<1>1. /\ Idle(u)' <=> Idle(u)
      /\ At(u)' = At(u) /\ First(u)' = First(u) /\ Bottom(u)' = Bottom(u)
  BY SameStack
<1> QED
  BY <1>1 DEF Held, PacketAt, Overflows

LEMMA HeldFree ==
    ASSUME NEW u, At(u)' \notin {"unlock", "write", "fail", "rewind", "copy"}
    PROVE  Held(u)'
BY DEF Held

LEMMA HoldsKept ==
    ASSUME Holds, NEW t \in Threads, Others(t), UNCHANGED <<pipe_buffer, head>>, Held(t)'
    PROVE  Holds'
BY HeldOther DEF Holds, Others

LEMMA HoldsAlone ==
    ASSUME NEW t \in Threads, Others(t), Held(t)',
           \A u \in Threads : u # t => At(u) \notin HoldPlaces
    PROVE  Holds'
<1> SUFFICES ASSUME NEW u \in Threads, u # t PROVE Held(u)'
  BY DEF Holds
<1>1. At(u)' \notin HoldPlaces
  BY SameStack DEF Others
<1> QED
  BY <1>1, HeldFree DEF HoldPlaces

(* A thread that takes a step that is neither a packet nor a flush.        *)
LEMMA MovedHolds ==
    ASSUME Holds, NEW t \in Threads, NEW more, MovedOn(t, more), UNCHANGED <<pipe_buffer, head>>
    PROVE  Holds'
<1>1. At(t)' = "start" /\ Others(t)
  BY DEF MovedOn
<1>2. Held(t)'
  BY <1>1, HeldFree
<1> QED
  BY <1>1, <1>2, HoldsKept

LEMMA LockHolds ==
    ASSUME Calm, Holds, NEW t \in Threads, Lock(t)
    PROVE  Holds'
<1>1. /\ OnBottom(t) /\ First(t).op = "packet" /\ At(t) = "lock"
      /\ SameSteps(t) /\ At(t)' = "unlock"
      /\ Bottom(t)' = [Bottom(t) EXCEPT !.at = "unlock", !.ptr = head]
      /\ locked = 0
      /\ pipe_buffer' =
            [j \in DOMAIN pipe_buffer |->
               IF j \in head .. head + Size[First(t).kind] - 1
               THEN CellOf(t, First(t), j - head + 1)
               ELSE pipe_buffer[j]]
  BY LockEffect
<1>2. ~Idle(t) /\ StackOK
  BY <1>1, InvStack DEF OnBottom, Calm
<1>3. \A u \in Threads : u # t => At(u) \notin HoldPlaces
  <2> SUFFICES ASSUME NEW u \in Threads, u # t, At(u) \in HoldPlaces PROVE FALSE
    OBVIOUS
  <2>1. ~Idle(u) /\ OuterFits(u) /\ Apart
    BY DEF Calm, Shape, Fits, At, HoldPlaces
  <2>2. First(u).op \in {"packet", "flush"}
    BY <2>1 DEF OuterFits, HoldPlaces
  <2>3. First(u).op # "flush"
    <3> SUFFICES ASSUME First(u).op = "flush" PROVE FALSE
      OBVIOUS
    <3>1. Solo(u)
      BY <2>1, SoloFirst
    <3> QED
      BY <1>2, <2>1, <3>1 DEF Apart
  <2>4. locked = 1
    BY <2>2, <2>3, WritersLock
  <2> QED
    BY <1>1, <2>4
<1>4. head' = head
  BY DEF Lock, LockAndFill
<1>5. Bottom(t) \in Activation /\ First(t) \in Step /\ head \in Nat /\ head <= BufferSize
      /\ DOMAIN pipe_buffer = 0 .. 2 * BufferSize - 1
  BY <1>2, Views DEF Calm, Inv, TypeOK, BufferTypes, HeadFits
<1>6. Size[First(t).kind] \in 1 .. BufferSize /\ BufferSize \in Nat
  BY <1>5, BufferAssumption DEF Step
<1>7. Bottom(t)'.ptr = head
  BY <1>1, <1>5 DEF Activation
<1>8. PacketAt(t, head)'
  <2> SUFFICES ASSUME NEW i \in 1 .. Size[First(t).kind]
               PROVE  pipe_buffer'[head + i - 1] = CellOf(t, First(t), i)
    BY <1>1, <1>4 DEF PacketAt, SameSteps
  <2>0. PICK j : j = head + i - 1
    OBVIOUS
  <2>1. j \in DOMAIN pipe_buffer /\ j \in head .. head + Size[First(t).kind] - 1
    BY <1>5, <1>6, <2>0
  <2>2. j - head + 1 = i
    BY <1>5, <1>6, <2>0
  <2>3. pipe_buffer'[j] = CellOf(t, First(t), j - head + 1)
    BY <1>1, <2>1
  <2> QED
    BY <2>0, <2>2, <2>3
<1>9. Held(t)'
  BY <1>1, <1>4, <1>7, <1>8 DEF Held
<1> QED
  BY <1>1, <1>3, <1>9, HoldsAlone DEF SameSteps

LEMMA CellsType ==
    ASSUME Calm, NEW t \in Threads, ~Idle(t)
    PROVE  /\ First(t) \in Step /\ Bottom(t) \in Activation /\ Bottom(t).ptr \in Nat
           /\ head \in Nat /\ head <= BufferSize /\ BufferSize \in Nat
           /\ DOMAIN pipe_buffer = 0 .. 2 * BufferSize - 1
           /\ Size[First(t).kind] \in 1 .. BufferSize
           /\ Overflows(Bottom(t)) <=> Bottom(t).ptr + Size[First(t).kind] > BufferSize
<1>1. StackOK
  BY InvStack DEF Calm
<1>2. /\ First(t) \in Step /\ Bottom(t) \in Activation
      /\ head \in Nat /\ head <= BufferSize /\ DOMAIN pipe_buffer = 0 .. 2 * BufferSize - 1
  BY <1>1, Views DEF Calm, Inv, TypeOK, BufferTypes, HeadFits
<1>3. Size[First(t).kind] \in 1 .. BufferSize /\ BufferSize \in Nat
  BY <1>2, BufferAssumption DEF Step
<1>4. Bottom(t).ptr \in Nat
  BY <1>2 DEF Activation
<1> QED
  BY <1>2, <1>3, <1>4 DEF Overflows, First, Bottom

LEMMA UnlockHolds ==
    ASSUME Calm, Holds, NEW t \in Threads, Unlock(t)
    PROVE  Holds'
<1>1. OnBottom(t) /\ First(t).op = "packet" /\ At(t) = "unlock" /\ ~Idle(t)
  BY UnlockEffect DEF OnBottom
<1>2. Bottom(t).ptr = head /\ PacketAt(t, head)
  BY <1>1 DEF Holds, Held
<1>3. \/ /\ Overflows(Bottom(t)) /\ SameSteps(t) /\ At(t)' = "write" /\ head' = head
         /\ Bottom(t)' = [Bottom(t) EXCEPT !.at = "write"]
      \/ /\ ~Overflows(Bottom(t)) /\ SameSteps(t)
         /\ \E place \in {"release", "write"} :
               /\ At(t)' = place
               /\ Bottom(t)' = [Bottom(t) EXCEPT !.at = place]
  BY <1>2, UnlockEffect
<1>4. /\ Bottom(t) \in Activation /\ head <= BufferSize
  BY <1>1, CellsType
<1>5. Bottom(t)'.ptr = Bottom(t).ptr /\ Bottom(t)'.todo = Bottom(t).todo
  BY <1>3, <1>4 DEF Activation
<1>6. UNCHANGED pipe_buffer /\ First(t)' = First(t) /\ Others(t)
  BY <1>3 DEF Unlock, SameSteps
<1>7. Overflows(Bottom(t))' <=> Overflows(Bottom(t))
  BY <1>5 DEF Overflows
<1>8. Held(t)'
  <2>1. PacketAt(t, Bottom(t).ptr)'
    BY <1>2, <1>5, <1>6 DEF PacketAt
  <2> QED
    BY <1>2, <1>3, <1>4, <1>5, <1>7, <2>1 DEF Held
<1>9. \A u \in Threads : u # t => At(u) \notin HoldPlaces
  BY <1>1, OneWrites DEF HoldPlaces, At
<1> QED
  BY <1>6, <1>8, <1>9, HoldsAlone

LEMMA CopyCellHolds ==
    ASSUME Calm, Holds, NEW t \in Threads, CopyCell(t)
    PROVE  Holds'
<1>1. /\ OnBottom(t) /\ First(t).op = "packet" /\ At(t) = "copy"
      /\ SameSteps(t) /\ At(t)' = "copy"
      /\ Bottom(t)' = [Bottom(t) EXCEPT !.ptr = Bottom(t).ptr + 1]
      /\ head < Size[First(t).kind]
      /\ head' = head + 1
      /\ pipe_buffer' = [pipe_buffer EXCEPT ![head] =
            IF Bottom(t).ptr \in DOMAIN pipe_buffer
            THEN pipe_buffer[Bottom(t).ptr] ELSE Blank]
      /\ ~Idle(t)
  BY CopyCellEffect DEF OnBottom
<1>2. /\ First(t) \in Step /\ Bottom(t) \in Activation /\ Bottom(t).ptr \in Nat
      /\ head \in Nat /\ head <= BufferSize /\ BufferSize \in Nat
      /\ DOMAIN pipe_buffer = 0 .. 2 * BufferSize - 1
      /\ Size[First(t).kind] \in 1 .. BufferSize
  BY <1>1, CellsType
<1>3. PICK z, b : z = Size[First(t).kind] /\ b = Bottom(t).ptr - head
  OBVIOUS
<1>4. /\ b \in 1 .. BufferSize
      /\ \A i \in 1 .. z :
            pipe_buffer[(IF i <= head THEN 0 ELSE b) + i - 1] = CellOf(t, First(t), i)
  BY <1>1, <1>3 DEF Holds, Held
<1>5. Bottom(t)'.ptr = Bottom(t).ptr + 1
  BY <1>1, <1>2 DEF Activation
<1>6. Bottom(t)'.ptr - head' = b
  BY <1>1, <1>2, <1>3, <1>5
<1>11. /\ head \in Nat /\ BufferSize \in Nat /\ z \in 1 .. BufferSize /\ head < z
       /\ Bottom(t).ptr = b + head /\ head' = head + 1 /\ b \in 1 .. BufferSize
  BY <1>1, <1>2, <1>3, <1>4
<1>12. \A j : j \in 0 .. 2 * BufferSize - 1 => j \in DOMAIN pipe_buffer
  BY <1>2
<1>7. ASSUME NEW i \in 1 .. z
      PROVE  pipe_buffer'[(IF i <= head' THEN 0 ELSE b) + i - 1] = CellOf(t, First(t), i)
  <2>1. CASE i <= head
    <3>1. i - 1 \in DOMAIN pipe_buffer /\ i - 1 # head /\ i <= head' /\ 0 + i - 1 = i - 1
      BY <1>1, <1>2, <1>3, <2>1
    <3>2. pipe_buffer[i - 1] = CellOf(t, First(t), i)
      BY <1>4, <2>1, <3>1
    <3> QED
      BY <1>1, <3>1, <3>2
  <2>2. CASE i = head + 1
    <3>1. /\ Bottom(t).ptr \in DOMAIN pipe_buffer /\ b + i - 1 = Bottom(t).ptr
          /\ i <= head' /\ ~(i <= head) /\ 0 + i - 1 = head /\ head \in DOMAIN pipe_buffer
      <4>1. /\ Bottom(t).ptr \in 0 .. 2 * BufferSize - 1 /\ b + i - 1 = Bottom(t).ptr
            /\ i <= head' /\ ~(i <= head) /\ 0 + i - 1 = head /\ head \in 0 .. 2 * BufferSize - 1
        BY <1>11, <2>2
      <4> QED
        BY <1>12, <4>1
    <3>2. pipe_buffer[Bottom(t).ptr] = CellOf(t, First(t), i)
      BY <1>4, <3>1
    <3>3. pipe_buffer'[head] = pipe_buffer[Bottom(t).ptr]
      BY <1>1, <3>1
    <3> QED
      BY <3>1, <3>2, <3>3
  <2>3. CASE i > head + 1
    <3>0. PICK j : j = b + i - 1
      OBVIOUS
    <3>1. /\ j \in DOMAIN pipe_buffer /\ j # head /\ ~(i <= head') /\ ~(i <= head)
      <4>1. j \in 0 .. 2 * BufferSize - 1 /\ j # head /\ ~(i <= head') /\ ~(i <= head)
        BY <1>11, <2>3, <3>0
      <4> QED
        BY <1>12, <4>1
    <3>2. pipe_buffer[j] = CellOf(t, First(t), i)
      BY <1>4, <3>0, <3>1
    <3>3. pipe_buffer'[j] = pipe_buffer[j]
      BY <1>1, <3>1
    <3> QED
      BY <3>0, <3>1, <3>2, <3>3
  <2> QED
    BY <1>2, <1>3, <2>1, <2>2, <2>3
<1>8. head' <= z
  BY <1>1, <1>2, <1>3
<1>9. Held(t)'
  BY <1>1, <1>3, <1>4, <1>6, <1>7, <1>8 DEF Held, SameSteps
<1>10. \A u \in Threads : u # t => At(u) \notin HoldPlaces
  BY <1>1, OneWrites DEF HoldPlaces, At
<1> QED
  BY <1>1, <1>9, <1>10, HoldsAlone DEF SameSteps

LEMMA RewindHolds ==
    ASSUME Calm, Holds, NEW t \in Threads, Rewind(t)
    PROVE  Holds'
<1>1. /\ OnBottom(t) /\ At(t) = "rewind" /\ head' = 0 /\ ~Idle(t) /\ UNCHANGED pipe_buffer
      /\ \/ First(t).op = "flush" /\ Skipped(t)
         \/ /\ First(t).op = "packet" /\ Overflows(Bottom(t))
            /\ SameSteps(t) /\ At(t)' = "copy"
            /\ Bottom(t)' = [Bottom(t) EXCEPT !.at = "copy"]
         \/ /\ First(t).op = "packet" /\ ~Overflows(Bottom(t))
            /\ SameSteps(t) /\ At(t)' = "release"
            /\ Bottom(t)' = [Bottom(t) EXCEPT !.at = "release"]
  BY RewindEffect DEF OnBottom, Rewind
<1>2. Others(t)
  BY <1>1 DEF Skipped, MovedOn, SameSteps
<1>3. \A u \in Threads : u # t => At(u) \notin HoldPlaces
  BY <1>1, OneWrites DEF HoldPlaces, At
<1>4. CASE /\ First(t).op = "packet" /\ Overflows(Bottom(t))
           /\ SameSteps(t) /\ At(t)' = "copy"
           /\ Bottom(t)' = [Bottom(t) EXCEPT !.at = "copy"]
  <2>1. /\ Bottom(t) \in Activation /\ Bottom(t).ptr \in Nat /\ BufferSize \in Nat
        /\ Size[First(t).kind] \in 1 .. BufferSize
        /\ Bottom(t).ptr + Size[First(t).kind] > BufferSize
    BY <1>1, <1>4, CellsType
  <2>2. Bottom(t).ptr <= BufferSize /\ PacketAt(t, Bottom(t).ptr)
    BY <1>1, <1>4 DEF Holds, Held
  <2>3. Bottom(t)'.ptr = Bottom(t).ptr /\ First(t)' = First(t)
    BY <1>4, <2>1 DEF Activation, SameSteps
  <2>4. Bottom(t).ptr - 0 = Bottom(t).ptr /\ Bottom(t).ptr \in 1 .. BufferSize
        /\ 0 <= Size[First(t).kind]
    BY <2>1, <2>2
  <2>5. \A i \in 1 .. Size[First(t).kind] : ~(i <= 0)
    BY <2>1
  <2>6. Held(t)'
    BY <1>1, <1>4, <2>2, <2>3, <2>4, <2>5 DEF Held, PacketAt
  <2> QED
    BY <1>2, <1>3, <2>6, HoldsAlone
<1>5. CASE At(t)' # "copy"
  <2>1. At(t)' \in {"start", "release"}
    BY <1>1, <1>5 DEF Skipped, MovedOn
  <2>2. Held(t)'
    BY <2>1, HeldFree
  <2> QED
    BY <1>2, <1>3, <2>2, HoldsAlone
<1> QED
  BY <1>1, <1>4, <1>5 DEF Skipped, MovedOn

LEMMA ResetHolds ==
    ASSUME Calm, Holds, NEW t \in Threads, Reset(t)
    PROVE  Holds'
<1>1. OnBottom(t) /\ First(t).op = "reset" /\ ~Idle(t) /\ Skipped(t)
  BY ReturnEffects DEF OnBottom
<1>2. Others(t) /\ At(t)' = "start"
  BY <1>1 DEF Skipped, MovedOn
<1>3. Solo(t)
  BY <1>1, SoloFirst
<1>4. \A u \in Threads : u # t => At(u) \notin HoldPlaces
  BY <1>1, <1>3 DEF HoldPlaces, At, Calm, Shape, Apart
<1>5. Held(t)'
  BY <1>2, HeldFree
<1> QED
  BY <1>2, <1>4, <1>5, HoldsAlone

LEMMA FlushingHolds ==
    ASSUME Calm, Holds, NEW t \in Threads, ~Idle(t), Others(t), ~Idle(t)',
           UNCHANGED <<pipe_buffer, head>>, First(t)' = First(t),
           NEW place \in {"fail", "rewind"},
           Bottom(t)' = [Bottom(t) EXCEPT !.at = place], At(t)' = place,
           \/ At(t) \in {"write", "fail"}
           \/ First(t).op = "flush"
    PROVE  Holds'
<1>1. Bottom(t) \in Activation
  BY CellsType
<1>2. Bottom(t)'.ptr = Bottom(t).ptr /\ Bottom(t)'.todo = Bottom(t).todo
  BY <1>1 DEF Activation
<1>3. Overflows(Bottom(t))' <=> Overflows(Bottom(t))
  BY <1>2 DEF Overflows
<1>4. Held(t)
  BY DEF Holds
<1>5. Held(t)'
  BY <1>2, <1>3, <1>4 DEF Held, PacketAt
<1> QED
  BY <1>5, HoldsKept

LEMMA WriteSentHolds ==
    ASSUME Calm, Holds, NEW t \in Threads, WriteSent(t)
    PROVE  Holds'
<1>1. /\ OnBottom(t)
      /\ \/ First(t).op = "packet" /\ At(t) = "write"
         \/ First(t).op = "flush" /\ At(t) = "start"
      /\ SameSteps(t) /\ At(t)' = "rewind"
      /\ Bottom(t)' = [Bottom(t) EXCEPT !.at = "rewind"]
      /\ UNCHANGED <<pipe_buffer, head>>
  BY WriteSentEffect DEF WriteSent, bufferVars
<1> QED
  BY <1>1, FlushingHolds DEF SameSteps, OnBottom

LEMMA WriteFailedHolds ==
    ASSUME Calm, Holds, NEW t \in Threads, WriteFailed(t)
    PROVE  Holds'
<1>1. /\ OnBottom(t)
      /\ \/ First(t).op = "packet" /\ At(t) = "write"
         \/ First(t).op = "flush" /\ At(t) = "start"
      /\ Others(t) /\ ~Idle(t)' /\ First(t)' = First(t) /\ At(t)' = "fail"
      /\ Bottom(t)' = [Bottom(t) EXCEPT !.at = "fail"]
      /\ UNCHANGED <<pipe_buffer, head>>
  BY WriteFailedEffect DEF WriteFailed, bufferVars
<1> QED
  BY <1>1, FlushingHolds DEF OnBottom

LEMMA DisableAfterErrorHolds ==
    ASSUME Calm, Holds, NEW t \in Threads, DisableAfterError(t)
    PROVE  Holds'
<1>1. /\ OnBottom(t) /\ At(t) = "fail"
      /\ SameSteps(t) /\ At(t)' = "rewind"
      /\ Bottom(t)' = [Bottom(t) EXCEPT !.at = "rewind"]
      /\ UNCHANGED <<pipe_buffer, head>>
  BY DisableAfterErrorEffect DEF DisableAfterError, bufferVars
<1> QED
  BY <1>1, FlushingHolds DEF SameSteps, OnBottom

(* A step of the enable_tracing(false) of a flush that failed.             *)
LEMMA InnerHolds ==
    ASSUME Holds, NEW t \in Threads, ~Idle(t), ~Idle(t)', Others(t),
           stack'[t][1] = stack[t][1], UNCHANGED <<pipe_buffer, head>>
    PROVE  Holds'
<1>1. /\ First(t)' = First(t) /\ Bottom(t)' = Bottom(t) /\ At(t)' = At(t)
  BY BelowKept
<1>2. Held(t)
  BY DEF Holds
<1>3. Held(t)'
  BY <1>1, <1>2 DEF Held, PacketAt, Overflows
<1> QED
  BY <1>3, HoldsKept

LEMMA CheckEnableHolds ==
    ASSUME Calm, Holds, NEW t \in Threads, CheckEnable(t)
    PROVE  Holds'
<1>1. UNCHANGED <<pipe_buffer, head>>
  BY DEF CheckEnable, bufferVars
<1>2. CASE OnBottom(t)
  <2>1. Others(t) /\ At(t)' \in {"start", "lock"}
    <3>1. ~OnInner(t)
      BY <1>2 DEF OnBottom, OnInner
    <3> QED
      BY <3>1, CheckEnableEffect DEF Skipped, MovedOn, SameSteps
  <2>2. Held(t)'
    BY <2>1, HeldFree
  <2> QED
    BY <1>1, <2>1, <2>2, HoldsKept
<1>3. CASE OnInner(t)
  <2>1. ~OnBottom(t) /\ ~Idle(t)
    BY <1>3 DEF OnBottom, OnInner
  <2>2. Others(t) /\ Len(stack'[t]) = 2 /\ stack'[t][1] = stack[t][1]
    BY <2>1, CheckEnableEffect
  <2>3. ~Idle(t)'
    BY <2>2 DEF Idle
  <2> QED
    BY <1>1, <2>1, <2>2, <2>3, InnerHolds
<1> QED
  BY <1>2, <1>3, CheckEnableEffect

LEMMA EnableModuleHolds ==
    ASSUME Calm, Holds, NEW t \in Threads, EnableModule(t)
    PROVE  Holds'
<1>1. UNCHANGED <<pipe_buffer, head>>
  BY DEF EnableModule, bufferVars
<1>2. CASE OnBottom(t)
  <2>1. ~OnInner(t)
    BY <1>2 DEF OnBottom, OnInner
  <2>2. PICK more : MovedOn(t, more)
    BY <2>1, EnableModuleEffect
  <2> QED
    BY <1>1, <2>2, MovedHolds
<1>3. CASE OnInner(t)
  <2>1. ~OnBottom(t) /\ ~Idle(t)
    BY <1>3 DEF OnBottom, OnInner
  <2>2. Others(t) /\ ~Idle(t)' /\ stack'[t][1] = stack[t][1]
    BY <2>1, EnableModuleEffect
  <2> QED
    BY <1>1, <2>1, <2>2, InnerHolds
<1> QED
  BY <1>2, <1>3, EnableModuleEffect

LEMMA EnterHolds ==
    ASSUME StackOK, Holds, NEW t \in Threads, Idle(t), NEW todo, NEW why, Enter(t, todo, why),
           UNCHANGED <<pipe_buffer, head>>
    PROVE  Holds' /\ Others(t) /\ At(t)' = "start"
<1>1. PICK c : c = Call(todo, why)
  OBVIOUS
<1>2. c.at = "start"
  BY <1>1 DEF Call
<1>3. stack' = [stack EXCEPT ![t] = IF todo = <<>> THEN stack[t] ELSE Append(stack[t], c)]
  BY <1>1 DEF Enter
<1>4. stack[t] = <<>> /\ t \in DOMAIN stack
  BY DEF Idle, StackOK
<1>5. Others(t)
  BY <1>3, <1>4 DEF Others, StackOK
<1>6. stack'[t] = <<>> \/ stack'[t] = <<c>>
  BY <1>3, <1>4
<1>7. At(t)' = "start"
  <2>1. CASE stack'[t] = <<>>
    BY <2>1 DEF At, Idle
  <2>2. CASE stack'[t] = <<c>>
    <3>1. stack'[t][1] = c
      BY <2>2
    <3> QED
      BY <1>2, <3>1 DEF At, Idle
  <2> QED
    BY <1>6, <2>1, <2>2
<1>8. Held(t)'
  BY <1>7, HeldFree
<1> QED
  BY <1>5, <1>7, <1>8, HoldsKept

(* The steps that replace the first step of the only activation of t.      *)
LEMMA MovingSteps ==
    ASSUME Calm, NEW t \in Threads,
           \/ Release(t) \/ OpenPipe(t) \/ WriteRegistries(t) \/ RegisterModule(t)
           \/ RegisterResource(t) \/ HeapInfo(t) \/ StoreHeapInfo(t) \/ ClosePipe(t)
           \/ ClearPipe(t) \/ Ready(t)
    PROVE  /\ OnBottom(t) /\ \E more : MovedOn(t, more)
           /\ UNCHANGED <<pipe_buffer, head>>
<1>1. ASSUME Release(t)
      PROVE  OnBottom(t) /\ MovedOn(t, <<>>) /\ UNCHANGED <<pipe_buffer, head>>
  BY <1>1, ReleaseEffect DEF Release, Skipped
<1>2. ASSUME OpenPipe(t)
      PROVE  OnBottom(t) /\ (\E more : MovedOn(t, more)) /\ UNCHANGED <<pipe_buffer, head>>
  BY <1>2, OpenPipeEffect DEF OpenPipe, bufferVars
<1>3. ASSUME WriteRegistries(t)
      PROVE  OnBottom(t) /\ (\E more : MovedOn(t, more)) /\ UNCHANGED <<pipe_buffer, head>>
  BY <1>3, WriteRegistriesEffect DEF WriteRegistries, bufferVars, Skipped
<1>4. ASSUME RegisterModule(t)
      PROVE  OnBottom(t) /\ (\E more : MovedOn(t, more)) /\ UNCHANGED <<pipe_buffer, head>>
  BY <1>4, RegisterModuleEffect DEF RegisterModule, bufferVars, Skipped
<1>5. ASSUME RegisterResource(t)
      PROVE  OnBottom(t) /\ (\E more : MovedOn(t, more)) /\ UNCHANGED <<pipe_buffer, head>>
  BY <1>5, RegisterResourceEffect DEF RegisterResource, bufferVars, Skipped
<1>6. ASSUME HeapInfo(t)
      PROVE  OnBottom(t) /\ (\E more : MovedOn(t, more)) /\ UNCHANGED <<pipe_buffer, head>>
  BY <1>6, HeapInfoEffect DEF HeapInfo, bufferVars, Skipped
<1>7. ASSUME StoreHeapInfo(t) \/ ClosePipe(t) \/ ClearPipe(t) \/ Ready(t)
      PROVE  OnBottom(t) /\ MovedOn(t, <<>>) /\ UNCHANGED <<pipe_buffer, head>>
  BY <1>7, ReturnEffects DEF StoreHeapInfo, ClosePipe, ClearPipe, Ready, bufferVars, Skipped
<1> QED
  BY <1>1, <1>2, <1>3, <1>4, <1>5, <1>6, <1>7

(* The entry points, when no thread is inside the library or, for a call,  *)
(* thread t is not.                                                        *)
LEMMA EnteringSteps ==
    ASSUME Calm, Holds, Quiescent, NEW t \in Threads, EntryPoint(t)
    PROVE  Holds' /\ UNCHANGED <<pipe_buffer, head, fd_proc, closed, out, accepted>> /\ Idle(t)
           /\ Others(t) /\ At(t)' = "start"
<1>0. StackOK
  BY InvStack DEF Calm
<1>1. CASE Initialize(t)
  BY <1>0, <1>1, EnterHolds DEF Initialize, bufferVars, pipeVars
<1>2. ASSUME NEW m \in TracingModules, InitializeModule(t, m)
      PROVE  Holds' /\ UNCHANGED <<pipe_buffer, head, fd_proc, closed, out, accepted>> /\ Idle(t)
             /\ Others(t) /\ At(t)' = "start"
  BY <1>0, <1>2, EnterHolds DEF InitializeModule, bufferVars, pipeVars
<1>3. ASSUME NEW m \in TracingModules, NEW i \in DOMAIN Registers[m],
             FunctionCall(t, m, Registers[m][i])
      PROVE  Holds' /\ UNCHANGED <<pipe_buffer, head, fd_proc, closed, out, accepted>> /\ Idle(t)
             /\ Others(t) /\ At(t)' = "start"
  BY <1>0, <1>3, EnterHolds DEF FunctionCall, MayEnter, bufferVars, pipeVars
<1>4. CASE Dlopen(t)
  BY <1>0, <1>4, EnterHolds DEF Dlopen, MayEnter, bufferVars, pipeVars
<1>5. CASE CreateContext(t)
  BY <1>0, <1>5, EnterHolds DEF CreateContext, MayEnter, bufferVars, pipeVars
<1>6. CASE ToggleTracing(t)
  BY <1>0, <1>6, EnterHolds DEF ToggleTracing, Alone, bufferVars, pipeVars
<1>7. CASE Exit(t)
  BY <1>0, <1>7, EnterHolds DEF Exit, bufferVars, pipeVars
<1> QED
  BY <1>1, <1>2, <1>3, <1>4, <1>5, <1>6, <1>7 DEF EntryPoint

LEMMA InitHolds == Init => Holds
BY DEF Init, Holds, Held, Idle

LEMMA NextHolds ==
    ASSUME Quiescent, Calm, Holds, [Next]_vars
    PROVE  Holds'
<1>1. CASE UNCHANGED vars
  <2>1. \A t \in Threads : stack'[t] = stack[t]
    BY <1>1 DEF vars
  <2>2. UNCHANGED <<pipe_buffer, head>>
    BY <1>1 DEF vars
  <2> QED
    BY <2>1, <2>2, HeldOther DEF Holds
<1>2. ASSUME NEW t \in Threads, EntryPoint(t) PROVE Holds'
  BY <1>2, EnteringSteps
<1>3. ASSUME NEW t \in Threads, Progress(t) PROVE Holds'
  <2>1. CASE CheckEnable(t) \/ Lock(t) \/ Unlock(t) \/ CopyCell(t)
    BY <2>1, CheckEnableHolds, LockHolds, UnlockHolds, CopyCellHolds
  <2>2. CASE WriteSent(t) \/ WriteFailed(t) \/ DisableAfterError(t) \/ Rewind(t)
    BY <2>2, WriteSentHolds, WriteFailedHolds, DisableAfterErrorHolds, RewindHolds
  <2>3. CASE Reset(t) \/ EnableModule(t)
    BY <2>3, ResetHolds, EnableModuleHolds
  <2>4. CASE \/ Release(t) \/ OpenPipe(t) \/ WriteRegistries(t) \/ RegisterModule(t)
             \/ RegisterResource(t) \/ HeapInfo(t) \/ StoreHeapInfo(t) \/ ClosePipe(t)
             \/ ClearPipe(t) \/ Ready(t)
    BY <2>4, MovingSteps, MovedHolds
  <2> QED
    BY <1>3, <2>1, <2>2, <2>3, <2>4 DEF Progress
<1> QED
  BY <1>1, <1>2, <1>3 DEF Next

(* The first step of thread t is a packet that is not in the stream yet.   *)
Pending(t) == ~Idle(t) /\ First(t).op = "packet" /\ ~Added(t)

(* A session starts empty, with pipe_buffer_reset.                         *)
Fresh ==
    \A t \in Threads : Op(t, "reset") /\ fd_proc > 0 =>
        First(t).op = "reset" /\ out[fd_proc] = <<>>

LEMMA StreamTypes ==
    ASSUME Calm
    PROVE  /\ out \in Seq(Seq(Cell)) /\ head \in Nat /\ BufferSize \in Nat
           /\ head <= BufferSize
           /\ DOMAIN pipe_buffer = 0 .. 2 * BufferSize - 1
           /\ Content \in Seq(Cell) /\ Len(Content) = head
           /\ \A i \in 1 .. head : Content[i] = pipe_buffer[i - 1]
           /\ fd_proc > 0 => /\ fd_proc \in DOMAIN out
                             /\ out[fd_proc] \in Seq(Cell) /\ Stream \in Seq(Cell)
<1>1. /\ out \in Seq(Seq(Cell)) /\ head \in Nat /\ head <= BufferSize
      /\ pipe_buffer \in [0 .. 2 * BufferSize - 1 -> Cell]
      /\ fd_proc \in -1 .. Len(out)
  BY DEF Calm, Inv, TypeOK, PipeTypes, BufferTypes, HeadFits
<1>2. BufferSize \in Nat /\ BufferSize > 0
  BY BufferAssumption
<1>3. \A i \in 1 .. head : i - 1 \in 0 .. 2 * BufferSize - 1
  BY <1>1, <1>2
<1>4. \A i \in 1 .. head : pipe_buffer[i - 1] \in Cell
  BY <1>1, <1>3
<1>5. Content \in [1 .. head -> Cell]
  BY <1>4 DEF Content
<1>6. Content \in Seq(Cell) /\ Len(Content) = head
  BY <1>1, <1>5
<1>7. \A i \in 1 .. head : Content[i] = pipe_buffer[i - 1]
  BY DEF Content
<1>8. fd_proc > 0 => fd_proc \in DOMAIN out /\ out[fd_proc] \in Seq(Cell)
  BY <1>1
<1>9. fd_proc > 0 => Stream \in Seq(Cell)
  BY <1>6, <1>8 DEF Stream
<1> QED
  BY <1>1, <1>2, <1>6, <1>7, <1>8, <1>9

LEMMA Joining ==
    ASSUME NEW T, NEW s \in Seq(T), NEW c \in Seq(T)
    PROVE  /\ s \o c \in Seq(T) /\ Len(s \o c) = Len(s) + Len(c)
           /\ Len(s) \in Nat /\ Len(c) \in Nat
           /\ \A i \in 1 .. Len(s) : (s \o c)[i] = s[i]
           /\ \A i \in 1 .. Len(c) : (s \o c)[Len(s) + i] = c[i]
           /\ s \o c = [i \in 1 .. Len(s) + Len(c) |-> (s \o c)[i]]
<1>1. s \o c \in Seq(T) /\ Len(s \o c) = Len(s) + Len(c) /\ Len(s) \in Nat /\ Len(c) \in Nat
  OBVIOUS
<1>2. \A i \in 1 .. Len(s) : (s \o c)[i] = s[i]
  OBVIOUS
<1>3. \A i \in 1 .. Len(c) : (s \o c)[Len(s) + i] = c[i]
  OBVIOUS
<1>4. s \o c = [i \in 1 .. Len(s) + Len(c) |-> (s \o c)[i]]
  <2>1. PICK w : w = s \o c
    OBVIOUS
  <2>2. w \in Seq(T) /\ Len(w) = Len(s) + Len(c)
    BY <1>1, <2>1
  <2>3. w = [i \in 1 .. Len(w) |-> w[i]]
    BY <2>2
  <2> QED
    BY <2>1, <2>2, <2>3
<1> QED
  BY <1>1, <1>2, <1>3, <1>4

(* A buffer that is longer by the cells of one packet.                     *)
LEMMA GrownContent ==
    ASSUME Calm, Calm', NEW t \in Threads, ~Idle(t), NEW b \in Nat,
           head' = b + Size[First(t).kind], b <= head,
           \A i \in 1 .. b : pipe_buffer'[i - 1] = pipe_buffer[i - 1],
           \A i \in 1 .. Size[First(t).kind] : pipe_buffer'[b + i - 1] = CellOf(t, First(t), i)
    PROVE  Content' = SubSeq(Content, 1, b) \o CellsOf(t, First(t))
<1>1. PICK z, c, s, d : /\ z = Size[First(t).kind] /\ c = CellsOf(t, First(t))
                        /\ s = SubSeq(Content, 1, b) /\ d = Content'
  OBVIOUS
<1>2. z \in Nat
  BY <1>1, CellsType
<1>3. /\ Content \in Seq(Cell) /\ Len(Content) = head
      /\ \A i \in 1 .. head : Content[i] = pipe_buffer[i - 1] /\ head \in Nat
  BY StreamTypes
<1>4. d = [j \in 1 .. b + z |-> pipe_buffer'[j - 1]]
  BY <1>1 DEF Content
<1>5. c = [i \in 1 .. z |-> CellOf(t, First(t), i)]
  BY <1>1 DEF CellsOf
<1>6. PICK T : T = Cell \cup {CellOf(t, First(t), i) : i \in 1 .. z}
  OBVIOUS
<1>7. s \in Seq(T) /\ Len(s) = b /\ \A i \in 1 .. b : s[i] = pipe_buffer[i - 1]
  <2>1. Content \in Seq(T)
    BY <1>3, <1>6
  <2> QED
    BY <1>1, <1>3, <2>1
<1>8. c \in Seq(T) /\ Len(c) = z
  <2>1. c \in [1 .. z -> T]
    BY <1>5, <1>6
  <2> QED
    BY <1>2, <2>1
<1>9. PICK w : w = s \o c
  OBVIOUS
<1>10. /\ \A i \in 1 .. b : w[i] = s[i]
       /\ \A i \in 1 .. z : w[b + i] = c[i]
       /\ w = [i \in 1 .. b + z |-> w[i]]
  BY <1>7, <1>8, <1>9, Joining
<1>11. ASSUME NEW i \in 1 .. b + z
       PROVE  w[i] = pipe_buffer'[i - 1]
  <2>1. CASE i <= b
    <3>1. i \in 1 .. b
      BY <1>2, <2>1
    <3> QED
      BY <1>7, <1>10, <3>1
  <2>2. CASE ~(i <= b)
    <3>1. PICK k : k = i - b
      OBVIOUS
    <3>2. k \in 1 .. z /\ b + k - 1 = i - 1 /\ b + k = i
      BY <1>2, <2>2, <3>1
    <3>3. w[b + k] = CellOf(t, First(t), k)
      BY <1>5, <1>10, <3>2
    <3>4. pipe_buffer'[b + k - 1] = CellOf(t, First(t), k)
      BY <1>1, <3>2
    <3> QED
      BY <3>2, <3>3, <3>4
  <2> QED
    BY <2>1, <2>2
<1>12. w = d
  BY <1>4, <1>10, <1>11
<1> QED
  BY <1>1, <1>9, <1>12

(* What a step of thread t does to the stream of a session.                *)
OnWay(t) == Pending(t) /\ At(t) # "start"
StreamKept(t) ==
    /\ Live /\ fd_proc' = fd_proc /\ Stream' = Stream
    /\ out' = out \/ out' = [out EXCEPT ![fd_proc] = Stream]
    /\ OnWay(t) => OnWay(t)' /\ First(t)' = First(t)
StreamGrown(t) ==
    /\ Live /\ fd_proc' = fd_proc /\ out' = out /\ OnBottom(t)
    /\ Pending(t) /\ Stream' = Stream \o CellsOf(t, First(t))
    /\ (SameSteps(t) /\ ~Pending(t)') \/ Skipped(t)
    /\ UNCHANGED <<calls, closed, accepted>> /\ At(t) # "start"
StreamStarted ==
    ~Live /\ fd_proc' = fd_proc /\ fd_proc > 0 /\ out' = out /\ Stream' = <<>>
Streams(t) == Live' => StreamKept(t) \/ StreamGrown(t) \/ StreamStarted

LEMMA SoleWriter ==
    ASSUME NEW t \in Threads, Others(t), \A u \in Threads : u # t => At(u) \notin HoldPlaces
    PROVE  /\ Moving <=> At(t) \in {"rewind", "copy"}
           /\ Moving' <=> At(t)' \in {"rewind", "copy"}
<1>1. \A u \in Threads : u # t => At(u) \notin {"rewind", "copy"} /\ At(u)' = At(u)
  BY SameStack DEF Others, HoldPlaces
<1> QED
  BY <1>1 DEF Moving

LEMMA StillMoving ==
    ASSUME NEW t \in Threads, Others(t), At(t) \notin {"rewind", "copy"},
           At(t)' \notin {"rewind", "copy"}
    PROVE  Moving' <=> Moving
<1>1. \A u \in Threads : u # t => At(u)' = At(u)
  BY SameStack DEF Others
<1> QED
  BY <1>1 DEF Moving

LEMMA SameStream ==
    ASSUME UNCHANGED <<fd_proc, out, pipe_buffer, head>>, Moving' <=> Moving
    PROVE  Stream' = Stream
<1>1. Content' = Content
  BY DEF Content
<1> QED
  BY <1>1 DEF Stream

(* Only pipe_buffer_reset makes a session live.                            *)
LEMMA LiveBefore ==
    ASSUME Fresh, NEW t \in Threads, Others(t), Idle(t) \/ First(t).op # "reset",
           fd_proc' = fd_proc, Live'
    PROVE  Live
<1>1. fd_proc > 0
  BY DEF Live
<1> SUFFICES ASSUME NEW u \in Threads, Op(u, "reset") PROVE FALSE
  BY <1>1 DEF Live
<1>2. u # t
  BY <1>1 DEF Fresh, Op, Steps
<1>3. Op(u, "reset")'
  BY <1>2, SameStack DEF Others
<1> QED
  BY <1>3 DEF Live

(* A step that touches neither the pipe nor the buffer.                    *)
LEMMA AsideStreams ==
    ASSUME Fresh, NEW t \in Threads, Others(t), Idle(t) \/ First(t).op # "reset",
           UNCHANGED <<fd_proc, out, pipe_buffer, head>>,
           At(t) = "start", At(t)' \notin {"rewind", "copy"}
    PROVE  Streams(t)
<1> SUFFICES ASSUME Live' PROVE StreamKept(t)
  BY DEF Streams
<1>1. Live
  BY LiveBefore
<1>2. Stream' = Stream
  BY StillMoving, SameStream
<1> QED
  BY <1>1, <1>2 DEF StreamKept, OnWay

LEMMA LockStreams ==
    ASSUME Calm, Calm', Fresh, NEW t \in Threads, Lock(t)
    PROVE  Streams(t)
<1> SUFFICES ASSUME Live' PROVE StreamKept(t)
  BY DEF Streams
<1>1. /\ OnBottom(t) /\ First(t).op = "packet" /\ At(t) = "lock" /\ ~Idle(t)
      /\ SameSteps(t) /\ At(t)' = "unlock" /\ Others(t)
      /\ pipe_buffer' =
            [j \in DOMAIN pipe_buffer |->
               IF j \in head .. head + Size[First(t).kind] - 1
               THEN CellOf(t, First(t), j - head + 1)
               ELSE pipe_buffer[j]]
  BY LockEffect DEF OnBottom, SameSteps
<1>2. UNCHANGED <<fd_proc, out, head>>
  BY DEF Lock, LockAndFill, pipeVars
<1>3. Live
  BY <1>1, <1>2, LiveBefore
<1>4. Moving' <=> Moving
  BY <1>1, StillMoving
<1>5. Content' = Content
  <2>1. /\ head \in Nat /\ BufferSize \in Nat /\ head <= BufferSize
        /\ DOMAIN pipe_buffer = 0 .. 2 * BufferSize - 1
    BY StreamTypes
  <2>2. ASSUME NEW j \in 1 .. head PROVE pipe_buffer'[j - 1] = pipe_buffer[j - 1]
    <3>1. PICK i : i = j - 1
      OBVIOUS
    <3>2. i \in 0 .. 2 * BufferSize - 1 /\ i < head
      BY <2>1, <3>1
    <3>3. i \in DOMAIN pipe_buffer /\ i \notin head .. head + Size[First(t).kind] - 1
      BY <2>1, <3>2
    <3> QED
      BY <1>1, <3>1, <3>3
  <2> QED
    BY <1>2, <2>2 DEF Content
<1>6. OnWay(t) => OnWay(t)' /\ First(t)' = First(t)
  BY <1>1 DEF OnWay, Pending, Added, SameSteps
<1> QED
  BY <1>2, <1>3, <1>4, <1>5, <1>6 DEF StreamKept, Stream

LEMMA AddedAfter ==
    ASSUME Calm, NEW t \in Threads, ~Idle(t), SameSteps(t), Bottom(t)'.ptr = Bottom(t).ptr
    PROVE  Overflows(Bottom(t))' <=> Overflows(Bottom(t))
BY DEF SameSteps, Overflows

LEMMA UnlockStreams ==
    ASSUME Calm, Calm', Holds, Fresh, NEW t \in Threads, Unlock(t)
    PROVE  Streams(t)
<1> SUFFICES ASSUME Live' PROVE StreamKept(t) \/ StreamGrown(t)
  BY DEF Streams
<1>1. OnBottom(t) /\ First(t).op = "packet" /\ At(t) = "unlock" /\ ~Idle(t)
  BY UnlockEffect DEF OnBottom
<1>2. Bottom(t).ptr = head /\ PacketAt(t, head)
  BY <1>1 DEF Holds, Held
<1>3. UNCHANGED <<fd_proc, out, pipe_buffer, calls, closed, accepted>>
  BY DEF Unlock, pipeVars
<1>4. \/ /\ Overflows(Bottom(t)) /\ SameSteps(t) /\ At(t)' = "write" /\ head' = head
         /\ Bottom(t)' = [Bottom(t) EXCEPT !.at = "write"]
      \/ /\ ~Overflows(Bottom(t)) /\ SameSteps(t) /\ head' = head + Size[First(t).kind]
         /\ \E place \in {"release", "write"} :
               /\ At(t)' = place
               /\ Bottom(t)' = [Bottom(t) EXCEPT !.at = place]
  BY <1>2, UnlockEffect
<1>5. Others(t) /\ SameSteps(t) /\ At(t)' \in {"release", "write"}
  BY <1>4 DEF SameSteps
<1>6. Live
  BY <1>1, <1>3, <1>5, LiveBefore
<1>7. \A u \in Threads : u # t => At(u) \notin HoldPlaces
  BY <1>1, OneWrites DEF HoldPlaces, At
<1>8. ~Moving /\ ~Moving'
  BY <1>1, <1>5, <1>7, SoleWriter
<1>9. CASE /\ Overflows(Bottom(t)) /\ At(t)' = "write" /\ head' = head
           /\ Bottom(t)' = [Bottom(t) EXCEPT !.at = "write"]
  <2>1. Bottom(t) \in Activation
    BY <1>1, CellsType
  <2>2. Overflows(Bottom(t))'
    BY <1>1, <1>5, <1>9, <2>1, AddedAfter DEF Activation
  <2>3. OnWay(t)' /\ First(t)' = First(t)
    BY <1>1, <1>5, <1>9, <2>2 DEF OnWay, Pending, Added, SameSteps
  <2> QED
    BY <1>3, <1>6, <1>8, <1>9, <2>3, SameStream DEF StreamKept
<1>10. CASE /\ ~Overflows(Bottom(t)) /\ head' = head + Size[First(t).kind]
            /\ \E place \in {"release", "write"} :
                  /\ At(t)' = place
                  /\ Bottom(t)' = [Bottom(t) EXCEPT !.at = place]
  <2>1. head \in Nat /\ Content \in Seq(Cell) /\ Len(Content) = head
    BY StreamTypes
  <2>2. Content' = SubSeq(Content, 1, head) \o CellsOf(t, First(t))
    <3>1. \A i \in 1 .. head : pipe_buffer'[i - 1] = pipe_buffer[i - 1]
      BY <1>3
    <3>2. \A i \in 1 .. Size[First(t).kind] : pipe_buffer'[head + i - 1] = CellOf(t, First(t), i)
      BY <1>2, <1>3 DEF PacketAt
    <3>3. PICK b \in Nat : b = head
      BY <2>1
    <3>4. head' = b + Size[First(t).kind] /\ b <= head
      BY <1>10, <2>1, <3>3
    <3>5. Content' = SubSeq(Content, 1, b) \o CellsOf(t, First(t))
      BY <1>1, <3>1, <3>2, <3>3, <3>4, GrownContent
    <3> QED
      BY <3>3, <3>5
  <2>3. SubSeq(Content, 1, head) = Content
    BY <2>1
  <2>4. PICK c, d, o : c = CellsOf(t, First(t)) /\ d = Content /\ o = out[fd_proc]
    OBVIOUS
  <2>5. \E T : c \in Seq(T) /\ d \in Seq(T) /\ o \in Seq(T)
    <3>1. PICK T : T = Cell \cup {CellOf(t, First(t), i) : i \in 1 .. Size[First(t).kind]}
      OBVIOUS
    <3>2. c \in [1 .. Size[First(t).kind] -> T] /\ Size[First(t).kind] \in Nat
      BY <1>1, <2>4, <3>1, CellsType DEF CellsOf
    <3>3. c \in Seq(T)
      BY <3>2
    <3>4. d \in Seq(T) /\ o \in Seq(T)
      BY <1>6, <2>4, <3>1, StreamTypes DEF Live
    <3> QED
      BY <3>3, <3>4
  <2>6. o \o (d \o c) = (o \o d) \o c
    BY <2>5
  <2>7. Stream' = Stream \o CellsOf(t, First(t))
    BY <1>3, <1>8, <2>2, <2>3, <2>4, <2>6 DEF Stream
  <2>8. Bottom(t) \in Activation
    BY <1>1, CellsType
  <2>9. ~Overflows(Bottom(t))'
    BY <1>1, <1>5, <1>10, <2>8, AddedAfter DEF Activation
  <2>10. Pending(t) /\ ~Pending(t)'
    BY <1>1, <1>5, <2>9 DEF Pending, Added, SameSteps
  <2> QED
    BY <1>1, <1>3, <1>5, <1>6, <2>7, <2>10 DEF StreamGrown
<1> QED
  BY <1>4, <1>9, <1>10

LEMMA CopyCellStreams ==
    ASSUME Calm, Calm', Fresh, NEW t \in Threads, CopyCell(t)
    PROVE  Streams(t)
<1> SUFFICES ASSUME Live' PROVE StreamKept(t)
  BY DEF Streams
<1>1. /\ OnBottom(t) /\ First(t).op = "packet" /\ At(t) = "copy" /\ ~Idle(t)
      /\ Others(t) /\ At(t)' = "copy" /\ SameSteps(t)
  BY CopyCellEffect DEF OnBottom, SameSteps
<1>2. UNCHANGED <<fd_proc, out>>
  BY DEF CopyCell, pipeVars
<1>3. Live
  BY <1>1, <1>2, LiveBefore
<1>4. Moving /\ Moving'
  BY <1>1 DEF Moving
<1>5. OnWay(t)' /\ First(t)' = First(t)
  BY <1>1 DEF OnWay, Pending, Added, SameSteps
<1> QED
  BY <1>2, <1>3, <1>4, <1>5 DEF StreamKept, Stream

LEMMA ReleaseStreams ==
    ASSUME Calm, Calm', Holds, Fresh, NEW t \in Threads, Release(t)
    PROVE  Streams(t)
<1> SUFFICES ASSUME Live' PROVE StreamKept(t) \/ StreamGrown(t)
  BY DEF Streams
<1>1. /\ OnBottom(t) /\ First(t).op = "packet" /\ ~Idle(t) /\ Skipped(t) /\ Others(t)
      /\ At(t)' = "start"
      /\ \/ At(t) = "release"
         \/ At(t) = "copy" /\ head >= Size[First(t).kind]
  BY ReleaseEffect DEF OnBottom, Skipped, MovedOn
<1>2. UNCHANGED <<fd_proc, out, pipe_buffer, head, calls, closed, accepted>>
  BY DEF Release, pipeVars
<1>3. Live
  BY <1>1, <1>2, LiveBefore
<1>4. CASE At(t) = "release"
  BY <1>1, <1>2, <1>3, <1>4, StillMoving, SameStream DEF StreamKept, OnWay, Pending, Added
<1>5. CASE At(t) = "copy" /\ head >= Size[First(t).kind]
  <2>1. \A u \in Threads : u # t => At(u) \notin HoldPlaces
    BY <1>1, <1>5, OneWrites DEF HoldPlaces, At
  <2>2. Moving /\ ~Moving'
    BY <1>1, <1>5, <2>1, SoleWriter
  <2>3. /\ head <= Size[First(t).kind]
        /\ \A i \in 1 .. Size[First(t).kind] :
              pipe_buffer[(IF i <= head THEN 0 ELSE Bottom(t).ptr - head) + i - 1]
                        = CellOf(t, First(t), i)
    BY <1>1, <1>5 DEF Holds, Held
  <2>4. head \in Nat /\ Size[First(t).kind] \in Nat
    BY <1>1, CellsType
  <2>5. head = Size[First(t).kind]
    BY <1>5, <2>3, <2>4
  <2>6. \A i \in 1 .. Size[First(t).kind] : i <= head /\ 0 + i - 1 = i - 1
    BY <2>4, <2>5
  <2>7. Content = CellsOf(t, First(t))
    BY <2>3, <2>5, <2>6 DEF Content, CellsOf
  <2>8. Stream' = Stream \o CellsOf(t, First(t))
    BY <1>2, <2>2, <2>7 DEF Stream, Content
  <2>9. Pending(t)
    BY <1>1, <1>5 DEF Pending, Added
  <2> QED
    BY <1>1, <1>2, <1>3, <1>5, <2>8, <2>9 DEF StreamGrown
<1> QED
  BY <1>1, <1>4, <1>5

(* A session that is written to is live.                                   *)
LEMMA WrittenLive ==
    ASSUME Calm, Fresh, NEW t \in Threads, ~Idle(t), First(t).op # "reset", fd_proc > 0
    PROVE  Live
<1> SUFFICES ASSUME NEW u \in Threads, Op(u, "reset") PROVE FALSE
  BY DEF Live
<1>1. First(u).op = "reset" /\ ~Idle(u)
  BY DEF Fresh, Op, Steps
<1>2. Solo(u)
  BY <1>1, SoloFirst
<1>3. u = t
  BY <1>2 DEF Calm, Shape, Apart
<1> QED
  BY <1>1, <1>3

LEMMA SentOut ==
    ASSUME Calm, Fresh, NEW t \in Threads, WriteSent(t)
    PROVE  \/ fd_proc = 0 /\ out' = out
           \/ /\ fd_proc > 0 /\ fd_proc \notin closed /\ Live /\ ~Moving
              /\ out' = [out EXCEPT ![fd_proc] = Stream]
<1>1. /\ OnBottom(t) /\ ~Idle(t) /\ At(t) \in {"write", "start"}
      /\ First(t).op \in {"packet", "flush"}
      /\ At(t) = "write" \/ First(t).op = "flush"
  BY WriteSentEffect DEF OnBottom
<1>2. fd_proc \in Int /\ fd_proc >= 0 /\ fd_proc \notin closed
  BY DEF WriteSent, Writable, Calm, Inv, TypeOK, PipeTypes
<1>3. ~Moving
  <2> SUFFICES ASSUME NEW u \in Threads, At(u) \in {"rewind", "copy"} PROVE FALSE
    BY DEF Moving
  <2>1. u = t
    BY <1>1, OneWrites DEF HoldPlaces
  <2> QED
    BY <1>1, <2>1
<1>4. CASE fd_proc = 0
  BY <1>4 DEF WriteSent, Send
<1>5. CASE fd_proc > 0
  <2>1. Live
    BY <1>1, <1>5, WrittenLive
  <2>2. fd_proc # 0
    BY <1>5
  <2>3. PICK c : c = [j \in 1 .. head |-> pipe_buffer[j - 1]]
    OBVIOUS
  <2>4. Send(c)
    BY <2>3 DEF WriteSent
  <2>5. out' = [out EXCEPT ![fd_proc] = out[fd_proc] \o c]
    BY <2>2, <2>4 DEF Send
  <2>6. Stream = out[fd_proc] \o c
    BY <1>3, <2>3 DEF Stream, Content
  <2> QED
    BY <1>2, <1>3, <1>5, <2>1, <2>5, <2>6
<1> QED
  BY <1>2, <1>4, <1>5

LEMMA WriteSentStreams ==
    ASSUME Calm, Calm', Fresh, NEW t \in Threads, WriteSent(t)
    PROVE  Streams(t)
<1> SUFFICES ASSUME Live' PROVE StreamKept(t)
  BY DEF Streams
<1>1. At(t)' = "rewind"
  BY WriteSentEffect
<1>2. fd_proc' = fd_proc /\ fd_proc > 0 /\ Moving'
  BY <1>1 DEF WriteSent, Live, Moving
<1>3. Live /\ out' = [out EXCEPT ![fd_proc] = Stream]
  BY <1>2, SentOut
<1>4. fd_proc \in DOMAIN out
  BY <1>2, StreamTypes
<1>5. Stream' = Stream
  <2>1. PICK x : x = Stream
    OBVIOUS
  <2>2. out' = [out EXCEPT ![fd_proc] = x]
    BY <1>3, <2>1
  <2>3. out'[fd_proc] = x
    BY <1>4, <2>2
  <2>4. Stream' = out'[fd_proc]
    BY <1>2 DEF Stream
  <2> QED
    BY <2>1, <2>3, <2>4
<1>6. OnWay(t) => OnWay(t)' /\ First(t)' = First(t)
  <2>1. /\ OnBottom(t) /\ ~Idle(t) /\ SameSteps(t)
        /\ Bottom(t)' = [Bottom(t) EXCEPT !.at = "rewind"]
    BY WriteSentEffect DEF OnBottom
  <2>2. Bottom(t) \in Activation
    BY <2>1, CellsType
  <2>3. Overflows(Bottom(t))' <=> Overflows(Bottom(t))
    BY <2>1, <2>2, AddedAfter DEF Activation
  <2>4. At(t) \in {"write", "start"}
    BY WriteSentEffect
  <2> QED
    BY <1>1, <2>1, <2>3, <2>4 DEF OnWay, Pending, Added, SameSteps
<1> QED
  BY <1>2, <1>3, <1>5, <1>6 DEF StreamKept

LEMMA EmptyContent ==
    ASSUME head' = 0, NEW T, NEW s \in Seq(T)
    PROVE  s \o Content' = s
<1>1. Content' = <<>>
  <2>1. 1 .. 0 = {}
    OBVIOUS
  <2> QED
    BY <2>1 DEF Content
<1> QED
  BY <1>1

LEMMA RewindStreams ==
    ASSUME Calm, Calm', Fresh, NEW t \in Threads, Rewind(t)
    PROVE  Streams(t)
<1> SUFFICES ASSUME Live' PROVE StreamKept(t)
  BY DEF Streams
<1>1. /\ OnBottom(t) /\ At(t) = "rewind" /\ head' = 0 /\ ~Idle(t)
      /\ First(t).op \in {"packet", "flush"} /\ Others(t)
  BY RewindEffect DEF OnBottom, Skipped, MovedOn, SameSteps
<1>2. UNCHANGED <<fd_proc, out>>
  BY DEF Rewind, pipeVars
<1>3. Live
  BY <1>1, <1>2, LiveBefore
<1>4. Moving
  BY <1>1 DEF Moving
<1>5. out[fd_proc] \in Seq(Cell)
  BY <1>3, StreamTypes DEF Live
<1>6. out[fd_proc] \o Content' = out[fd_proc]
  BY <1>1, <1>5, EmptyContent
<1>7. Stream' = Stream
  BY <1>2, <1>4, <1>6 DEF Stream
<1>8. OnWay(t) => OnWay(t)' /\ First(t)' = First(t)
  <2> SUFFICES ASSUME OnWay(t) PROVE OnWay(t)' /\ First(t)' = First(t)
    OBVIOUS
  <2>1. First(t).op = "packet" /\ Overflows(Bottom(t))
    BY <1>1 DEF OnWay, Pending, Added
  <2>2. SameSteps(t) /\ At(t)' = "copy"
    BY <2>1, RewindEffect
  <2> QED
    BY <2>1, <2>2 DEF OnWay, Pending, Added, SameSteps
<1> QED
  BY <1>2, <1>3, <1>7, <1>8 DEF StreamKept

LEMMA ResetStreams ==
    ASSUME Calm, Calm', Fresh, NEW t \in Threads, Reset(t)
    PROVE  Streams(t)
<1> SUFFICES ASSUME Live' PROVE StreamStarted
  BY DEF Streams
<1>1. OnBottom(t) /\ First(t).op = "reset" /\ ~Idle(t) /\ Skipped(t)
  BY ReturnEffects DEF OnBottom
<1>2. UNCHANGED <<fd_proc, out>> /\ head' = 0
  BY DEF Reset, pipeVars
<1>3. Op(t, "reset")
  BY <1>1, InvStack, Views DEF Op, Calm
<1>4. fd_proc > 0 /\ out[fd_proc] = <<>>
  BY <1>2, <1>3 DEF Live, Fresh
<1>5. <<>> \in Seq(Cell)
  OBVIOUS
<1>6. <<>> \o Content' = <<>>
  BY <1>2, <1>5, EmptyContent
<1>7. Stream' = <<>>
  BY <1>2, <1>4, <1>6 DEF Stream
<1> QED
  BY <1>2, <1>3, <1>4, <1>7 DEF StreamStarted, Live

LEMMA DeadStreams ==
    ASSUME Calm', NEW t \in Threads, At(t)' = "fail" \/ ~(fd_proc' > 0)
    PROVE  Streams(t)
<1>1. ~(fd_proc' > 0)
  BY DEF Calm, Control, Doing
<1> QED
  BY <1>1 DEF Streams, Live

LEMMA InnerStreams ==
    ASSUME Calm', NEW t \in Threads, OnInner(t), ~Idle(t)', stack'[t][1] = stack[t][1]
    PROVE  Streams(t)
<1>1. At(t)' = "fail"
  BY BelowKept DEF OnInner
<1> QED
  BY <1>1, DeadStreams

LEMMA CheckEnableStreams ==
    ASSUME Calm, Calm', Fresh, NEW t \in Threads, CheckEnable(t)
    PROVE  Streams(t)
<1>1. UNCHANGED <<fd_proc, out, pipe_buffer, head>>
  BY DEF CheckEnable, pipeVars, bufferVars
<1>2. CASE OnBottom(t)
  <2>1. ~OnInner(t)
    BY <1>2 DEF OnBottom, OnInner
  <2>2. /\ Others(t) /\ At(t) = "start" /\ At(t)' \in {"start", "lock"}
        /\ First(t).op = "packet"
    BY <2>1, CheckEnableEffect DEF Skipped, MovedOn, SameSteps
  <2> QED
    BY <1>1, <2>2, AsideStreams
<1>3. CASE OnInner(t)
  <2>1. ~OnBottom(t)
    BY <1>3 DEF OnBottom, OnInner
  <2>2. Len(stack'[t]) = 2 /\ stack'[t][1] = stack[t][1]
    BY <2>1, CheckEnableEffect
  <2>3. ~Idle(t)'
    BY <2>2 DEF Idle
  <2> QED
    BY <1>3, <2>2, <2>3, InnerStreams
<1> QED
  BY <1>2, <1>3, CheckEnableEffect

(* A step that is neither a packet nor a flush has no place inside.        *)
LEMMA PlainPlace ==
    ASSUME Calm, NEW t \in Threads, ~Idle(t), First(t).op \notin {"packet", "flush"}
    PROVE  At(t) = "start"
BY DEF Calm, Shape, Fits, OuterFits

LEMMA EnableModuleStreams ==
    ASSUME Calm, Calm', Fresh, NEW t \in Threads, EnableModule(t)
    PROVE  Streams(t)
<1>1. UNCHANGED <<fd_proc, out, pipe_buffer, head>>
  BY DEF EnableModule, pipeVars, bufferVars
<1>2. CASE OnBottom(t)
  <2>1. ~OnInner(t) /\ ~Idle(t)
    BY <1>2 DEF OnBottom, OnInner
  <2>2. \E more : MovedOn(t, more) /\ First(t).op = "enable"
    BY <2>1, EnableModuleEffect
  <2>3. At(t) = "start" /\ At(t)' = "start" /\ Others(t)
    BY <2>1, <2>2, PlainPlace DEF MovedOn
  <2> QED
    BY <1>1, <2>2, <2>3, AsideStreams
<1>3. CASE OnInner(t)
  <2>1. ~OnBottom(t) /\ ~Idle(t)
    BY <1>3 DEF OnBottom, OnInner
  <2>2. ~Idle(t)' /\ stack'[t][1] = stack[t][1]
    BY <2>1, EnableModuleEffect
  <2> QED
    BY <1>3, <2>2, InnerStreams
<1> QED
  BY <1>2, <1>3, EnableModuleEffect

LEMMA OpenPipeStreams ==
    ASSUME Calm, Calm', NEW t \in Threads, OpenPipe(t)
    PROVE  Streams(t)
<1>1. OnBottom(t) /\ First(t).op \in {"open", "openinit"} /\ ~Idle(t)
  BY OpenPipeEffect DEF OnBottom
<1>2. First(t) \in Steps(t)
  BY <1>1, InvStack, Views DEF Calm
<1>3. fd_proc <= 0 /\ fd_proc \in Int
  BY <1>1, <1>2 DEF Calm, Control, Doing, Opens, Inv, TypeOK, PipeTypes
<1>4. CASE fd_proc' = fd_proc
  BY <1>3, <1>4, DeadStreams
<1>5. CASE First(t)' = Do("reset", 0, 0) /\ \E more \in Seq(Step) : MovedOn(t, more) /\ Elements(more) = InitialSteps
  <2>1. Do("reset", 0, 0) \in Steps(t)'
    BY <1>5 DEF MovedOn, InitialSteps
  <2>2. Op(t, "reset")'
    BY <2>1 DEF Op, Do
  <2> QED
    BY <2>2 DEF Streams, Live
<1> QED
  BY <1>4, <1>5, OpenPipeEffect

(* The steps that touch neither the pipe's descriptor nor the buffer.      *)
LEMMA RegistryStreams ==
    ASSUME Calm, Calm', Fresh, NEW t \in Threads,
           \/ WriteRegistries(t) \/ RegisterModule(t) \/ RegisterResource(t)
           \/ HeapInfo(t) \/ StoreHeapInfo(t) \/ ClosePipe(t) \/ Ready(t)
    PROVE  /\ Streams(t) /\ OnBottom(t) /\ First(t).op \notin {"packet", "flush", "reset"}
           /\ \E more : MovedOn(t, more)
           /\ UNCHANGED <<fd_proc, out, pipe_buffer, head, calls, accepted>>
<1>1. OnBottom(t) /\ UNCHANGED <<pipe_buffer, head>> /\ \E more : MovedOn(t, more)
  BY MovingSteps
<1>2. UNCHANGED <<fd_proc, out, calls, accepted>>
  BY DEF WriteRegistries, RegisterModule, RegisterResource, HeapInfo, StoreHeapInfo,
         ClosePipe, Ready, pipeVars
<1>3. First(t).op \in {"modules", "resources", "register", "resource", "heapinfo", "store",
                       "close", "ready"} /\ ~Idle(t)
  BY <1>1, WriteRegistriesEffect, RegisterModuleEffect, RegisterResourceEffect,
     HeapInfoEffect, ReturnEffects DEF OnBottom
<1>4. At(t) = "start" /\ At(t)' = "start" /\ Others(t)
  BY <1>1, <1>3, PlainPlace DEF MovedOn
<1>5. Streams(t)
  BY <1>1, <1>2, <1>3, <1>4, AsideStreams
<1> QED
  BY <1>1, <1>2, <1>3, <1>5

LEMMA ProgressStreams ==
    ASSUME Calm, Calm', Holds, Fresh, NEW t \in Threads, Progress(t)
    PROVE  Streams(t)
<1>1. CASE CheckEnable(t) \/ Lock(t) \/ Unlock(t) \/ CopyCell(t) \/ Release(t)
  BY <1>1, CheckEnableStreams, LockStreams, UnlockStreams, CopyCellStreams, ReleaseStreams
<1>2. CASE WriteSent(t) \/ Rewind(t) \/ Reset(t) \/ OpenPipe(t) \/ EnableModule(t)
  BY <1>2, WriteSentStreams, RewindStreams, ResetStreams, OpenPipeStreams, EnableModuleStreams
<1>3. CASE WriteFailed(t)
  BY <1>3, WriteFailedEffect, DeadStreams
<1>4. CASE DisableAfterError(t) \/ ClearPipe(t)
  <2>1. fd_proc' = 0 \/ fd_proc' = -1
    BY <1>4 DEF DisableAfterError, ClearPipe
  <2>2. ~(fd_proc' > 0)
    BY <2>1
  <2> QED
    BY <2>2, DeadStreams
<1>5. CASE \/ WriteRegistries(t) \/ RegisterModule(t) \/ RegisterResource(t)
           \/ HeapInfo(t) \/ StoreHeapInfo(t) \/ ClosePipe(t) \/ Ready(t)
  BY <1>5, RegistryStreams
<1> QED
  BY <1>1, <1>2, <1>3, <1>4, <1>5 DEF Progress

LEMMA EntryStreams ==
    ASSUME Quiescent, Calm, Holds, Fresh, NEW t \in Threads, EntryPoint(t)
    PROVE  Streams(t)
<1>1. UNCHANGED <<pipe_buffer, head, fd_proc, out>> /\ Idle(t) /\ Others(t) /\ At(t)' = "start"
  BY EnteringSteps
<1>2. At(t) = "start"
  BY <1>1 DEF At
<1> QED
  BY <1>1, <1>2, AsideStreams

(* What an entry point has thread t do.                                    *)
Calling(t) ==
    \E m \in TracingModules : \E i \in DOMAIN Registers[m] : FunctionCall(t, m, Registers[m][i])
Begun(t, s) ==
    \/ s.op = "packet" /\ s.n = calls + 1 /\ calls' = calls + 1
    \/ /\ Op(t, "close")' /\ ~exited /\ \A u \in Threads : Idle(u)
       /\ s.op = "packet" => s = Packet("NL", 1, 0)
Entered(t) ==
    /\ \A s \in Steps(t)' : /\ s.op \notin {"reset", "modules", "resources"}
                            /\ s.op \in {"packet", "heapinfo"} => Begun(t, s)
    /\ Op(t, "close")' => Op(t, "flush")' /\ ~Op(t, "register")' /\ ~Op(t, "resource")'
    /\ Pending(t)' /\ First(t)'.kind = "FC" => First(t)'.n = calls + 1 /\ calls' = calls + 1
    /\ calls' \in {calls, calls + 1}
    /\ \/ \A s \in Steps(t)' : s.op \notin {"register", "resource"}
       \/ \E m \in TracingModules : InitializeModule(t, m)
    /\ \A s \in Steps(t)' : s.op = "packet" /\ s.kind = "FC" => Calling(t)

LEMMA ViewsAfter ==
    ASSUME StackOK', NEW t \in Threads, ~Idle(t)'
    PROVE  /\ First(t)' \in Step /\ First(t)' \in Steps(t)'
           /\ Steps(t)' \subseteq Step
<1>1. stack'[t] \in Seq(Activation) /\ stack'[t] # <<>>
  BY DEF StackOK, Idle
<1>2. 1 \in DOMAIN stack'[t]
  BY <1>1
<1>3. PICK todo : todo = stack'[t][1].todo
  OBVIOUS
<1>4. todo \in Seq(Step) /\ todo # <<>>
  <2>1. stack'[t][1] \in Activation
    BY <1>1, <1>2
  <2>2. Busy'
    BY DEF StackOK
  <2>3. stack'[t][1].todo # <<>>
    BY <1>2, <2>2 DEF Busy
  <2> QED
    BY <1>3, <2>1, <2>3 DEF Activation
<1>5. /\ Head(todo) \in Step
      /\ Elements(todo) = {Head(todo)} \cup Elements(Tail(todo))
  BY <1>4, HeadAndTail
<1>6. Elements(todo) \subseteq Step
  BY <1>4, JoinedElements
<1> QED
  BY <1>1, <1>3, <1>5, <1>6 DEF Steps, First, Idle

LEMMA SoloEntered ==
    ASSUME Calm, Calm', NEW t \in Threads, Idle(t), NEW todo \in Seq(Step), NEW why \in Reasons,
           why # "call", Enter(t, todo, why), calls' = calls,
           \A s \in Elements(todo) :
              /\ s.op \notin {"reset", "modules", "resources"}
              /\ s.op \in {"packet", "heapinfo"} =>
                    /\ \E r \in Elements(todo) : r.op = "close"
                    /\ ~exited /\ \A u \in Threads : Idle(u)
                    /\ s.op = "packet" => s = Packet("NL", 1, 0),
           \A s \in Elements(todo) : s.op = "close" =>
              /\ \E r \in Elements(todo) : r.op = "flush"
              /\ \A r \in Elements(todo) : r.op \notin {"register", "resource"},
           \/ \A s \in Elements(todo) : s.op \notin {"register", "resource"}
           \/ \E m \in TracingModules : InitializeModule(t, m)
    PROVE  Entered(t)
<1>1. StackOK
  BY InvStack DEF Calm
<1>2. /\ Steps(t)' = Elements(todo) /\ (~Idle(t)' => Why(t)' = why)
  BY <1>1, EnterView
<1>3. ~(Pending(t)' /\ First(t)'.kind = "FC")
  <2> SUFFICES ASSUME Pending(t)', First(t)'.kind = "FC" PROVE FALSE
    OBVIOUS
  <2>1. ~Idle(t)' /\ First(t)'.op = "packet" /\ Why(t)' # "call"
    BY <1>2 DEF Pending
  <2>2. StackOK' /\ Fits(t)'
    BY DEF Calm, Shape, Inv, TypeOK, StackTypes, StackOK
  <2>3. First(t)' \in Steps(t)'
    BY <2>1, <2>2, ViewsAfter
  <2> QED
    BY <2>1, <2>2, <2>3 DEF Fits, OuterFits, SoloStep
<1>4. ASSUME NEW s \in Steps(t)', s.op = "packet" PROVE s.kind # "FC"
  <2>1. ~Idle(t)'
    BY <1>4 DEF Steps
  <2>2. Why(t)' # "call" /\ Fits(t)'
    BY <1>2, <2>1 DEF Calm, Shape
  <2> QED
    BY <1>4, <2>1, <2>2 DEF Fits, OuterFits, SoloStep
<1>5. \A s \in Steps(t)' : s.op \in {"packet", "heapinfo"} => Begun(t, s)
  BY <1>2 DEF Begun, Op
<1> QED
  BY <1>2, <1>3, <1>4, <1>5 DEF Entered, Op

LEMMA NothingEntered ==
    ASSUME Calm, NEW t \in Threads, Idle(t), NEW why, Enter(t, <<>>, why), calls' = calls
    PROVE  Entered(t)
<1>1. stack' = stack
  BY DEF Enter, Calm, Inv, TypeOK, StackTypes
<1>2. Idle(t)'
  BY <1>1 DEF Idle
<1> QED
  BY <1>2 DEF Entered, Pending, Steps, Op

LEMMA CallEntered ==
    ASSUME Calm, NEW t \in Threads, Idle(t), NEW todo \in Seq(Step), todo # <<>>,
           Enter(t, todo, "call"), calls' = calls + 1,
           \A s \in Elements(todo) : s.op \in {"packet", "store"},
           Head(todo).kind = "FC" => Head(todo).n = calls + 1,
           \A s \in Elements(todo) : s.op = "packet" => s.n = calls + 1,
           \A s \in Elements(todo) : s.op = "packet" /\ s.kind = "FC" => Calling(t)
    PROVE  Entered(t)
<1>1. StackOK /\ "call" \in Reasons
  BY InvStack DEF Calm, Reasons
<1>2. /\ Steps(t)' = Elements(todo) /\ First(t)' = Head(todo)
  BY <1>1, EnterView
<1>3. \A s \in Steps(t)' : s.op \in {"packet", "heapinfo"} => Begun(t, s)
  BY <1>2 DEF Begun
<1> QED
  BY <1>2, <1>3 DEF Entered, Op

LEMMA CallsEntered ==
    ASSUME Calm, Quiescent, NEW t \in Threads,
           \/ \E m \in TracingModules : \E i \in DOMAIN Registers[m] :
                 FunctionCall(t, m, Registers[m][i])
           \/ Dlopen(t) \/ CreateContext(t)
    PROVE  Entered(t)
<1>1. calls \in Nat /\ calls + 1 \in Nat /\ resources \in Nat
  BY RegistryAssumption DEF Calm, Inv, TypeOK, LifeTypes, RegistryTypes
<1>2. ASSUME NEW p \in Step, p.op = "packet", p.n = calls + 1,
             p.kind = "FC" => Calling(t),
             NEW rest \in Seq(Step), \A s \in Elements(rest) : s.op = "store",
             Enter(t, <<p>> \o rest, "call"), calls' = calls + 1, Idle(t)
      PROVE  Entered(t)
  <2>1. PICK a, todo : a = <<p>> /\ todo = a \o rest
    OBVIOUS
  <2>2. a \in Seq(Step) /\ Elements(a) = {p} /\ a # <<>> /\ a[1] = p
    BY <2>1 DEF Elements
  <2>3. /\ todo \in Seq(Step) /\ Elements(todo) = {p} \cup Elements(rest)
        /\ todo # <<>> /\ todo[1] = p
    <3>1. Elements(todo) = Elements(a) \cup Elements(rest) /\ todo \in Seq(Step)
          /\ todo # <<>> /\ todo[1] = a[1]
      BY <1>2, <2>1, <2>2, JoinedSteps
    <3> QED
      BY <2>2, <3>1
  <2>4. Head(todo) = p
    BY <2>3
  <2>5. Enter(t, todo, "call")
    BY <1>2, <2>1
  <2>6. \A s \in Elements(todo) : /\ s.op \in {"packet", "store"}
                                  /\ s.op = "packet" => s.n = calls + 1
                                  /\ s.op = "packet" /\ s.kind = "FC" => Calling(t)
    BY <1>2, <2>3
  <2> QED
    BY <1>2, <2>3, <2>4, <2>5, <2>6, CallEntered
<1>3. <<>> \in Seq(Step) /\ Elements(<<>>) = {}
  BY DEF Elements
<1>4. ASSUME NEW type, NEW m, FunctionCall(t, m, type), Calling(t) PROVE Entered(t)
  <2>1. IdOf(type) \in Nat
    BY <1>1 DEF IdOf
  <2>2. PICK p, q, rest : /\ p = Packet("FC", IdOf(type), calls + 1) /\ q = Do("store", 0, 0)
                          /\ rest = (IF StoreHeap THEN <<q>> ELSE <<>>)
    OBVIOUS
  <2>3. p \in Step /\ p.op = "packet" /\ p.n = calls + 1 /\ q \in Step /\ q.op = "store"
    BY <1>1, <2>1, <2>2, StepTypes DEF Kinds, Packet, Do, Ops
  <2>4. rest \in Seq(Step) /\ \A s \in Elements(rest) : s.op = "store"
    BY <1>3, <2>2, <2>3 DEF Elements
  <2>5. Enter(t, <<p>> \o rest, "call") /\ calls' = calls + 1 /\ Idle(t)
    BY <1>4, <2>2 DEF FunctionCall, MayEnter
  <2> QED
    BY <1>2, <1>4, <2>3, <2>4, <2>5
<1>5. ASSUME NEW kind \in {"NL", "CR"}, NEW id \in Nat,
             Enter(t, <<Packet(kind, id, calls + 1)>>, "call"), calls' = calls + 1, Idle(t)
      PROVE  Entered(t)
  <2>1. PICK p, e : p = Packet(kind, id, calls + 1) /\ e = <<>>
    OBVIOUS
  <2>2. p \in Step /\ p.op = "packet" /\ p.kind # "FC" /\ p.n = calls + 1
    BY <1>1, <2>1, StepTypes DEF Kinds, Packet
  <2>3. e \in Seq(Step) /\ Elements(e) = {} /\ <<p>> \o e = <<p>>
    BY <1>3, <2>1, <2>2
  <2>4. Enter(t, <<p>> \o e, "call")
    BY <1>5, <2>1, <2>3
  <2> QED
    BY <1>2, <1>5, <2>2, <2>3, <2>4
<1>6. CASE Dlopen(t)
  BY <1>5, <1>6 DEF Dlopen, MayEnter
<1>7. CASE CreateContext(t)
  BY <1>5, <1>7 DEF CreateContext, MayEnter
<1> QED
  BY <1>4, <1>6, <1>7 DEF Calling

LEMMA InitializeEntered ==
    ASSUME Calm, Calm', Quiescent, NEW t \in Threads,
           Initialize(t) \/ \E m \in TracingModules : InitializeModule(t, m)
    PROVE  Entered(t)
<1>0. "init" \in Reasons
  BY DEF Reasons
<1>1. PICK q : q = InitializeSteps
  OBVIOUS
<1>2. q \in Seq(Step) /\ \A s \in Elements(q) : s.op \in {"openinit", "ready"}
  BY <1>1, InitStepsOrder
<1>3. CASE Initialize(t)
  <2>1. Enter(t, q, "init") /\ calls' = calls /\ Idle(t)
    BY <1>1, <1>3 DEF Initialize
  <2>2. \A s \in Elements(q) : s.op \notin {"reset", "modules", "resources", "packet", "heapinfo",
                                          "close", "register", "resource"}
    BY <1>2
  <2> QED
    BY <1>0, <1>2, <2>1, <2>2, SoloEntered
<1>4. ASSUME NEW m \in TracingModules, InitializeModule(t, m) PROVE Entered(t)
  <2>1. PICK d, e : /\ d = <<Do("register", m, 0)>>
                    /\ e = [i \in DOMAIN Registers[m] |-> Do("resource", Registers[m][i], 0)]
    OBVIOUS
  <2>2. /\ d \in Seq(Step) /\ \A s \in Elements(d) : s.op = "register"
        /\ e \in Seq(Step) /\ \A s \in Elements(e) : s.op = "resource"
    BY <2>1, ModuleStepsOrder
  <2>3. PICK c, todo : c = q \o d /\ todo = c \o e
    OBVIOUS
  <2>4. c \in Seq(Step) /\ Elements(c) = Elements(q) \cup Elements(d)
    BY <1>2, <2>2, <2>3, JoinedSteps
  <2>5. todo \in Seq(Step) /\ Elements(todo) = Elements(c) \cup Elements(e)
    BY <2>2, <2>3, <2>4, JoinedSteps
  <2>6. Enter(t, todo, "init") /\ calls' = calls /\ Idle(t)
    BY <1>1, <1>4, <2>1, <2>3 DEF InitializeModule
  <2>7. \A s \in Elements(todo) : s.op \notin {"reset", "modules", "resources", "packet",
                                             "heapinfo", "close"}
    BY <1>2, <2>2, <2>4, <2>5
  <2> QED
    BY <1>0, <1>4, <2>5, <2>6, <2>7, SoloEntered
<1> QED
  BY <1>3, <1>4

LEMMA SignalEntered ==
    ASSUME Calm, Calm', Quiescent, NEW t \in Threads, ToggleTracing(t) \/ Exit(t)
    PROVE  Entered(t)
<1>1. /\ \A u \in Threads : Idle(u)
      /\ calls' = calls
      /\ ~exited
  BY DEF ToggleTracing, Exit, Alone
<1>2. {"signal", "exit"} \subseteq Reasons
  BY DEF Reasons
<1>3. PICK e, f, c, l : /\ e = EnableTracing(0) /\ f = Do("flush", 0, 0)
                        /\ c = Do("close", 0, 0) /\ l = Do("clear", 0, 0)
  OBVIOUS
<1>4. ASSUME NEW why \in {"signal", "exit"}, NEW w \in {<<e, f, c, l>>, <<e, f, c>>},
             Enter(t, WriteFinalData \o w, why)
      PROVE  Entered(t)
  <2>1. PICK todo : todo = WriteFinalData \o w
    OBVIOUS
  <2>2. SessionEnd(e, f, c, l, w, todo)
    BY <1>3, <2>1 DEF SessionEnd
  <2>3. /\ todo \in Seq(Step) /\ f \in Elements(todo) /\ c \in Elements(todo)
        /\ \A s \in Elements(todo) : /\ s.op \in {"packet", "heapinfo"} \/ s \in {e, f, c, l}
                                     /\ s.op = "packet" => s = Packet("NL", 1, 0)
        /\ e.op = "enable" /\ f.op = "flush"
        /\ c.op = "close" /\ l.op = "clear"
    BY <2>2, SessionEndSteps
  <2>4. \A s \in Elements(todo) :
           /\ s.op \notin {"reset", "modules", "resources", "register", "resource"}
           /\ s.op = "packet" => s = Packet("NL", 1, 0)
    BY <2>3
  <2> QED
    BY <1>1, <1>2, <1>4, <2>1, <2>3, <2>4, SoloEntered
<1>5. CASE ToggleTracing(t)
  <2>1. CASE ~enable
    <3>1. PICK o, todo : o = Do("open", 0, 0) /\ todo = <<o>>
      OBVIOUS
    <3>2. Enter(t, todo, "signal")
      BY <1>5, <2>1, <3>1 DEF ToggleTracing
    <3>3. o \in Step /\ o.op = "open"
      BY <3>1, StepTypes DEF Do, Ops
    <3>4. todo \in Seq(Step) /\ Elements(todo) = {o}
      BY <3>1, <3>3 DEF Elements
    <3> QED
      BY <1>1, <1>2, <3>2, <3>3, <3>4, SoloEntered
  <2>2. CASE enable /\ fd_proc > 0
    <3>1. Enter(t, WriteFinalData \o <<e, f, c, l>>, "signal")
      BY <1>3, <1>5, <2>2 DEF ToggleTracing
    <3> QED
      BY <1>4, <3>1
  <2>3. CASE enable /\ ~(fd_proc > 0)
    <3>1. Enter(t, <<>>, "signal")
      BY <1>5, <2>3 DEF ToggleTracing
    <3> QED
      BY <1>1, <3>1, NothingEntered
  <2> QED
    BY <2>1, <2>2, <2>3
<1>6. CASE Exit(t)
  <2>1. CASE fd_proc > 0
    <3>1. enable
      BY <1>1, <1>6, <2>1, QuietStanding
    <3>2. Enter(t, WriteFinalData \o <<e, f, c>>, "exit")
      BY <1>3, <1>6, <2>1, <3>1 DEF Exit
    <3> QED
      BY <1>4, <3>2
  <2>2. CASE ~(fd_proc > 0)
    <3>1. Enter(t, <<>>, "exit")
      BY <1>6, <2>2 DEF Exit
    <3> QED
      BY <1>1, <3>1, NothingEntered
  <2> QED
    BY <2>1, <2>2
<1> QED
  BY <1>5, <1>6

LEMMA EntryEntered ==
    ASSUME Calm, Calm', Quiescent, NEW t \in Threads, EntryPoint(t)
    PROVE  Entered(t)
BY CallsEntered, InitializeEntered, SignalEntered DEF EntryPoint

LEMMA EntersNoReset ==
    ASSUME Calm, Calm', Quiescent, NEW t \in Threads, EntryPoint(t)
    PROVE  ~Op(t, "reset")'
<1>1. Entered(t)
  BY EntryEntered
<1>2. \A s \in Steps(t)' : s.op \notin {"reset", "modules", "resources"}
  BY <1>1 DEF Entered
<1> QED
  BY <1>2 DEF Op

(* A function call is the first step of the call that reports it.          *)
LEMMA FcLater ==
    ASSUME Calm, NEW t \in Threads, ~Idle(t), NEW s \in Later(t), s.op = "packet"
    PROVE  s.kind # "FC"
<1> SUFFICES ASSUME s.kind = "FC" PROVE FALSE
  OBVIOUS
<1>1. First(t) \in Step /\ s \in Step
  BY InvStack, Views DEF Calm
<1>2. Rank(s) = 0
  BY <1>1, Ranks
<1>3. Rank(First(t)) >= 0 /\ Rank(First(t)) \in Int /\ First(t).op \in Ops
  BY <1>1, Ranks DEF Step, Ops
<1>4. \/ Rank(First(t)) < Rank(s)
      \/ First(t).op = "resource" /\ s.op = "resource"
      \/ Rank(First(t)) = 3 /\ Rank(s) = 3
  BY RankLater
<1> QED
  BY <1>2, <1>3, <1>4

LEMMA SkippedFc ==
    ASSUME Calm, Calm', NEW t \in Threads, OnBottom(t), Skipped(t), Pending(t)'
    PROVE  First(t)'.kind # "FC"
<1>1. ~Idle(t)' /\ First(t)'.op = "packet" /\ ~Idle(t) /\ Steps(t)' = Later(t)
  BY DEF Pending, OnBottom, Skipped
<1>2. StackOK'
  BY DEF Calm, Shape, Inv, TypeOK, StackTypes, StackOK
<1>3. First(t)' \in Later(t)
  BY <1>1, <1>2, ViewsAfter
<1> QED
  BY <1>1, <1>3, FcLater

LEMMA SoloFc ==
    ASSUME Calm, Calm', NEW t \in Threads, ~Idle(t), First(t).op \notin {"packet", "store"},
           NEW more, MovedOn(t, more), Pending(t)'
    PROVE  First(t)'.kind # "FC"
<1>1. ~Idle(t)' /\ First(t)'.op = "packet"
  BY DEF Pending
<1>2. Why(t)' # "call"
  BY <1>1, SoloFirst DEF MovedOn
<1>3. StackOK' /\ Fits(t)'
  BY DEF Calm, Shape, Inv, TypeOK, StackTypes, StackOK
<1>4. First(t)' \in Steps(t)'
  BY <1>1, <1>3, ViewsAfter
<1> QED
  BY <1>1, <1>2, <1>3, <1>4 DEF Fits, OuterFits, SoloStep

LEMMA SamePending ==
    ASSUME Calm, NEW t \in Threads, OnBottom(t), SameSteps(t), Pending(t)',
           \/ At(t) \in {"start", "lock", "unlock", "copy"}
           \/ /\ At(t) \in {"write", "fail", "rewind"}
              /\ At(t)' \in {"write", "fail", "rewind"}
              /\ Bottom(t)'.ptr = Bottom(t).ptr
           \/ Overflows(Bottom(t)) /\ At(t) # "release"
    PROVE  Pending(t) /\ First(t)' = First(t)
<1>1. ~Idle(t) /\ First(t)' = First(t) /\ ~Idle(t)'
  BY DEF OnBottom, SameSteps
<1>2. CASE At(t) \in {"start", "lock", "unlock", "copy"}
  BY <1>1, <1>2 DEF Pending, Added
<1>3. CASE /\ At(t) \in {"write", "fail", "rewind"}
           /\ At(t)' \in {"write", "fail", "rewind"}
           /\ Bottom(t)'.ptr = Bottom(t).ptr
  BY <1>1, <1>3, AddedAfter DEF Pending, Added
<1>4. CASE Overflows(Bottom(t)) /\ At(t) # "release"
  BY <1>1, <1>4 DEF Pending, Added
<1> QED
  BY <1>2, <1>3, <1>4

LEMMA FcAfter ==
    ASSUME Calm, Calm', Fresh, NEW t \in Threads, Progress(t), Live', Pending(t)',
           First(t)'.kind = "FC"
    PROVE  Pending(t) /\ First(t)' = First(t)
<1>0. At(t)' # "fail" /\ fd_proc' > 0
  BY DEF Live, Calm, Control, Doing
<1>1. CASE CheckEnable(t)
  <2>1. ~OnInner(t)
    <3> SUFFICES ASSUME OnInner(t) PROVE FALSE
      OBVIOUS
    <3>1. ~OnBottom(t) /\ ~Idle(t)
      BY DEF OnBottom, OnInner
    <3>2. Len(stack'[t]) = 2 /\ stack'[t][1] = stack[t][1]
      BY <1>1, <3>1, CheckEnableEffect
    <3>3. ~Idle(t)'
      BY <3>2 DEF Idle
    <3> QED
      BY <1>0, <3>1, <3>2, <3>3, BelowKept DEF OnInner
  <2> QED
    BY <1>1, <2>1, CheckEnableEffect, SkippedFc, SamePending
<1>2. CASE Lock(t)
  BY <1>2, LockEffect, SamePending
<1>3. CASE Unlock(t)
  BY <1>3, UnlockEffect, SkippedFc, SamePending
<1>4. CASE CopyCell(t)
  BY <1>4, CopyCellEffect, SamePending
<1>5. CASE Release(t)
  BY <1>5, ReleaseEffect, SkippedFc
<1>6. CASE WriteSent(t)
  <2>1. /\ OnBottom(t) /\ ~Idle(t) /\ SameSteps(t) /\ At(t)' = "rewind"
        /\ Bottom(t)' = [Bottom(t) EXCEPT !.at = "rewind"]
        /\ At(t) \in {"write", "start"}
    BY <1>6, WriteSentEffect DEF OnBottom
  <2>2. Bottom(t) \in Activation
    BY <2>1, CellsType
  <2>3. Bottom(t)'.ptr = Bottom(t).ptr
    BY <2>1, <2>2 DEF Activation
  <2> QED
    BY <2>1, <2>3, SamePending
<1>7. CASE WriteFailed(t)
  BY <1>0, <1>7, WriteFailedEffect
<1>8. CASE DisableAfterError(t) \/ ClearPipe(t)
  <2>1. fd_proc' = 0 \/ fd_proc' = -1
    BY <1>8 DEF DisableAfterError, ClearPipe
  <2> QED
    BY <1>0, <2>1
<1>9. CASE Rewind(t)
  <2>1. CASE Skipped(t) /\ OnBottom(t)
    BY <2>1, SkippedFc
  <2>2. CASE OnBottom(t) /\ At(t) = "rewind" /\ Overflows(Bottom(t)) /\ SameSteps(t)
    BY <2>2, SamePending
  <2>3. CASE OnBottom(t) /\ SameSteps(t) /\ At(t)' = "release" /\ First(t).op = "packet"
    BY <2>3 DEF Pending, Added, SameSteps
  <2> QED
    BY <1>9, <2>1, <2>2, <2>3, RewindEffect
<1>10. CASE Reset(t)
  BY <1>10, ReturnEffects, SkippedFc
<1>11. CASE OpenPipe(t)
  <2>1. /\ OnBottom(t) /\ First(t).op \in {"open", "openinit"} /\ ~Idle(t)
        /\ \E more : MovedOn(t, more)
    BY <1>11, OpenPipeEffect DEF OnBottom
  <2> QED
    BY <2>1, SoloFc
<1>12. CASE EnableModule(t)
  <2>1. ~OnInner(t)
    <3> SUFFICES ASSUME OnInner(t) PROVE FALSE
      OBVIOUS
    <3>1. ~OnBottom(t) /\ ~Idle(t)
      BY DEF OnBottom, OnInner
    <3>2. ~Idle(t)' /\ stack'[t][1] = stack[t][1]
      BY <1>12, <3>1, EnableModuleEffect
    <3> QED
      BY <1>0, <3>1, <3>2, BelowKept DEF OnInner
  <2>2. ~Idle(t) /\ \E more : MovedOn(t, more) /\ First(t).op = "enable"
    BY <1>12, <2>1, EnableModuleEffect DEF OnBottom
  <2> QED
    BY <2>2, SoloFc
<1>13. CASE StoreHeapInfo(t)
  BY <1>13, ReturnEffects, SkippedFc
<1>14. CASE \/ WriteRegistries(t) \/ RegisterModule(t) \/ RegisterResource(t)
            \/ HeapInfo(t) \/ ClosePipe(t) \/ Ready(t)
  <2>1. OnBottom(t) /\ ~Idle(t) /\ \E more : MovedOn(t, more)
    BY <1>14, MovingSteps DEF OnBottom
  <2>2. First(t).op \notin {"packet", "store"}
    BY <1>14, WriteRegistriesEffect, RegisterModuleEffect, RegisterResourceEffect,
       HeapInfoEffect, ReturnEffects
  <2> QED
    BY <2>1, <2>2, SoloFc
<1> QED
  BY <1>1, <1>2, <1>3, <1>4, <1>5, <1>6, <1>7, <1>8, <1>9, <1>10, <1>11, <1>12, <1>13, <1>14
  DEF Progress

LEMMA OtherPending ==
    ASSUME NEW u \in Threads, stack'[u] = stack[u]
    PROVE  /\ First(u)' = First(u)
           /\ Pending(u)' <=> Pending(u)
           /\ OnWay(u)' <=> OnWay(u)
<1>1. /\ Idle(u)' <=> Idle(u)
      /\ At(u)' = At(u) /\ First(u)' = First(u) /\ Bottom(u)' = Bottom(u)
  BY SameStack
<1> QED
  BY <1>1 DEF OnWay, Pending, Added, Overflows

(* What a step of a thread inside the library leaves of its steps.         *)
StepsKept(t) ==
    /\ Others(t)
    /\ \A s \in Steps(t)' :
          \/ s \in Steps(t)
          \/ s.op \in {"modules", "resources", "enable"}
          \/ s.op = "packet" /\ s.kind \in {"MI", "RR", "HI", "AT"}
    /\ \A s \in Steps(t) : s \in Steps(t)' \/ s = First(t)
    /\ First(t)' = First(t) \/ At(t)' = "start"

LEMMA SameKept ==
    ASSUME NEW t \in Threads, SameSteps(t)
    PROVE  StepsKept(t)
BY DEF SameSteps, StepsKept

LEMMA MovedKept ==
    ASSUME Calm, NEW t \in Threads, OnBottom(t), NEW more, MovedOn(t, more),
           \A s \in Elements(more) :
              \/ s.op \in {"modules", "resources", "enable"}
              \/ s.op = "packet" /\ s.kind \in {"MI", "RR", "HI", "AT"}
    PROVE  StepsKept(t)
<1>1. Steps(t) = {First(t)} \cup Later(t)
  BY InvStack, Views DEF Calm, OnBottom
<1> QED
  BY <1>1 DEF MovedOn, StepsKept

LEMMA SkippedKept ==
    ASSUME Calm, NEW t \in Threads, OnBottom(t), Skipped(t)
    PROVE  StepsKept(t)
<1>1. Steps(t) = {First(t)} \cup Later(t)
  BY InvStack, Views DEF Calm, OnBottom
<1> QED
  BY <1>1 DEF Skipped, MovedOn, StepsKept

LEMMA BelowSteps ==
    ASSUME NEW t \in Threads, ~Idle(t), ~Idle(t)', Others(t), stack'[t][1] = stack[t][1]
    PROVE  StepsKept(t)
BY BelowKept DEF StepsKept

LEMMA ProgressKept ==
    ASSUME Calm, NEW t \in Threads, Progress(t), ~OpenPipe(t)
    PROVE  StepsKept(t)
<1>1. CASE CheckEnable(t)
  <2>1. CASE OnInner(t)
    <3>1. ~OnBottom(t) /\ ~Idle(t)
      BY <2>1 DEF OnBottom, OnInner
    <3>2. Others(t) /\ Len(stack'[t]) = 2 /\ stack'[t][1] = stack[t][1]
      BY <1>1, <3>1, CheckEnableEffect
    <3>3. ~Idle(t)'
      BY <3>2 DEF Idle
    <3> QED
      BY <3>1, <3>2, <3>3, BelowSteps
  <2> QED
    BY <1>1, <2>1, CheckEnableEffect, SameKept, SkippedKept
<1>2. CASE Lock(t) \/ Unlock(t) \/ CopyCell(t) \/ Release(t)
  BY <1>2, LockEffect, UnlockEffect, CopyCellEffect, ReleaseEffect, SameKept, SkippedKept
<1>3. CASE WriteSent(t) \/ DisableAfterError(t) \/ Rewind(t)
  BY <1>3, WriteSentEffect, DisableAfterErrorEffect, RewindEffect, SameKept, SkippedKept
<1>4. CASE WriteFailed(t)
  BY <1>4, WriteFailedEffect DEF StepsKept
<1>5. CASE Reset(t) \/ StoreHeapInfo(t) \/ ClosePipe(t) \/ ClearPipe(t) \/ Ready(t)
  BY <1>5, ReturnEffects, SkippedKept
<1>6. ASSUME NEW p, p.op = "packet", p.kind \in {"MI", "RR", "HI"}, OnBottom(t),
             MovedOn(t, <<p>>)
      PROVE  StepsKept(t)
  <2>1. PICK more : more = <<p>>
    OBVIOUS
  <2>2. Elements(more) = {p}
    BY <2>1 DEF Elements
  <2>3. MovedOn(t, more)
    BY <1>6, <2>1
  <2> QED
    BY <1>6, <2>2, <2>3, MovedKept
<1>7. CASE RegisterModule(t)
  <2>1. PICK p : p = Packet("MI", modules + 1, 0)
    OBVIOUS
  <2>2. p.op = "packet" /\ p.kind \in {"MI", "RR", "HI"}
    BY <2>1 DEF Packet
  <2>3. OnBottom(t) /\ (Skipped(t) \/ MovedOn(t, <<p>>))
    BY <1>7, <2>1, RegisterModuleEffect
  <2> QED
    BY <1>6, <2>2, <2>3, SkippedKept
<1>8. CASE RegisterResource(t)
  <2>1. PICK p : p = Packet("RR", resources + 1, 0)
    OBVIOUS
  <2>2. p.op = "packet" /\ p.kind \in {"MI", "RR", "HI"}
    BY <2>1 DEF Packet
  <2>3. OnBottom(t) /\ (Skipped(t) \/ MovedOn(t, <<p>>))
    BY <1>8, <2>1, RegisterResourceEffect
  <2> QED
    BY <1>6, <2>2, <2>3, SkippedKept
<1>9. CASE HeapInfo(t)
  <2>1. PICK p : p = Packet("HI", 0, 0)
    OBVIOUS
  <2>2. p.op = "packet" /\ p.kind \in {"MI", "RR", "HI"}
    BY <2>1 DEF Packet
  <2>3. OnBottom(t) /\ (Skipped(t) \/ MovedOn(t, <<p>>))
    BY <1>9, <2>1, HeapInfoEffect
  <2> QED
    BY <1>6, <2>2, <2>3, SkippedKept
<1>10. CASE WriteRegistries(t)
  <2>0. OnBottom(t) /\ First(t).op \in {"modules", "resources"} /\ ~Idle(t)
    BY <1>10, WriteRegistriesEffect DEF OnBottom
  <2>1. First(t) \in Step
    BY <2>0, InvStack, Views DEF Calm
  <2>2. CASE Skipped(t)
    BY <2>0, <2>2, SkippedKept
  <2>3. CASE ~Skipped(t)
    <3>1. PICK kind, p, q, more : /\ p = Packet(kind, First(t).n, 0) /\ kind \in {"MI", "RR"}
                                  /\ q = [First(t) EXCEPT !.n = First(t).n + 1]
                                  /\ more = <<p, q>> /\ MovedOn(t, more)
      BY <1>10, <2>3, WriteRegistriesEffect
    <3>2. p.op = "packet" /\ p.kind \in {"MI", "RR"} /\ q.op \in {"modules", "resources"}
      BY <2>0, <2>1, <3>1 DEF Packet, Step
    <3>3. Elements(more) = {p, q}
      BY <3>1 DEF Elements
    <3> QED
      BY <2>0, <3>1, <3>2, <3>3, MovedKept
  <2> QED
    BY <2>2, <2>3
<1>11. CASE EnableModule(t)
  <2>1. CASE OnInner(t)
    <3>1. ~OnBottom(t) /\ ~Idle(t)
      BY <2>1 DEF OnBottom, OnInner
    <3>2. Others(t) /\ ~Idle(t)' /\ stack'[t][1] = stack[t][1]
      BY <1>11, <3>1, EnableModuleEffect
    <3> QED
      BY <3>1, <3>2, BelowSteps
  <2>2. CASE ~OnInner(t)
    <3>1. PICK s \in Step : \E more \in Seq(Step) :
              /\ s.op = "enable" /\ OnBottom(t) /\ MovedOn(t, more)
              /\ \/ Elements(more) = {}
                 \/ Elements(more) = Attach(moduleAt[s.n], s)
                 \/ Elements(more) = {Onward(s)}
      BY <1>11, <2>2, EnableModuleEffect
    <3>2. Onward(s).op = "enable"
      BY <3>1 DEF Onward, Step
    <3>3. \A r \in Attach(moduleAt[s.n], s) :
             r.op = "enable" \/ (r.op = "packet" /\ r.kind = "AT")
      BY <3>1 DEF Attach, Packet, Step
    <3> QED
      BY <3>1, <3>2, <3>3, MovedKept
  <2> QED
    BY <2>1, <2>2
<1> QED
  BY <1>1, <1>2, <1>3, <1>4, <1>5, <1>7, <1>8, <1>9, <1>10, <1>11 DEF Progress

LEMMA ProgressOthers ==
    ASSUME Calm, NEW t \in Threads, Progress(t)
    PROVE  Others(t) /\ ~Idle(t)
<1>1. ~Idle(t)
  BY DEF Progress, CheckEnable, Lock, Unlock, CopyCell, Release, WriteSent, WriteFailed,
         DisableAfterError, Rewind, OpenPipe, Reset, WriteRegistries, EnableModule,
         RegisterModule, RegisterResource, HeapInfo, StoreHeapInfo, ClosePipe, ClearPipe, Ready,
         Running, AtWrite, Flushing, Idle
<1>2. CASE OpenPipe(t)
  BY <1>1, <1>2, MovingSteps DEF MovedOn
<1> QED
  BY <1>1, <1>2, ProgressKept DEF StepsKept

(* What a step leaves alone.                                               *)
LEMMA ProgressRest ==
    ASSUME NEW t \in Threads, Progress(t)
    PROVE  /\ calls' = calls
           /\ \/ fd_proc' = fd_proc
              \/ fd_proc' \in {0, -1}
              \/ OpenPipe(t)
           /\ out' = out \/ OpenPipe(t) \/ WriteSent(t)
           /\ closed' = closed \/ ClosePipe(t)
           /\ accepted' = accepted \/ CheckEnable(t)
BY DEF Progress, CheckEnable, Lock, LockAndFill, Unlock, CopyCell, Release, WriteSent, WriteFailed,
       DisableAfterError, Rewind, OpenPipe, Reset, WriteRegistries, EnableModule,
       RegisterModule, RegisterResource, HeapInfo, StoreHeapInfo, ClosePipe, ClearPipe, Ready,
       pipeVars

(* A thread that will reset the buffer is alone in the library.            *)
LEMMA ResetAlone ==
    ASSUME Calm, NEW t \in Threads, NEW u \in Threads, ~Idle(t), Op(u, "reset")
    PROVE  u = t
<1>1. ~Idle(u) /\ Fits(u) /\ Apart
  BY DEF Op, Steps, Calm, Shape
<1>2. Solo(u)
  BY <1>1 DEF Op, Fits, OuterFits, CallStep, Solo
<1> QED
  BY <1>1, <1>2 DEF Apart

(* Only a pipe that was just opened is still to have its buffer reset.     *)
LEMMA ResetComes ==
    ASSUME Calm, Fresh, NEW t \in Threads, NEW u \in Threads, Progress(t),
           Op(u, "reset")', fd_proc' > 0
    PROVE  /\ u = t /\ out' = Append(out, <<>>) /\ fd_proc' = Len(out) + 1
           /\ First(t)'.op = "reset" /\ OpenPipe(t)
<1>1. Others(t) /\ ~Idle(t)
  BY ProgressOthers
<1>2. u = t
  <2> SUFFICES ASSUME u # t PROVE FALSE
    OBVIOUS
  <2>1. Op(u, "reset")
    BY <1>1, SameStack DEF Others
  <2> QED
    BY <1>1, <2>1, ResetAlone
<1>3. CASE OpenPipe(t)
  <2>1. OnBottom(t) /\ First(t).op \in {"open", "openinit"} /\ ~Idle(t)
    BY <1>3, OpenPipeEffect DEF OnBottom
  <2>2. First(t) \in Steps(t)
    BY <2>1, InvStack, Views DEF Calm
  <2>3. fd_proc <= 0 /\ fd_proc \in Int
    BY <2>1, <2>2 DEF Calm, Control, Doing, Opens, Inv, TypeOK, PipeTypes
  <2>4. fd_proc' # fd_proc
    BY <2>3
  <2>5. out' = Append(out, <<>>) /\ fd_proc' = Len(out) + 1 /\ First(t)' = Do("reset", 0, 0)
    BY <1>3, <2>4, OpenPipeEffect
  <2> QED
    BY <1>2, <1>3, <2>5 DEF Do
<1>4. CASE ~OpenPipe(t)
  <2>1. fd_proc' = fd_proc /\ fd_proc > 0
    BY <1>4, ProgressRest
  <2>2. StepsKept(t)
    BY <1>4, ProgressKept
  <2>3. PICK s \in Steps(t) : s \in Steps(t)' /\ s.op = "reset"
    BY <1>2, <2>2 DEF Op, StepsKept
  <2>4. First(t).op = "reset"
    BY <2>1, <2>3 DEF Fresh, Op
  <2>5. At(t) = "start"
    BY <1>1, <2>4, PlainPlace
  <2>6. Reset(t)
    <3>1. ~OnInner(t) /\ Current(t) = First(t)
      BY <1>1, <2>5, WhichActivation DEF OnInner, Idle, OnBottom
    <3> QED
      BY <2>4, <3>1
      DEF Progress, CheckEnable, Lock, LockAndFill, Unlock, CopyCell, Release, WriteSent,
          WriteFailed, DisableAfterError, Rewind, OpenPipe, WriteRegistries, EnableModule,
          RegisterModule, RegisterResource, HeapInfo, StoreHeapInfo, ClosePipe, ClearPipe,
          Ready, Running, AtWrite, Flushing
  <2>7. s \in Later(t) /\ First(t) \in Step /\ s \in Step
    <3>1. Steps(t)' = Later(t)
      BY <2>6, ReturnEffects DEF Skipped
    <3> QED
      BY <1>1, <2>3, <3>1, InvStack, Views DEF Calm
  <2>8. Rank(First(t)) = 6 /\ Rank(s) = 6
    BY <2>3, <2>4, <2>7, Ranks
  <2> QED
    BY <1>1, <2>4, <2>7, <2>8, RankLater
<1> QED
  BY <1>3, <1>4

LEMMA NextFresh ==
    ASSUME Quiescent, Calm, Calm', Holds, Fresh, [Next]_vars
    PROVE  Fresh'
<1> SUFFICES ASSUME NEW u \in Threads, Op(u, "reset")', fd_proc' > 0
             PROVE  First(u)'.op = "reset" /\ out'[fd_proc'] = <<>>
  BY DEF Fresh
<1>1. CASE UNCHANGED vars
  <2>1. stack'[u] = stack[u] /\ UNCHANGED <<fd_proc, out>>
    BY <1>1 DEF vars
  <2> QED
    BY <2>1, SameStack DEF Fresh
<1>2. ASSUME NEW t \in Threads, EntryPoint(t)
      PROVE  First(u)'.op = "reset" /\ out'[fd_proc'] = <<>>
  <2>1. UNCHANGED <<fd_proc, out>> /\ Others(t)
    BY <1>2, EnteringSteps
  <2>2. u # t
    BY <1>2, EntersNoReset
  <2>3. stack'[u] = stack[u]
    BY <2>1, <2>2 DEF Others
  <2> QED
    BY <2>1, <2>3, SameStack DEF Fresh
<1>3. ASSUME NEW t \in Threads, Progress(t)
      PROVE  First(u)'.op = "reset" /\ out'[fd_proc'] = <<>>
  <2>1. /\ u = t /\ out' = Append(out, <<>>) /\ fd_proc' = Len(out) + 1
        /\ First(t)'.op = "reset"
    BY <1>3, ResetComes
  <2>2. out \in Seq(Seq(Cell))
    BY StreamTypes
  <2> QED
    BY <2>1, <2>2
<1> QED
  BY <1>1, <1>2, <1>3 DEF Next

LEMMA InitFresh == Init => Fresh
BY DEF Init, Fresh

(* What a step does to the streams that have been sent.                    *)
LEMMA NextOut ==
    ASSUME Quiescent, Calm, Holds, Fresh, [Next]_vars
    PROVE  \/ out' = out
           \/ out' = Append(out, <<>>)
           \/ /\ Live /\ fd_proc \notin closed /\ out' = [out EXCEPT ![fd_proc] = Stream]
              /\ fd_proc \in DOMAIN out
<1>1. CASE UNCHANGED vars
  BY <1>1 DEF vars
<1>2. ASSUME NEW t \in Threads, EntryPoint(t) PROVE out' = out
  BY <1>2, EnteringSteps
<1>3. ASSUME NEW t \in Threads, Progress(t)
      PROVE  \/ out' = out
             \/ out' = Append(out, <<>>)
             \/ /\ Live /\ fd_proc \notin closed /\ out' = [out EXCEPT ![fd_proc] = Stream]
                /\ fd_proc \in DOMAIN out
  <2>1. CASE OpenPipe(t)
    BY <2>1, OpenPipeEffect
  <2>2. CASE WriteSent(t)
    BY <2>2, SentOut, StreamTypes
  <2> QED
    BY <1>3, <2>1, <2>2, ProgressRest
<1> QED
  BY <1>1, <1>2, <1>3 DEF Next

(***************************************************************************)
(* The calls of a thread are in the stream in the order they were made.    *)
(***************************************************************************)

InOrder(X) ==
    \A i, j \in DOMAIN X :
        /\ i < j
        /\ X[i].kind = "FC"
        /\ X[j].kind = "FC"
        /\ X[i].by = X[j].by
        => X[i].n <= X[j].n
StreamOrder ==
    Live =>
        /\ InOrder(Stream)
        /\ \A j \in DOMAIN Stream : Stream[j].kind = "FC" => Stream[j].n <= calls
        /\ \A t \in Threads : Pending(t) /\ First(t).kind = "FC" =>
              \A j \in DOMAIN Stream :
                 Stream[j].kind = "FC" /\ Stream[j].by = t => Stream[j].n < First(t).n

(* The cells of a packet.                                                  *)
LEMMA PacketCells ==
    ASSUME Calm, NEW t \in Threads, ~Idle(t), First(t).op = "packet", NEW c,
           c = CellsOf(t, First(t))
    PROVE  /\ c \in Seq(Cell) /\ Len(c) = Size[First(t).kind] /\ Len(c) \in Nat \ {0}
           /\ \A i \in DOMAIN c : /\ c[i].kind = First(t).kind /\ c[i].n = First(t).n
                                  /\ c[i].id = First(t).id /\ c[i].i = i
           /\ \A i \in DOMAIN c : First(t).kind = "FC" => c[i].by = t
           /\ First(t).kind = "FC" => First(t).n \in 1 .. calls /\ Why(t) = "call"
<1>1. First(t) \in Step /\ Size[First(t).kind] \in 1 .. BufferSize /\ BufferSize \in Nat
      /\ First(t) \in Steps(t)
  BY CellsType, InvStack, Views DEF Calm
<1>2. c = [i \in 1 .. Size[First(t).kind] |-> CellOf(t, First(t), i)]
  BY DEF CellsOf
<1>3. First(t).kind = "FC" => First(t).n \in 1 .. calls /\ Why(t) = "call"
  BY <1>1 DEF Calm, Shape, Fits, OuterFits, CallStep, SoloStep
<1>4. ASSUME NEW i \in 1 .. Size[First(t).kind]
      PROVE  /\ CellOf(t, First(t), i) \in Cell
             /\ CellOf(t, First(t), i).kind = First(t).kind
             /\ CellOf(t, First(t), i).n = First(t).n
             /\ CellOf(t, First(t), i).id = First(t).id
             /\ CellOf(t, First(t), i).i = i
             /\ First(t).kind = "FC" => CellOf(t, First(t), i).by = t
  <2>1. i \in Nat
    BY <1>1
  <2>2. First(t).kind = "FC" => First(t).n # 0
    BY <1>3
  <2> QED
    BY <1>1, <2>1, <2>2 DEF CellOf, Cell, Step
<1>5. c \in [1 .. Size[First(t).kind] -> Cell]
  BY <1>2, <1>4
<1>6. c \in Seq(Cell) /\ Len(c) = Size[First(t).kind] /\ DOMAIN c = 1 .. Size[First(t).kind]
  BY <1>1, <1>5
<1>7. Len(c) \in Nat \ {0}
  BY <1>1, <1>6
<1>8. ASSUME NEW i \in DOMAIN c
      PROVE  /\ c[i].kind = First(t).kind /\ c[i].n = First(t).n
             /\ c[i].id = First(t).id /\ c[i].i = i
             /\ First(t).kind = "FC" => c[i].by = t
  <2>1. i \in 1 .. Size[First(t).kind]
    BY <1>6
  <2>2. PICK x : x = CellOf(t, First(t), i)
    OBVIOUS
  <2>3. c[i] = x
    BY <1>2, <2>1, <2>2
  <2> QED
    BY <1>4, <2>1, <2>2, <2>3
<1> QED
  BY <1>3, <1>6, <1>7, <1>8

(* The cells of a stream that has grown.                                   *)
LEMMA GrownCells ==
    ASSUME NEW T, NEW s \in Seq(T), NEW c \in Seq(T), NEW w, w = s \o c, NEW j \in DOMAIN w
    PROVE  /\ j \in Nat
           /\ \/ j \in DOMAIN s /\ j <= Len(s) /\ w[j] = s[j]
              \/ /\ j > Len(s) /\ \E i \in DOMAIN c : w[j] = c[i] /\ j = Len(s) + i
<1>1. /\ w \in Seq(T) /\ Len(w) = Len(s) + Len(c)
      /\ Len(s) \in Nat /\ Len(c) \in Nat
      /\ \A i \in 1 .. Len(s) : w[i] = s[i]
      /\ \A i \in 1 .. Len(c) : w[Len(s) + i] = c[i]
  BY Joining
<1>2. j \in 1 .. Len(s) + Len(c) /\ DOMAIN s = 1 .. Len(s) /\ DOMAIN c = 1 .. Len(c)
  BY <1>1
<1>3. CASE j <= Len(s)
  <2>1. j \in 1 .. Len(s)
    BY <1>1, <1>2, <1>3
  <2> QED
    BY <1>1, <1>2, <2>1
<1>4. CASE ~(j <= Len(s))
  <2>1. PICK i : i = j - Len(s)
    OBVIOUS
  <2>2. i \in 1 .. Len(c) /\ j = Len(s) + i /\ j > Len(s)
    BY <1>1, <1>2, <1>4, <2>1
  <2> QED
    BY <1>1, <1>2, <2>2
<1> QED
  BY <1>2, <1>3, <1>4

(* The cells c of thread b's call number n, and the cells s sent before.   *)
LaterCall(s, c, b, n) ==
    /\ \A i \in DOMAIN c : c[i].kind = "FC" => c[i].n = n /\ c[i].by = b
    /\ \A i \in DOMAIN c, j \in DOMAIN s :
          c[i].kind = "FC" /\ s[j].kind = "FC" /\ s[j].by = b => s[j].n < n

LEMMA GrownOrder ==
    ASSUME NEW s \in Seq(Cell), NEW c \in Seq(Cell), NEW w, w = s \o c, InOrder(s),
           NEW b, NEW n \in Nat, LaterCall(s, c, b, n)
    PROVE  InOrder(w)
<1> SUFFICES ASSUME NEW i \in DOMAIN w, NEW j \in DOMAIN w, i < j,
                    w[i].kind = "FC", w[j].kind = "FC", w[i].by = w[j].by
             PROVE  w[i].n <= w[j].n
  BY DEF InOrder
<1>0. /\ \A k \in DOMAIN c : c[k].kind = "FC" => c[k].n = n /\ c[k].by = b
      /\ \A k \in DOMAIN c, l \in DOMAIN s :
            c[k].kind = "FC" /\ s[l].kind = "FC" /\ s[l].by = b => s[l].n < n
  BY DEF LaterCall
<1>1. /\ i \in Nat
      /\ \/ i \in DOMAIN s /\ i <= Len(s) /\ w[i] = s[i]
         \/ i > Len(s) /\ \E k \in DOMAIN c : w[i] = c[k]
  BY GrownCells
<1>2. /\ j \in Nat
      /\ \/ j \in DOMAIN s /\ j <= Len(s) /\ w[j] = s[j]
         \/ j > Len(s) /\ \E k \in DOMAIN c : w[j] = c[k]
  BY GrownCells
<1>3. Len(s) \in Nat
  OBVIOUS
<1>4. CASE j \in DOMAIN s /\ j <= Len(s) /\ w[j] = s[j]
  <2>1. i \in DOMAIN s /\ w[i] = s[i]
    BY <1>1, <1>2, <1>3, <1>4
  <2> QED
    BY <1>4, <2>1 DEF InOrder
<1>5. CASE j > Len(s) /\ \E k \in DOMAIN c : w[j] = c[k]
  <2>1. w[j].n = n /\ w[j].by = b /\ \E k \in DOMAIN c : c[k].kind = "FC"
    BY <1>0, <1>5
  <2>2. CASE i \in DOMAIN s /\ w[i] = s[i]
    <3>1. s[i].n < n /\ s[i] \in Cell
      BY <1>0, <2>1, <2>2
    <3>2. s[i].n \in Nat
      BY <3>1 DEF Cell
    <3> QED
      BY <2>1, <2>2, <3>1, <3>2
  <2>3. CASE \E k \in DOMAIN c : w[i] = c[k]
    <3>1. w[i].n = n
      BY <1>0, <2>3
    <3> QED
      BY <2>1, <3>1
  <2> QED
    BY <1>1, <2>2, <2>3
<1> QED
  BY <1>2, <1>4, <1>5

LEMMA KeptOrder ==
    ASSUME Calm, StreamOrder, Live, Stream' = Stream, calls' \in Nat, calls <= calls',
           \A u \in Threads : Pending(u)' /\ First(u)'.kind = "FC" =>
              \/ Pending(u) /\ First(u)' = First(u)
              \/ First(u)'.n = calls + 1
    PROVE  StreamOrder'
<1>1. calls \in Nat /\ Stream \in Seq(Cell)
  BY StreamTypes DEF Calm, Inv, TypeOK, LifeTypes, Live
<1>2. \A j \in DOMAIN Stream : Stream[j] \in Cell
  BY <1>1
<1>3. \A j \in DOMAIN Stream : Stream[j].n \in Nat
  BY <1>2 DEF Cell
<1>4. /\ InOrder(Stream)
      /\ \A j \in DOMAIN Stream : Stream[j].kind = "FC" => Stream[j].n <= calls
  BY DEF StreamOrder
<1>5. \A j \in DOMAIN Stream : Stream[j].kind = "FC" => Stream[j].n <= calls'
  BY <1>1, <1>3, <1>4
<1>6. ASSUME NEW u \in Threads, Pending(u)', First(u)'.kind = "FC", NEW j \in DOMAIN Stream,
             Stream[j].kind = "FC", Stream[j].by = u
      PROVE  Stream[j].n < First(u)'.n
  <2>1. CASE Pending(u) /\ First(u)' = First(u)
    BY <1>6, <2>1 DEF StreamOrder
  <2>2. CASE First(u)'.n = calls + 1
    BY <1>1, <1>3, <1>4, <1>6, <2>2
  <2> QED
    BY <1>6, <2>1, <2>2
<1>7. PICK x : x = Stream
  OBVIOUS
<1>8. Stream' = x
  BY <1>7
<1> QED
  BY <1>4, <1>5, <1>6, <1>7, <1>8 DEF StreamOrder, InOrder

LEMMA GrownStreamOrder ==
    ASSUME Calm, Calm', StreamOrder, NEW t \in Threads, StreamGrown(t), Others(t)
    PROVE  StreamOrder'
<1>1. /\ Live /\ Pending(t) /\ Stream' = Stream \o CellsOf(t, First(t)) /\ calls' = calls
      /\ ~Idle(t) /\ First(t).op = "packet" /\ OnBottom(t)
      /\ (SameSteps(t) /\ ~Pending(t)') \/ Skipped(t)
  BY DEF StreamGrown, Pending
<1>2. PICK s, c, w : s = Stream /\ c = CellsOf(t, First(t)) /\ w = s \o c
  OBVIOUS
<1>3. s \in Seq(Cell) /\ Stream' = w
  BY <1>1, <1>2, StreamTypes DEF Live
<1>4. /\ c \in Seq(Cell)
      /\ \A i \in DOMAIN c : c[i].kind = First(t).kind /\ c[i].n = First(t).n
      /\ \A i \in DOMAIN c : First(t).kind = "FC" => c[i].by = t
      /\ First(t).kind = "FC" => First(t).n \in 1 .. calls
      /\ First(t).n \in Nat
  BY <1>1, <1>2, PacketCells, CellsType DEF Step
<1>5. /\ InOrder(s)
      /\ \A j \in DOMAIN s : s[j].kind = "FC" => s[j].n <= calls
      /\ \A u \in Threads : Pending(u) /\ First(u).kind = "FC" =>
            \A j \in DOMAIN s : s[j].kind = "FC" /\ s[j].by = u => s[j].n < First(u).n
  BY <1>1, <1>2 DEF StreamOrder
<1>6. InOrder(w)
  <2>1. PICK n \in Nat : n = First(t).n
    BY <1>4
  <2>2. \A i \in DOMAIN c : c[i].kind = "FC" => c[i].n = n /\ c[i].by = t
    BY <1>4, <2>1
  <2>3. \A i \in DOMAIN c, j \in DOMAIN s :
           c[i].kind = "FC" /\ s[j].kind = "FC" /\ s[j].by = t => s[j].n < n
    BY <1>1, <1>4, <1>5, <2>1
  <2>4. LaterCall(s, c, t, n)
    BY <2>2, <2>3 DEF LaterCall
  <2>5. c \in Seq(Cell) /\ w = s \o c /\ InOrder(s)
    BY <1>2, <1>4, <1>5
  <2> QED
    BY <1>3, <2>4, <2>5, GrownOrder
<1>7. ASSUME NEW j \in DOMAIN w
      PROVE  \/ j \in DOMAIN s /\ w[j] = s[j]
             \/ \E i \in DOMAIN c : w[j] = c[i]
  BY <1>2, <1>3, <1>4, GrownCells
<1>8. calls \in Nat
  BY DEF Calm, Inv, TypeOK, LifeTypes
<1>9. \A j \in DOMAIN w : w[j].kind = "FC" => w[j].n <= calls
  <2> SUFFICES ASSUME NEW j \in DOMAIN w, w[j].kind = "FC" PROVE w[j].n <= calls
    OBVIOUS
  <2>1. CASE j \in DOMAIN s /\ w[j] = s[j]
    BY <1>5, <2>1
  <2>2. CASE \E i \in DOMAIN c : w[j] = c[i]
    BY <1>4, <1>8, <2>2
  <2> QED
    BY <1>7, <2>1, <2>2
<1>10. ASSUME NEW u \in Threads, Pending(u)', First(u)'.kind = "FC"
       PROVE  \A j \in DOMAIN w : w[j].kind = "FC" /\ w[j].by = u => w[j].n < First(u)'.n
  <2>1. u # t
    BY <1>1, <1>10, SkippedFc
  <2>2. Pending(u) /\ First(u)' = First(u)
    BY <1>10, <2>1, OtherPending DEF Others
  <2> SUFFICES ASSUME NEW j \in DOMAIN w, w[j].kind = "FC", w[j].by = u
               PROVE  w[j].n < First(u)'.n
    OBVIOUS
  <2>3. j \in DOMAIN s /\ w[j] = s[j]
    BY <1>4, <1>7, <2>1
  <2> QED
    BY <1>5, <1>10, <2>2, <2>3
<1> QED
  BY <1>1, <1>3, <1>6, <1>9, <1>10 DEF StreamOrder

LEMMA StartedOrder ==
    ASSUME Stream' = <<>>
    PROVE  StreamOrder'
<1>1. DOMAIN <<>> = {}
  OBVIOUS
<1> QED
  BY <1>1 DEF StreamOrder, InOrder

LEMMA NextStreamOrder ==
    ASSUME Quiescent, Calm, Calm', Holds, Fresh, StreamOrder, [Next]_vars
    PROVE  StreamOrder'
<1> SUFFICES ASSUME Live' PROVE StreamOrder'
  BY DEF StreamOrder
<1>0. calls \in Nat /\ calls' \in Nat
  BY DEF Calm, Inv, TypeOK, LifeTypes
<1>1. CASE UNCHANGED vars
  <2>1. \A u \in Threads : stack'[u] = stack[u]
    BY <1>1 DEF vars
  <2>2. UNCHANGED <<fd_proc, out, pipe_buffer, head, calls>>
    BY <1>1 DEF vars
  <2>3. Moving' <=> Moving
    BY <2>1, SameStack DEF Moving
  <2>4. Live
    BY <2>1, <2>2, SameStack DEF Live
  <2>5. Stream' = Stream
    BY <2>2, <2>3, SameStream
  <2> QED
    BY <1>0, <2>1, <2>2, <2>4, <2>5, OtherPending, KeptOrder
<1>2. ASSUME NEW t \in Threads, EntryPoint(t) PROVE StreamOrder'
  <2>1. Streams(t) /\ Idle(t) /\ Others(t) /\ Entered(t)
    BY <1>2, EntryStreams, EnteringSteps, EntryEntered
  <2>2. ~StreamGrown(t)
    BY <2>1 DEF StreamGrown, Pending
  <2>3. calls <= calls'
    BY <1>0, <2>1 DEF Entered
  <2>4. \A u \in Threads : Pending(u)' /\ First(u)'.kind = "FC" =>
              \/ Pending(u) /\ First(u)' = First(u)
              \/ First(u)'.n = calls + 1
    BY <2>1, OtherPending DEF Others, Entered
  <2> QED
    BY <1>0, <2>1, <2>2, <2>3, <2>4, KeptOrder, StartedOrder
    DEF Streams, StreamKept, StreamStarted
<1>3. ASSUME NEW t \in Threads, Progress(t) PROVE StreamOrder'
  <2>1. Streams(t) /\ Others(t) /\ calls' = calls
    BY <1>3, ProgressStreams, ProgressOthers, ProgressRest
  <2>2. \A u \in Threads : Pending(u)' /\ First(u)'.kind = "FC" =>
              \/ Pending(u) /\ First(u)' = First(u)
              \/ First(u)'.n = calls + 1
    BY <1>3, <2>1, OtherPending, FcAfter DEF Others
  <2>3. calls <= calls'
    BY <1>0, <2>1
  <2>4. CASE StreamGrown(t)
    BY <2>1, <2>4, GrownStreamOrder
  <2> QED
    BY <1>0, <2>1, <2>2, <2>3, <2>4, KeptOrder, StartedOrder
    DEF Streams, StreamKept, StreamStarted
<1> QED
  BY <1>1, <1>2, <1>3 DEF Next

LEMMA NextCallOrder ==
    ASSUME Quiescent, Calm, Holds, Fresh, StreamOrder, CallOrder, [Next]_vars
    PROVE  CallOrder'
<1>1. out \in Seq(Seq(Cell))
  BY StreamTypes
<1>2. \A k \in Sessions : InOrder(out[k])
  BY DEF CallOrder, InOrder
<1>3. \A k \in DOMAIN out' : InOrder(out'[k])
  <2>1. CASE out' = out
    BY <1>2, <2>1 DEF Sessions
  <2>2. CASE out' = Append(out, <<>>)
    <3> SUFFICES ASSUME NEW k \in DOMAIN out' PROVE InOrder(out'[k])
      OBVIOUS
    <3>1. CASE k \in DOMAIN out
      <4>1. out'[k] = out[k]
        BY <1>1, <2>2, <3>1
      <4> QED
        BY <1>2, <3>1, <4>1 DEF Sessions
    <3>2. CASE k \notin DOMAIN out
      <4>1. out'[k] = <<>>
        BY <1>1, <2>2, <3>2
      <4>2. DOMAIN <<>> = {}
        OBVIOUS
      <4> QED
        BY <4>1, <4>2 DEF InOrder
    <3> QED
      BY <3>1, <3>2
  <2>3. CASE Live /\ fd_proc \in DOMAIN out /\ out' = [out EXCEPT ![fd_proc] = Stream]
    <3>1. PICK x : x = Stream
      OBVIOUS
    <3>2. InOrder(x)
      BY <2>3, <3>1 DEF StreamOrder
    <3>3. out' = [out EXCEPT ![fd_proc] = x]
      BY <2>3, <3>1
    <3> QED
      BY <1>1, <1>2, <3>2, <3>3 DEF Sessions
  <2> QED
    BY <2>1, <2>2, <2>3, NextOut
<1> QED
  BY <1>3 DEF CallOrder, InOrder, Sessions

(* With the toggle signal, initialization and exit coming while no call is *)
(* in progress, and an open pipe that takes what is written to it: for any *)
(* number of threads, modules, calls and toggles, and any buffer and       *)
(* packet sizes, the calls of one thread are sent in the order the thread  *)
(* made them, whether they were buffered, flushed when the buffer was full *)
(* or moved to its start and sent with a later flush.                      *)
THEOREM CallsStayInOrder ==
    ASSUME Quiescent, ~WriteMayFail
    PROVE  Spec => []CallOrder
<1> DEFINE I == Calm /\ Holds /\ Fresh /\ StreamOrder /\ CallOrder
<1>1. Init => I
  <2> SUFFICES ASSUME Init PROVE I
    OBVIOUS
  <2>1. Calm /\ Holds /\ Fresh
    BY InitCalm, InitHolds, InitFresh
  <2>2. StreamOrder
    BY DEF Init, StreamOrder, Live
  <2>3. CallOrder
    BY DEF Init, CallOrder, Sessions
  <2> QED
    BY <2>1, <2>2, <2>3
<1>2. I /\ [Next]_vars => I'
  BY NextCalm, NextHolds, NextFresh, NextStreamOrder, NextCallOrder
<1> QED
  BY <1>1, <1>2, PTL DEF Spec

(***************************************************************************)
(* Every call accepted in a session is sent before its pipe is closed.     *)
(***************************************************************************)

(* Thread b's call number n is in the cells X, or it is the packet that b  *)
(* has yet to put into the stream.                                         *)
Told(X, b, n) == \E j \in DOMAIN X : X[j].kind = "FC" /\ X[j].by = b /\ X[j].n = n
Coming(b, n) == b \in Threads /\ OnWay(b) /\ First(b).kind = "FC" /\ First(b).n = n
StreamSent ==
    Live /\ fd_proc \notin closed =>
        \A b, n : <<fd_proc, b, n>> \in accepted <=> Told(Stream, b, n) \/ Coming(b, n)
ClosedSent ==
    \A k \in closed \ {0} : \A b, n : <<k, b, n>> \in accepted <=> Told(out[k], b, n)

(* The sessions are numbered in the order they were opened, none has calls *)
(* before its buffer is reset, and a pipe is closed with an empty buffer.  *)
Numbered == \A a \in accepted : a[1] <= Len(out)
Unused ==
    \A t \in Threads : Op(t, "reset") /\ fd_proc > 0 => \A a \in accepted : a[1] # fd_proc
Closing ==
    \A t \in Threads : Op(t, "close") =>
        /\ ~Op(t, "register") /\ ~Op(t, "resource")
        /\ Op(t, "flush") \/ (First(t).op = "close" /\ head = 0)

LEMMA AcceptedAfter ==
    ASSUME Calm, NEW t \in Threads, Progress(t)
    PROVE  \/ accepted' = accepted
           \/ /\ CheckEnable(t) /\ OnBottom(t) /\ First(t).op = "packet" /\ At(t) = "start"
              /\ First(t).kind = "FC" /\ enable /\ SameSteps(t) /\ At(t)' = "lock"
              /\ accepted' = accepted \cup {<<fd_proc, t, First(t).n>>}
<1>1. accepted' = accepted \/ CheckEnable(t)
  BY ProgressRest
<1>2. ASSUME CheckEnable(t), OnInner(t) PROVE accepted' = accepted
  <2>1. Current(t).op = "packet" /\ InnerStep(Current(t))
    BY <1>2 DEF CheckEnable, Running, OnInner
  <2>2. Current(t).kind = "AT"
    BY <2>1 DEF InnerStep, Disables
  <2> QED
    BY <1>2, <2>2 DEF CheckEnable
<1>3. "FC" \in Checked
  BY DEF Checked
<1>4. ASSUME CheckEnable(t), ~OnInner(t)
      PROVE  /\ OnBottom(t) /\ First(t).op = "packet" /\ At(t) = "start"
             /\ \/ accepted' = accepted
                \/ /\ First(t).kind \in Checked => enable
                   /\ SameSteps(t) /\ At(t)' = "lock"
                   /\ accepted' = IF First(t).kind = "FC"
                                  THEN accepted \cup {<<fd_proc, t, First(t).n>>}
                                  ELSE accepted
  BY <1>4, CheckEnableEffect
<1>5. CASE CheckEnable(t) /\ ~OnInner(t) /\ accepted' # accepted
  <2>1. First(t).kind = "FC"
    BY <1>4, <1>5
  <2> QED
    BY <1>3, <1>4, <1>5, <2>1
<1> QED
  BY <1>1, <1>2, <1>5

LEMMA NextNumbered ==
    ASSUME Quiescent, Calm, Calm', Holds, Fresh, Numbered, [Next]_vars
    PROVE  Numbered'
<1>1. /\ out \in Seq(Seq(Cell)) /\ Len(out) \in Nat
      /\ accepted \subseteq Int \X Threads \X Nat /\ fd_proc \in Int /\ fd_proc <= Len(out)
  <2>1. out \in Seq(Seq(Cell)) /\ fd_proc \in -1 .. Len(out)
    BY DEF Calm, Inv, TypeOK, PipeTypes
  <2>2. accepted \subseteq Int \X Threads \X Nat
    BY DEF Calm, Inv, TypeOK, LifeTypes
  <2>3. Len(out) \in Nat
    BY <2>1
  <2> QED
    BY <2>1, <2>2, <2>3
<1>2. Len(out) <= Len(out') /\ Len(out') \in Nat
  <2>1. CASE out' = out
    BY <1>1, <2>1
  <2>2. CASE out' = Append(out, <<>>)
    BY <1>1, <2>2
  <2>3. ASSUME NEW x, out' = [out EXCEPT ![fd_proc] = x], fd_proc \in DOMAIN out
        PROVE  Len(out') = Len(out)
    BY <1>1, <2>3
  <2> QED
    BY <1>1, <2>1, <2>2, <2>3, NextOut
<1>3. CASE accepted' = accepted
  BY <1>1, <1>2, <1>3 DEF Numbered
<1>4. ASSUME NEW t \in Threads, NEW n, accepted' = accepted \cup {<<fd_proc, t, n>>}
      PROVE  Numbered'
  BY <1>1, <1>2, <1>4 DEF Numbered
<1>5. CASE UNCHANGED vars
  BY <1>3, <1>5 DEF vars
<1>6. ASSUME NEW t \in Threads, EntryPoint(t) PROVE accepted' = accepted
  BY <1>6, EnteringSteps
<1> QED
  BY <1>3, <1>4, <1>5, <1>6, AcceptedAfter DEF Next

(* The step that a thread at the start of its first one takes.             *)
LEMMA FirstAction ==
    ASSUME Calm, NEW t \in Threads, Progress(t), At(t) = "start"
    PROVE  /\ First(t).op = "reset" => Reset(t)
           /\ First(t).op = "close" => ClosePipe(t)
           /\ First(t).op = "packet" => CheckEnable(t)
           /\ First(t).op = "resources" => WriteRegistries(t)
<1>1. ~Idle(t)
  BY ProgressOthers
<1>2. Current(t) = First(t) /\ Top(t).at = "start"
  BY <1>1, WhichActivation DEF OnInner, Idle, OnBottom
<1> QED
  BY <1>2
  DEF Progress, CheckEnable, Lock, LockAndFill, Unlock, CopyCell, Release, WriteSent,
      WriteFailed, DisableAfterError, Rewind, OpenPipe, Reset, WriteRegistries, EnableModule,
      RegisterModule, RegisterResource, HeapInfo, StoreHeapInfo, ClosePipe, ClearPipe,
      Ready, Running, AtWrite, Flushing

LEMMA NextUnused ==
    ASSUME Quiescent, Calm, Calm', Holds, Fresh, Numbered, Unused, [Next]_vars
    PROVE  Unused'
<1> SUFFICES ASSUME NEW u \in Threads, Op(u, "reset")', fd_proc' > 0, NEW a \in accepted'
             PROVE  a[1] # fd_proc'
  BY DEF Unused
<1>1. CASE UNCHANGED vars
  <2>1. stack'[u] = stack[u] /\ UNCHANGED <<fd_proc, accepted>>
    BY <1>1 DEF vars
  <2> QED
    BY <2>1, SameStack DEF Unused
<1>2. ASSUME NEW t \in Threads, EntryPoint(t) PROVE a[1] # fd_proc'
  <2>1. UNCHANGED <<fd_proc, accepted>> /\ Others(t)
    BY <1>2, EnteringSteps
  <2>2. u # t
    BY <1>2, EntersNoReset
  <2>3. stack'[u] = stack[u]
    BY <2>1, <2>2 DEF Others
  <2> QED
    BY <2>1, <2>3, SameStack DEF Unused
<1>3. ASSUME NEW t \in Threads, Progress(t) PROVE a[1] # fd_proc'
  <2>1. fd_proc' = Len(out) + 1 /\ OpenPipe(t)
    BY <1>3, ResetComes
  <2>2. accepted' = accepted
    BY <2>1 DEF OpenPipe
  <2>3. a[1] <= Len(out)
    BY <2>2 DEF Numbered
  <2>4. a[1] \in Int /\ Len(out) \in Nat
    BY <2>2, StreamTypes DEF Calm, Inv, TypeOK, LifeTypes
  <2> QED
    BY <2>1, <2>3, <2>4
<1> QED
  BY <1>1, <1>2, <1>3 DEF Next

(* A thread that will close the pipe is alone in the library, and what it  *)
(* has to do after the flush is to close it.                               *)
LEMMA CloseAlone ==
    ASSUME Calm, NEW t \in Threads, NEW u \in Threads, ~Idle(t), Op(u, "close")
    PROVE  u = t
<1>1. ~Idle(u) /\ Fits(u) /\ Apart
  BY DEF Op, Steps, Calm, Shape
<1>2. Solo(u)
  BY <1>1 DEF Op, Fits, OuterFits, CallStep, Solo
<1> QED
  BY <1>1, <1>2 DEF Apart

LEMMA CloseComes ==
    ASSUME Calm, Calm', NEW t \in Threads, Progress(t), Op(t, "close")'
    PROVE  StepsKept(t) /\ Op(t, "close")
<1>1. fd_proc' > 0 /\ \A s \in Steps(t)' : ~Enables(s)
  BY DEF Calm, Control, Doing
<1>2. ~OpenPipe(t)
  <2> SUFFICES ASSUME OpenPipe(t) PROVE FALSE
    OBVIOUS
  <2>1. OnBottom(t) /\ First(t).op \in {"open", "openinit"} /\ ~Idle(t)
    BY OpenPipeEffect DEF OnBottom
  <2>2. First(t) \in Steps(t)
    BY <2>1, InvStack, Views DEF Calm
  <2>3. fd_proc <= 0 /\ fd_proc \in Int
    BY <2>1, <2>2 DEF Calm, Control, Doing, Opens, Inv, TypeOK, PipeTypes
  <2>4. fd_proc' # fd_proc
    BY <1>1, <2>3
  <2>5. \E more \in Seq(Step) : MovedOn(t, more) /\ Elements(more) = InitialSteps
    BY <2>4, OpenPipeEffect
  <2>6. InitialSteps \subseteq Steps(t)'
    BY <2>5 DEF MovedOn
  <2>7. EnableTracing(1) \in InitialSteps
    BY DEF InitialSteps
  <2>8. Enables(EnableTracing(1))
    BY DEF EnableTracing, Enables, Do
  <2> QED
    BY <1>1, <2>6, <2>7, <2>8
<1>3. StepsKept(t)
  BY <1>2, ProgressKept
<1> QED
  BY <1>3 DEF StepsKept, Op

LEMMA FirstAfter ==
    ASSUME StackOK', NEW t \in Threads, ~Idle(t)', OuterFits(t)'
    PROVE  \A s \in Steps(t)' : s = First(t)' \/ Before(First(t)', s)
<1>1. stack'[t] \in Seq(Activation) /\ stack'[t] # <<>>
  BY DEF StackOK, Idle
<1>2. 1 \in DOMAIN stack'[t]
  BY <1>1
<1>3. PICK todo : todo = stack'[t][1].todo
  OBVIOUS
<1>4. todo \in Seq(Step) /\ todo # <<>>
  <2>1. stack'[t][1] \in Activation
    BY <1>1, <1>2
  <2>2. Busy'
    BY DEF StackOK
  <2>3. stack'[t][1].todo # <<>>
    BY <1>2, <2>2 DEF Busy
  <2> QED
    BY <1>3, <2>1, <2>3 DEF Activation
<1>5. Elements(todo) = {Head(todo)} \cup Elements(Tail(todo))
  BY <1>4, HeadAndTail
<1>6. Ordered(todo)
  BY <1>3 DEF OuterFits, Bottom
<1>7. \A s \in Elements(Tail(todo)) : Before(Head(todo), s)
  BY <1>4, <1>6, OrderedTail
<1>8. Steps(t)' = Elements(todo) /\ First(t)' = Head(todo)
  BY <1>3 DEF Steps, First
<1> QED
  BY <1>5, <1>7, <1>8

LEMMA AfterFlush ==
    ASSUME Calm, Calm', Closing, NEW t \in Threads, OnBottom(t), First(t).op = "flush",
           Skipped(t), Op(t, "close"), Op(t, "close")'
    PROVE  First(t)'.op = "close"
<1>1. /\ ~Idle(t) /\ Steps(t)' = Later(t) /\ Steps(t) = {First(t)} \cup Later(t)
      /\ Steps(t) \subseteq Step /\ First(t) \in Step
  BY InvStack, Views DEF Calm, Skipped, OnBottom
<1>2. StackOK' /\ ~Idle(t)' /\ OuterFits(t)'
  BY DEF Calm, Shape, Fits, Inv, TypeOK, StackTypes, StackOK, Op, Steps
<1>3. First(t)' \in Steps(t)' /\ First(t)' \in Step
  BY <1>2, ViewsAfter
<1>4. PICK f : f = First(t)'
  OBVIOUS
<1>5. f \in Later(t) /\ f \in Steps(t) /\ f \in Step
  BY <1>1, <1>3, <1>4
<1>6. Rank(First(t)) = 16 /\ Rank(f) \in Int
  BY <1>1, <1>5, Ranks
<1>7. Rank(f) > 16
  BY <1>1, <1>5, <1>6, RankLater
<1>8. PICK c \in Steps(t)' : c.op = "close"
  BY DEF Op
<1>9. c \in Step /\ Rank(c) = 21
  BY <1>1, <1>8, Ranks
<1>10. c = f \/ Before(f, c)
  BY <1>2, <1>4, <1>8, FirstAfter
<1>11. c = f \/ Rank(f) < 21
  BY <1>6, <1>7, <1>8, <1>9, <1>10 DEF Before
<1>12. /\ f.op \notin {"register", "resource", "open", "openinit", "ready"}
       /\ ~Enables(f)
  <2>1. ~Op(t, "register") /\ ~Op(t, "resource")
    BY DEF Closing
  <2>2. Doing(t) /\ fd_proc > 0
    BY DEF Calm, Control, Doing
  <2>3. ~Opens(f) /\ ~Enables(f)
    BY <1>5, <2>2 DEF Doing, Calm, Inv, TypeOK, PipeTypes
  <2>4. Why(t) \in {"exit", "signal"}
    BY <2>2 DEF Doing
  <2>5. f.op # "ready"
    BY <1>5, <2>2, <2>4 DEF Doing, Op
  <2> QED
    BY <1>5, <2>1, <2>3, <2>5 DEF Op, Opens
<1>13. f.op = "enable" => f.id \in {0, 1}
  BY <1>1, <1>5, SoloFirst DEF SoloStep
<1>14. f.op \in Ops
  BY <1>5 DEF Step
<1>15. Rank(f) < 21 => FALSE
  <2> SUFFICES ASSUME Rank(f) < 21 PROVE FALSE
    OBVIOUS
  <2>1. f.op \notin {"packet", "reset", "flush", "modules", "resources", "heapinfo", "nopipe"}
    BY <1>5, <1>7, Ranks
  <2>2. f.op \notin {"store", "close", "clear"}
    BY <1>5, Ranks
  <2>3. f.op # "enable"
    BY <1>5, <1>7, <1>12, <1>13, Ranks DEF Enables
  <2> QED
    BY <1>12, <1>14, <2>1, <2>2, <2>3 DEF Ops
<1> QED
  BY <1>4, <1>8, <1>11, <1>15

LEMMA FlushDone ==
    ASSUME Calm, NEW t \in Threads, Progress(t), First(t).op = "flush",
           First(t) \notin Steps(t)'
    PROVE  OnBottom(t) /\ Skipped(t) /\ head' = 0
<1>1. ~Idle(t) /\ First(t) \in Steps(t)
  BY ProgressOthers, InvStack, Views DEF Calm
<1>2. ASSUME NEW v \in Threads, v = t, ~Idle(v), ~Idle(v)', stack'[v][1] = stack[v][1] PROVE FALSE
  BY <1>1, <1>2, BelowKept
<1>3. ~OpenPipe(t) /\ ~WriteSent(t) /\ ~WriteFailed(t) /\ ~DisableAfterError(t)
  BY <1>1, OpenPipeEffect, WriteSentEffect, WriteFailedEffect, DisableAfterErrorEffect
  DEF SameSteps
<1>4. ~CheckEnable(t)
  <2> SUFFICES ASSUME CheckEnable(t) PROVE FALSE
    OBVIOUS
  <2>1. OnInner(t)
    BY CheckEnableEffect
  <2>2. Current(t).op = "packet"
    BY DEF CheckEnable, Running
  <2> QED
    BY <2>1, <2>2 DEF OnInner
<1>5. ~EnableModule(t)
  <2> SUFFICES ASSUME EnableModule(t) PROVE FALSE
    OBVIOUS
  <2>1. stack'[t][1] = stack[t][1] /\ ~Idle(t)'
    BY EnableModuleEffect
  <2> QED
    BY <1>1, <1>2, <2>1
<1>6. ~Lock(t) /\ ~Unlock(t) /\ ~CopyCell(t) /\ ~Release(t)
  BY LockEffect, UnlockEffect, CopyCellEffect, ReleaseEffect
<1>7. ~WriteRegistries(t) /\ ~RegisterModule(t) /\ ~RegisterResource(t) /\ ~HeapInfo(t)
  BY WriteRegistriesEffect, RegisterModuleEffect, RegisterResourceEffect, HeapInfoEffect
<1>8. ~Reset(t) /\ ~StoreHeapInfo(t) /\ ~ClosePipe(t) /\ ~ClearPipe(t) /\ ~Ready(t)
  BY ReturnEffects
<1>9. Rewind(t)
  BY <1>3, <1>4, <1>5, <1>6, <1>7, <1>8 DEF Progress
<1> QED
  BY <1>9, RewindEffect

LEMMA NextClosing ==
    ASSUME Quiescent, Calm, Calm', Holds, Closing, [Next]_vars
    PROVE  Closing'
<1> SUFFICES ASSUME NEW u \in Threads, Op(u, "close")'
             PROVE  /\ ~Op(u, "register")' /\ ~Op(u, "resource")'
                    /\ Op(u, "flush")' \/ (First(u)'.op = "close" /\ head' = 0)
  BY DEF Closing
<1>1. ASSUME stack'[u] = stack[u], head' = head
      PROVE  /\ ~Op(u, "register")' /\ ~Op(u, "resource")'
             /\ Op(u, "flush")' \/ (First(u)'.op = "close" /\ head' = 0)
  BY <1>1, SameStack DEF Closing
<1>2. CASE UNCHANGED vars
  BY <1>1, <1>2 DEF vars
<1>3. ASSUME NEW t \in Threads, EntryPoint(t)
      PROVE  /\ ~Op(u, "register")' /\ ~Op(u, "resource")'
             /\ Op(u, "flush")' \/ (First(u)'.op = "close" /\ head' = 0)
  <2>1. head' = head /\ Others(t) /\ Entered(t)
    BY <1>3, EnteringSteps, EntryEntered
  <2> QED
    BY <1>1, <2>1 DEF Others, Entered
<1>4. ASSUME NEW t \in Threads, Progress(t)
      PROVE  /\ ~Op(u, "register")' /\ ~Op(u, "resource")'
             /\ Op(u, "flush")' \/ (First(u)'.op = "close" /\ head' = 0)
  <2>1. Others(t) /\ ~Idle(t)
    BY <1>4, ProgressOthers
  <2>2. u = t
    <3> SUFFICES ASSUME u # t PROVE FALSE
      OBVIOUS
    <3>1. Op(u, "close")
      BY <2>1, SameStack DEF Others
    <3> QED
      BY <2>1, <3>1, CloseAlone
  <2>3. StepsKept(t) /\ Op(t, "close") /\ Op(t, "close")'
    BY <1>4, <2>2, CloseComes
  <2>4. ~Op(t, "register") /\ ~Op(t, "resource")
        /\ (Op(t, "flush") \/ (First(t).op = "close" /\ head = 0))
    BY <2>3 DEF Closing
  <2>5. ~Op(t, "register")' /\ ~Op(t, "resource")'
    BY <2>3, <2>4 DEF StepsKept, Op
  <2>6. CASE Op(t, "flush")
    <3>1. PICK f \in Steps(t) : f.op = "flush"
      BY <2>6 DEF Op
    <3>2. CASE f \in Steps(t)'
      BY <2>2, <2>5, <3>1, <3>2 DEF Op
    <3>3. CASE f \notin Steps(t)'
      <4>1. f = First(t)
        BY <2>3, <3>1, <3>3 DEF StepsKept
      <4>2. OnBottom(t) /\ Skipped(t) /\ head' = 0
        BY <1>4, <3>1, <3>3, <4>1, FlushDone
      <4>3. First(t)'.op = "close"
        BY <2>3, <3>1, <4>1, <4>2, AfterFlush
      <4> QED
        BY <2>2, <2>5, <4>2, <4>3
    <3> QED
      BY <3>2, <3>3
  <2>7. CASE First(t).op = "close"
    <3>1. ClosePipe(t)
      BY <1>4, <2>1, <2>7, PlainPlace, FirstAction
    <3>2. Steps(t)' = Later(t)
      BY <3>1, ReturnEffects DEF Skipped
    <3>3. PICK c \in Later(t) : c.op = "close"
      BY <2>3, <3>2 DEF Op
    <3>4. c \in Step /\ First(t) \in Step
      BY <2>1, <3>3, InvStack, Views DEF Calm
    <3>5. Rank(c) = 21 /\ Rank(First(t)) = 21
      BY <2>7, <3>3, <3>4, Ranks
    <3> QED
      BY <2>1, <2>7, <3>3, <3>5, RankLater
  <2> QED
    BY <2>4, <2>6, <2>7
<1> QED
  BY <1>2, <1>3, <1>4 DEF Next

(* A step that leaves the stream alone keeps or adds the calls coming.     *)
LEMMA KeptSent ==
    ASSUME StreamSent, Live, fd_proc' = fd_proc, Stream' = Stream, closed \subseteq closed',
           \A b, n : \/ /\ <<fd_proc, b, n>> \in accepted' <=> <<fd_proc, b, n>> \in accepted
                        /\ Coming(b, n)' <=> Coming(b, n)
                     \/ <<fd_proc, b, n>> \in accepted' /\ Coming(b, n)'
    PROVE  StreamSent'
<1> SUFFICES ASSUME Live', fd_proc' \notin closed', NEW b, NEW n
             PROVE  <<fd_proc', b, n>> \in accepted' <=> Told(Stream, b, n)' \/ Coming(b, n)'
  BY DEF StreamSent
<1>1. <<fd_proc, b, n>> \in accepted <=> Told(Stream, b, n) \/ Coming(b, n)
  BY DEF StreamSent
<1>2. Told(Stream, b, n)' <=> Told(Stream, b, n)
  BY DEF Told
<1> QED
  BY <1>1, <1>2

LEMMA OtherComing ==
    ASSUME NEW t \in Threads, Others(t)
    PROVE  \A b, n : b # t => (Coming(b, n)' <=> Coming(b, n))
BY OtherPending DEF Others, Coming

Accepting(t) ==
    /\ First(t).op = "packet" /\ At(t) = "start" /\ First(t).kind = "FC"
    /\ SameSteps(t) /\ At(t)' = "lock"
    /\ accepted' = accepted \cup {<<fd_proc, t, First(t).n>>}

LEMMA StepSent ==
    ASSUME Calm, Calm', Fresh, StreamSent, NEW t \in Threads, Progress(t), StreamKept(t), Live'
    PROVE  StreamSent'
<1>1. /\ Live /\ fd_proc' = fd_proc /\ Stream' = Stream
      /\ OnWay(t) => OnWay(t)' /\ First(t)' = First(t)
      /\ Others(t) /\ ~Idle(t)
  BY ProgressOthers DEF StreamKept
<1>2. closed \subseteq closed'
  <2>1. CASE ClosePipe(t)
    BY <2>1 DEF ClosePipe
  <2> QED
    BY <2>1, ProgressRest
<1>3. CASE ~Accepting(t)
  <2>0. accepted' = accepted
    BY <1>3, AcceptedAfter DEF Accepting
  <2>1. ASSUME OnWay(t)', First(t)'.kind = "FC" PROVE OnWay(t) /\ First(t)' = First(t)
    <3>1. Pending(t) /\ First(t)' = First(t)
      BY <2>1, FcAfter DEF OnWay
    <3>2. ASSUME At(t) = "start" PROVE FALSE
      <4>1. CheckEnable(t) /\ First(t).op = "packet" /\ ~OnInner(t)
        BY <3>1, <3>2, FirstAction DEF Pending, OnInner
      <4>2. OnBottom(t) /\ (Skipped(t) \/ Accepting(t))
        BY <2>1, <3>1, <4>1, CheckEnableEffect DEF Accepting
      <4> QED
        BY <1>3, <2>1, <4>2, SkippedFc DEF OnWay
    <3> QED
      BY <3>1, <3>2 DEF OnWay
  <2>2. \A n : Coming(t, n)' <=> Coming(t, n)
    BY <1>1, <2>1 DEF Coming
  <2>3. \A b, n : Coming(b, n)' <=> Coming(b, n)
    BY <1>1, <2>2, OtherComing
  <2> QED
    BY <1>1, <1>2, <2>0, <2>3, KeptSent
<1>4. CASE Accepting(t)
  <2>1. /\ First(t).op = "packet" /\ At(t) = "start" /\ First(t).kind = "FC"
        /\ SameSteps(t) /\ At(t)' = "lock"
        /\ accepted' = accepted \cup {<<fd_proc, t, First(t).n>>}
    BY <1>4 DEF Accepting
  <2>2. ~OnWay(t)
    BY <2>1 DEF OnWay
  <2>3. OnWay(t)' /\ First(t)' = First(t)
    BY <2>1 DEF OnWay, Pending, Added, SameSteps
  <2>4. ASSUME NEW b, NEW n
        PROVE  \/ /\ <<fd_proc, b, n>> \in accepted' <=> <<fd_proc, b, n>> \in accepted
                  /\ Coming(b, n)' <=> Coming(b, n)
               \/ <<fd_proc, b, n>> \in accepted' /\ Coming(b, n)'
    <3>1. CASE b # t
      BY <1>1, <2>1, <3>1, OtherComing
    <3>2. CASE b = t /\ n # First(t).n
      BY <2>1, <2>2, <2>3, <3>2 DEF Coming
    <3>3. CASE b = t /\ n = First(t).n
      BY <2>1, <2>3, <3>3 DEF Coming
    <3> QED
      BY <3>1, <3>2, <3>3
  <2> QED
    BY <1>1, <1>2, <2>4, KeptSent
<1> QED
  BY <1>3, <1>4

LEMMA GrownSent ==
    ASSUME Calm, Calm', StreamSent, NEW t \in Threads, StreamGrown(t), Others(t)
    PROVE  StreamSent'
<1>1. /\ Live /\ Pending(t) /\ Stream' = Stream \o CellsOf(t, First(t)) /\ fd_proc' = fd_proc
      /\ ~Idle(t) /\ First(t).op = "packet" /\ OnBottom(t) /\ At(t) # "start"
      /\ (SameSteps(t) /\ ~Pending(t)') \/ Skipped(t)
      /\ UNCHANGED <<closed, accepted>>
  BY DEF StreamGrown, Pending
<1>2. PICK s, c, w : s = Stream /\ c = CellsOf(t, First(t)) /\ w = s \o c
  OBVIOUS
<1>3. s \in Seq(Cell) /\ Stream' = w
  BY <1>1, <1>2, StreamTypes DEF Live
<1>4. /\ c \in Seq(Cell) /\ Len(c) \in Nat \ {0}
      /\ \A i \in DOMAIN c : c[i].kind = First(t).kind /\ c[i].n = First(t).n
      /\ \A i \in DOMAIN c : First(t).kind = "FC" => c[i].by = t
  BY <1>1, <1>2, PacketCells
<1>5. ASSUME NEW j \in DOMAIN w
      PROVE  \/ j \in DOMAIN s /\ w[j] = s[j]
             \/ \E i \in DOMAIN c : w[j] = c[i]
  BY <1>2, <1>3, <1>4, GrownCells
<1>6. /\ \A j \in DOMAIN s : j \in DOMAIN w /\ w[j] = s[j]
      /\ \E j \in DOMAIN w : w[j] = c[1]
      /\ 1 \in DOMAIN c
  <2>1. /\ w \in Seq(Cell) /\ Len(w) = Len(s) + Len(c)
        /\ Len(s) \in Nat
        /\ \A i \in 1 .. Len(s) : w[i] = s[i]
        /\ \A i \in 1 .. Len(c) : w[Len(s) + i] = c[i]
    BY <1>2, <1>3, <1>4, Joining
  <2>2. DOMAIN w = 1 .. Len(w) /\ DOMAIN s = 1 .. Len(s) /\ DOMAIN c = 1 .. Len(c)
    BY <1>3, <1>4, <2>1
  <2>3. 1 \in 1 .. Len(c) /\ Len(s) + 1 \in 1 .. Len(w)
    BY <1>4, <2>1
  <2> QED
    BY <1>4, <2>1, <2>2, <2>3
<1>7. ASSUME NEW b, NEW n
      PROVE  Told(w, b, n) <=> Told(s, b, n) \/ (First(t).kind = "FC" /\ b = t /\ n = First(t).n)
  <2>1. ASSUME Told(s, b, n) PROVE Told(w, b, n)
    BY <1>6, <2>1 DEF Told
  <2>2. ASSUME First(t).kind = "FC", b = t, n = First(t).n PROVE Told(w, b, n)
    BY <1>4, <1>6, <2>2 DEF Told
  <2>3. ASSUME Told(w, b, n)
        PROVE  Told(s, b, n) \/ (First(t).kind = "FC" /\ b = t /\ n = First(t).n)
    BY <1>4, <1>5, <2>3 DEF Told
  <2> QED
    BY <2>1, <2>2, <2>3
<1>8. \A n : ~Coming(t, n)'
  BY <1>1, SkippedFc DEF Coming, OnWay
<1>9. \A n : Coming(t, n) <=> First(t).kind = "FC" /\ First(t).n = n
  BY <1>1 DEF Coming, OnWay
<1> SUFFICES ASSUME Live', fd_proc' \notin closed', NEW b, NEW n
             PROVE  <<fd_proc', b, n>> \in accepted' <=> Told(Stream', b, n) \/ Coming(b, n)'
  BY DEF StreamSent, Told
<1>10. <<fd_proc, b, n>> \in accepted <=> Told(s, b, n) \/ Coming(b, n)
  BY <1>1, <1>2 DEF StreamSent
<1>11. Told(Stream', b, n) <=> Told(w, b, n)
  BY <1>3
<1>12. CASE b = t
  BY <1>1, <1>7, <1>8, <1>9, <1>10, <1>11, <1>12
<1>13. CASE b # t
  <2>1. Coming(b, n)' <=> Coming(b, n)
    BY <1>13, OtherComing
  <2> QED
    BY <1>1, <1>7, <1>10, <1>11, <1>13, <2>1
<1> QED
  BY <1>12, <1>13

LEMMA StartedSent ==
    ASSUME Calm, Calm', Fresh, Unused, NEW t \in Threads, Progress(t), StreamStarted, Live'
    PROVE  StreamSent'
<1>1. fd_proc' = fd_proc /\ fd_proc > 0 /\ Stream' = <<>> /\ ~Live
  BY DEF StreamStarted
<1>2. Others(t) /\ ~Idle(t)
  BY ProgressOthers
<1>3. PICK u \in Threads : Op(u, "reset")
  BY <1>1 DEF Live
<1>4. u = t
  BY <1>2, <1>3, ResetAlone
<1>5. First(t).op = "reset"
  BY <1>1, <1>3, <1>4 DEF Fresh
<1>6. accepted' = accepted
  BY <1>5, AcceptedAfter
<1>7. \A a \in accepted : a[1] # fd_proc
  BY <1>1, <1>3, <1>4 DEF Unused
<1>8. \A b, n : <<fd_proc, b, n>> \notin accepted'
  <2> SUFFICES ASSUME NEW b, NEW n, <<fd_proc, b, n>> \in accepted' PROVE FALSE
    OBVIOUS
  <2>1. PICK a : a = <<fd_proc, b, n>>
    OBVIOUS
  <2>2. a \in accepted /\ a[1] = fd_proc
    BY <1>6, <2>1
  <2> QED
    BY <1>7, <2>2
<1>9. \A b, n : ~Coming(b, n)'
  <2>1. ASSUME NEW b \in Threads, b # t PROVE ~OnWay(b)'
    <3>1. Idle(b)
      BY <1>2, <1>5, <2>1, SoloFirst DEF Calm, Shape, Apart
    <3>2. stack'[b] = stack[b]
      BY <1>2, <2>1 DEF Others
    <3> QED
      BY <2>1, <3>1, <3>2, OtherPending DEF OnWay, Pending
  <2>2. ~(OnWay(t)' /\ First(t)'.kind = "FC")
    BY <1>5, FcAfter DEF OnWay, Pending
  <2> QED
    BY <2>1, <2>2 DEF Coming
<1>10. \A b, n : ~Told(<<>>, b, n)
  BY DEF Told
<1>11. \A b, n : ~Told(Stream', b, n)
  BY <1>1, <1>10
<1> QED
  BY <1>1, <1>8, <1>9, <1>11 DEF StreamSent, Told

LEMMA NextStreamSent ==
    ASSUME Quiescent, Calm, Calm', Holds, Fresh, Unused, StreamSent, [Next]_vars
    PROVE  StreamSent'
<1> SUFFICES ASSUME Live' PROVE StreamSent'
  BY DEF StreamSent
<1>1. CASE UNCHANGED vars
  <2>1. \A u \in Threads : stack'[u] = stack[u]
    BY <1>1 DEF vars
  <2>2. UNCHANGED <<fd_proc, out, pipe_buffer, head, closed, accepted>>
    BY <1>1 DEF vars
  <2>3. Moving' <=> Moving
    BY <2>1, SameStack DEF Moving
  <2>4. Live
    BY <2>1, <2>2, SameStack DEF Live
  <2>5. Stream' = Stream
    BY <2>2, <2>3, SameStream
  <2>6. \A b, n : Coming(b, n)' <=> Coming(b, n)
    BY <2>1, OtherPending DEF Coming
  <2> QED
    BY <2>2, <2>4, <2>5, <2>6, KeptSent
<1>2. ASSUME NEW t \in Threads, EntryPoint(t) PROVE StreamSent'
  <2>1. /\ Streams(t) /\ Idle(t) /\ Others(t) /\ At(t)' = "start"
        /\ UNCHANGED <<fd_proc, closed, accepted>>
    BY <1>2, EntryStreams, EnteringSteps
  <2>2. ~StreamGrown(t)
    BY <2>1 DEF StreamGrown, Pending
  <2>3. Live
    BY <2>1, LiveBefore
  <2>4. Stream' = Stream
    BY <2>1, <2>2, <2>3 DEF Streams, StreamKept, StreamStarted
  <2>5. \A n : ~Coming(t, n)' /\ ~Coming(t, n)
    BY <2>1 DEF Coming, OnWay, Pending
  <2>6. \A b, n : Coming(b, n)' <=> Coming(b, n)
    BY <2>1, <2>5, OtherComing
  <2> QED
    BY <2>1, <2>3, <2>4, <2>6, KeptSent
<1>3. ASSUME NEW t \in Threads, Progress(t) PROVE StreamSent'
  <2>1. Streams(t) /\ Others(t)
    BY <1>3, ProgressStreams, ProgressOthers
  <2> QED
    BY <1>3, <2>1, StepSent, GrownSent, StartedSent DEF Streams
<1> QED
  BY <1>1, <1>2, <1>3 DEF Next

(* A call is accepted only while its session's pipe is open.               *)
LEMMA AcceptedOpen ==
    ASSUME Calm, NEW t \in Threads, OnBottom(t), First(t).op = "packet", First(t).kind = "FC",
           enable, fd_proc > 0
    PROVE  fd_proc \notin closed
<1>1. ~Idle(t) /\ First(t) \in Steps(t)
  BY InvStack, Views DEF Calm, OnBottom
<1>2. Why(t) = "call"
  BY <1>1 DEF Calm, Shape, Fits, OuterFits, SoloStep
<1>3. ~exited
  BY <1>1, <1>2 DEF Calm, Control, Doing
<1>4. \A u \in Threads : ~Op(u, "clear")
  BY DEF Calm, Control, Doing
<1> QED
  BY <1>3, <1>4 DEF Calm, Control, Standing

(* When the pipe is closed everything of its session has been sent.        *)
LEMMA ClosedNow ==
    ASSUME Calm, Closing, StreamSent, NEW t \in Threads, ClosePipe(t)
    PROVE  /\ fd_proc > 0
           /\ \A b, n : <<fd_proc, b, n>> \in accepted <=> Told(out[fd_proc], b, n)
<1>1. OnBottom(t) /\ ~Idle(t) /\ First(t).op = "close"
  BY ReturnEffects DEF OnBottom
<1>2. /\ First(t) \in Steps(t) /\ First(t) \in Step
  BY <1>1, InvStack, Views DEF Calm
<1>3. Rank(First(t)) = 21
  BY <1>1, <1>2, Ranks
<1>4. ASSUME NEW s \in Steps(t) PROVE s.op \notin {"flush", "reset"}
  <2>1. s \in Step /\ (s = First(t) \/ Rank(s) > 21) /\ Rank(s) \in Int
    BY <1>1, <1>3, StepsLeft
  <2> QED
    BY <1>1, <2>1, Ranks
<1>5. Op(t, "close") /\ ~Op(t, "flush") /\ ~Op(t, "reset")
  BY <1>1, <1>2, <1>4 DEF Op
<1>6. head = 0 /\ fd_proc > 0 /\ fd_proc \notin closed
  BY <1>5 DEF Closing, Calm, Control, Doing
<1>7. \A u \in Threads : u # t => Idle(u)
  BY <1>1, SoloFirst DEF Calm, Shape, Apart
<1>8. Live
  BY <1>5, <1>6, <1>7 DEF Live, Op, Steps
<1>9. \A b, n : ~Coming(b, n)
  BY <1>1, <1>7 DEF Coming, OnWay, Pending
<1>10. Stream = out[fd_proc]
  <2>1. PICK s : s = out[fd_proc]
    OBVIOUS
  <2>2. s \in Seq(Cell) /\ Content \in Seq(Cell) /\ Len(Content) = 0
    BY <1>6, <2>1, StreamTypes
  <2>3. s \o Content = s
    BY <2>2
  <2> QED
    BY <2>1, <2>3 DEF Stream
<1> QED
  BY <1>6, <1>8, <1>9, <1>10 DEF StreamSent

LEMMA NextClosedSent ==
    ASSUME Quiescent, Calm, Calm', Holds, Fresh, Closing, StreamSent, ClosedSent, [Next]_vars
    PROVE  ClosedSent'
<1>0. /\ out \in Seq(Seq(Cell)) /\ fd_proc \in Int
      /\ closed \subseteq 0 .. Len(out) /\ Len(out) \in Nat
  BY StreamTypes DEF Calm, Inv, TypeOK, PipeTypes
<1>1. ASSUME NEW k \in closed \ {0} PROVE out'[k] = out[k]
  <2>1. k \in DOMAIN out
    BY <1>0
  <2>2. CASE out' = out
    BY <2>2
  <2>3. CASE out' = Append(out, <<>>)
    BY <1>0, <2>1, <2>3
  <2>4. ASSUME NEW x, out' = [out EXCEPT ![fd_proc] = x], fd_proc \notin closed
        PROVE  out'[k] = out[k]
    BY <1>0, <2>1, <2>4
  <2> QED
    BY <2>2, <2>3, <2>4, NextOut
<1>2. ASSUME closed' = closed, accepted' = accepted PROVE ClosedSent'
  <2>1. ASSUME NEW k \in closed \ {0}, NEW b, NEW n
        PROVE  <<k, b, n>> \in accepted' <=> Told(out'[k], b, n)
    BY <1>1, <1>2, <2>1 DEF ClosedSent
  <2> QED
    BY <1>2, <2>1 DEF ClosedSent, Told
<1>3. CASE UNCHANGED vars
  BY <1>2, <1>3 DEF vars
<1>4. ASSUME NEW t \in Threads, EntryPoint(t) PROVE ClosedSent'
  BY <1>2, <1>4, EnteringSteps
<1>5. ASSUME NEW t \in Threads, ClosePipe(t) PROVE ClosedSent'
  <2>1. /\ fd_proc > 0
        /\ \A b, n : <<fd_proc, b, n>> \in accepted <=> Told(out[fd_proc], b, n)
    BY <1>5, ClosedNow
  <2>2. closed' \subseteq closed \cup {fd_proc} /\ out' = out /\ accepted' = accepted
    BY <1>5 DEF ClosePipe
  <2>3. ASSUME NEW k \in closed' \ {0}, NEW b, NEW n
        PROVE  <<k, b, n>> \in accepted' <=> Told(out'[k], b, n)
    BY <2>1, <2>2, <2>3 DEF ClosedSent
  <2> QED
    BY <2>3 DEF ClosedSent, Told
<1>6. ASSUME NEW t \in Threads, Progress(t), accepted' # accepted PROVE ClosedSent'
  <2>1. /\ CheckEnable(t) /\ OnBottom(t) /\ First(t).op = "packet" /\ First(t).kind = "FC"
        /\ enable
        /\ accepted' = accepted \cup {<<fd_proc, t, First(t).n>>}
    BY <1>6, AcceptedAfter
  <2>2. closed' = closed
    BY <2>1 DEF CheckEnable, pipeVars
  <2>3. ASSUME NEW k \in closed \ {0} PROVE k # fd_proc
    <3>1. k > 0
      BY <1>0
    <3> QED
      BY <1>0, <2>1, <3>1, AcceptedOpen
  <2>4. ASSUME NEW k \in closed \ {0}, NEW b, NEW n
        PROVE  <<k, b, n>> \in accepted' <=> Told(out'[k], b, n)
    <3>1. <<k, b, n>> # <<fd_proc, t, First(t).n>>
      BY <2>3
    <3> QED
      BY <1>1, <2>1, <3>1 DEF ClosedSent
  <2> QED
    BY <2>2, <2>4 DEF ClosedSent, Told
<1> QED
  BY <1>2, <1>3, <1>4, <1>5, <1>6, ProgressRest DEF Next

LEMMA SentNoneLost ==
    ASSUME Calm, ClosedSent
    PROVE  NoLostCalls
<1>1. accepted \subseteq Int \X Threads \X Nat
  BY DEF Calm, Inv, TypeOK, LifeTypes
<1> SUFFICES ASSUME NEW k \in closed \ {0}
             PROVE  SentCalls(k) = {a \in accepted : a[1] = k}
  BY DEF NoLostCalls
<1>2. \A b, n : <<k, b, n>> \in accepted <=> Told(out[k], b, n)
  BY DEF ClosedSent
<1>3. ASSUME NEW a \in SentCalls(k) PROVE a \in accepted /\ a[1] = k
  <2>1. PICK j \in DOMAIN out[k] : out[k][j].kind = "FC" /\ a = <<k, out[k][j].by, out[k][j].n>>
    BY DEF SentCalls
  <2>2. Told(out[k], out[k][j].by, out[k][j].n)
    BY <2>1 DEF Told
  <2> QED
    BY <1>2, <2>1, <2>2
<1>4. ASSUME NEW a \in accepted, a[1] = k PROVE a \in SentCalls(k)
  <2>1. PICK b, n : a = <<k, b, n>>
    BY <1>1, <1>4
  <2>2. PICK j \in DOMAIN out[k] : out[k][j].kind = "FC" /\ out[k][j].by = b /\ out[k][j].n = n
    BY <1>2, <1>4, <2>1 DEF Told
  <2> QED
    BY <2>1, <2>2 DEF SentCalls
<1> QED
  BY <1>3, <1>4

(* With the toggle signal, initialization and exit coming while no call is *)
(* in progress, and an open pipe that takes what is written to it: for any *)
(* number of threads, calls and toggles, and any buffer and packet sizes,  *)
(* a session's pipe is closed only when every call accepted while it was   *)
(* open has been written to it, and no call of another session was.        *)
THEOREM NoCallIsLost ==
    ASSUME Quiescent, ~WriteMayFail
    PROVE  Spec => []NoLostCalls
<1> DEFINE I == /\ Calm /\ Holds /\ Fresh /\ Numbered /\ Unused /\ Closing
                /\ StreamSent /\ ClosedSent
<1>1. Init => I
  <2> SUFFICES ASSUME Init PROVE I
    OBVIOUS
  <2>1. Calm /\ Holds /\ Fresh
    BY InitCalm, InitHolds, InitFresh
  <2>2. Numbered /\ StreamSent /\ ClosedSent /\ Unused
    BY DEF Init, Numbered, StreamSent, Live, ClosedSent, Unused
  <2>3. Closing
    BY DEF Init, Closing, Op, Steps, Idle
  <2> QED
    BY <2>1, <2>2, <2>3
<1>2. I /\ [Next]_vars => I'
  BY NextCalm, NextHolds, NextFresh, NextNumbered, NextUnused, NextClosing, NextStreamSent,
     NextClosedSent
<1>3. I => NoLostCalls
  BY SentNoneLost
<1> QED
  BY <1>1, <1>2, <1>3, PTL DEF Spec

(***************************************************************************)
(* The resource types and their numbers.                                   *)
(***************************************************************************)

Types == UNION {Elements(Registers[m]) : m \in TracingModules}
(* The registry holds every type the modules register.                     *)
RoomForTypes == IsFiniteSet(Types) /\ Cardinality(Types) <= MaxResources

Registered(type) == \E i \in 1 .. resources : resourceType[i] = type
ResourceSteps(m) == {Do("resource", Registers[m][i], 0) : i \in DOMAIN Registers[m]}
Promised(s) == Registered(s.id) \/ \E t \in Threads : s \in Steps(t)
(* A module that traces is registered; the types of a registered module    *)
(* have their numbers or its thread is about to give them.                 *)
Known ==
    /\ \A m \in TracingModules : moduleOn[m] => \E i \in 1 .. modules : moduleAt[i] = m
    /\ \A i \in 1 .. modules : \A s \in ResourceSteps(moduleAt[i]) : Promised(s)
Prepared(t) ==
    \A s \in Steps(t) :
        /\ s.op = "register" => ResourceSteps(s.id) \subseteq Steps(t)
        /\ s.op = "resource" => s.id \in Types
Distinct ==
    /\ \A i \in 1 .. resources : resourceType[i] \in Types
    /\ \A i, j \in 1 .. resources : resourceType[i] = resourceType[j] => i = j
Registry == Known /\ Distinct /\ \A t \in Threads : Prepared(t)

LEMMA RoomLeft ==
    ASSUME Calm, Distinct, RoomForTypes, NEW type \in Types, ~Registered(type)
    PROVE  resources < MaxResources
<1>1. resources \in Nat /\ MaxResources \in Nat
  BY RegistryAssumption DEF Calm, Inv, TypeOK, RegistryTypes
<1> SUFFICES ASSUME ~(resources < MaxResources) PROVE FALSE
  OBVIOUS
<1>2. PICK S, T, f : /\ S = 1 .. resources /\ T = Types \ {type}
                     /\ f = [i \in S |-> resourceType[i]]
  OBVIOUS
<1>3. IsFiniteSet(S) /\ Cardinality(S) = resources
  <2>1. /\ IsFiniteSet(1 .. resources)
        /\ Cardinality(1 .. resources) = IF 1 > resources THEN 0 ELSE resources - 1 + 1
    BY <1>1, FS_Interval
  <2> QED
    BY <1>1, <1>2, <2>1
<1>4. IsFiniteSet(T) /\ Cardinality(T) = Cardinality(Types) - 1 /\ Cardinality(Types) \in Nat
  BY <1>2, FS_RemoveElement, FS_CardinalityType DEF RoomForTypes
<1>5. Cardinality(T) < Cardinality(S)
  BY <1>1, <1>3, <1>4 DEF RoomForTypes
<1>6. f \in [S -> T]
  <2>1. ASSUME NEW i \in S PROVE resourceType[i] \in T
    BY <1>2, <2>1 DEF Distinct, Registered
  <2> QED
    BY <1>2, <2>1
<1>7. \E x, y \in S : x # y /\ f[x] = f[y]
  BY <1>3, <1>4, <1>5, <1>6, FS_PigeonHole
<1> QED
  BY <1>2, <1>7 DEF Distinct

LEMMA IdRegistered ==
    ASSUME NEW type, Registered(type)
    PROVE  IdOf(type) \in 1 .. resources /\ resourceType[IdOf(type)] = type
BY DEF IdOf, Registered

(* The steps that register are those a module's initialization has begun   *)
(* with.                                                                   *)
LEMMA RegisterKept ==
    ASSUME Calm, NEW t \in Threads, Progress(t)
    PROVE  /\ \A s \in Steps(t)' : s.op \in {"register", "resource"} => s \in Steps(t)
           /\ \A s \in Steps(t) : s \in Steps(t)' \/ s = First(t)
<1>1. CASE ~OpenPipe(t)
  BY <1>1, ProgressKept DEF StepsKept
<1>2. CASE OpenPipe(t)
  <2>1. PICK e, n : e = EnableTracing(0) /\ n = Do("nopipe", 0, 0)
    OBVIOUS
  <2>2. \E more \in Seq(Step) : /\ MovedOn(t, more)
                               /\ Elements(more) \subseteq {e, n} \cup InitialSteps
    BY <1>2, <2>1, OpenPipeEffect
  <2>3. e.op = "enable" /\ n.op = "nopipe"
    BY <2>1 DEF EnableTracing, Do
  <2>4. \A s \in InitialSteps : s.op \notin {"register", "resource"}
    BY DEF InitialSteps, Packet, Do, EnableTracing
  <2>5. Steps(t) = {First(t)} \cup Later(t)
    BY <1>2, OpenPipeEffect, InvStack, Views DEF Calm, OnBottom
  <2> QED
    BY <2>2, <2>3, <2>4, <2>5 DEF MovedOn
<1> QED
  BY <1>1, <1>2

LEMMA ModuleEntered ==
    ASSUME Calm, NEW t \in Threads, NEW m \in TracingModules, InitializeModule(t, m)
    PROVE  /\ \A s \in Steps(t)' : s.op = "register" => s.id = m
           /\ \A s \in Steps(t)' : s.op = "resource" => s.id \in Types
           /\ ResourceSteps(m) \subseteq Steps(t)'
<1>0. "init" \in Reasons /\ StackOK
  BY InvStack DEF Reasons, Calm
<1>1. PICK q, d, e : /\ q = InitializeSteps /\ d = <<Do("register", m, 0)>>
                     /\ e = [i \in DOMAIN Registers[m] |-> Do("resource", Registers[m][i], 0)]
  OBVIOUS
<1>2. q \in Seq(Step) /\ \A s \in Elements(q) : s.op \in {"openinit", "ready"}
  BY <1>1, InitStepsOrder
<1>3. d \in Seq(Step) /\ e \in Seq(Step) /\ \A s \in Elements(e) : s.op = "resource"
  BY <1>1, ModuleStepsOrder
<1>4. PICK c, todo : c = q \o d /\ todo = c \o e
  OBVIOUS
<1>5. c \in Seq(Step) /\ Elements(c) = Elements(q) \cup Elements(d)
  BY <1>2, <1>3, <1>4, JoinedSteps
<1>6. todo \in Seq(Step) /\ Elements(todo) = Elements(c) \cup Elements(e)
  BY <1>3, <1>4, <1>5, JoinedSteps
<1>7. Enter(t, todo, "init") /\ Idle(t)
  BY <1>1, <1>4 DEF InitializeModule
<1>8. Steps(t)' = Elements(q) \cup Elements(d) \cup Elements(e)
  BY <1>0, <1>5, <1>6, <1>7, EnterView
<1>9. \A s \in Elements(d) : s.op = "register" /\ s.id = m
  BY <1>1 DEF Elements, Do
<1>10. Elements(e) = ResourceSteps(m)
  <2>1. DOMAIN e = DOMAIN Registers[m]
    BY <1>1
  <2>2. \A i \in DOMAIN Registers[m] : e[i] = Do("resource", Registers[m][i], 0)
    BY <1>1
  <2> QED
    BY <2>1, <2>2 DEF Elements, ResourceSteps
<1>11. \A s \in ResourceSteps(m) : s.id \in Types
  BY DEF ResourceSteps, Do, Types, Elements
<1> QED
  BY <1>2, <1>3, <1>8, <1>9, <1>10, <1>11

LEMMA RegistrySame ==
    ASSUME Registry, UNCHANGED <<moduleOn, modules, moduleAt, resources, resourceType>>,
           \A u \in Threads : \A s \in Steps(u) : s.op = "resource" => s \in Steps(u)',
           \A u \in Threads : Prepared(u)'
    PROVE  Registry'
<1>1. ASSUME NEW s, s.op = "resource", Promised(s) PROVE Promised(s)'
  BY <1>1 DEF Promised, Registered
<1>2. \A m : \A s \in ResourceSteps(m) : s.op = "resource"
  BY DEF ResourceSteps, Do
<1>3. Known'
  BY <1>1, <1>2 DEF Registry, Known
<1>4. Distinct'
  BY DEF Registry, Distinct
<1> QED
  BY <1>3, <1>4 DEF Registry

LEMMA OtherPrepared ==
    ASSUME NEW u \in Threads, stack'[u] = stack[u], Prepared(u)
    PROVE  Prepared(u)'
BY SameStack DEF Prepared

LEMMA EntryRegistry ==
    ASSUME Quiescent, Calm, Calm', Holds, Registry, NEW t \in Threads, EntryPoint(t)
    PROVE  Registry'
<1>1. Entered(t) /\ Idle(t) /\ Others(t)
  BY EntryEntered, EnteringSteps
<1>2. UNCHANGED <<moduleOn, modules, moduleAt, resources, resourceType>>
  BY DEF EntryPoint, Initialize, InitializeModule, FunctionCall, Dlopen, CreateContext,
         ToggleTracing, Exit, registryVars
<1>3. Prepared(t)'
  <2>1. CASE \A s \in Steps(t)' : s.op \notin {"register", "resource"}
    BY <2>1 DEF Prepared
  <2>2. ASSUME NEW m \in TracingModules, InitializeModule(t, m) PROVE Prepared(t)'
    BY <2>2, ModuleEntered DEF Prepared
  <2> QED
    BY <1>1, <2>1, <2>2 DEF Entered
<1>4. \A u \in Threads : Prepared(u)'
  BY <1>1, <1>3, OtherPrepared DEF Others, Registry
<1>5. ASSUME NEW u \in Threads, NEW s \in Steps(u) PROVE s \in Steps(u)'
  <2>1. u # t
    BY <1>1, <1>5 DEF Steps
  <2> QED
    BY <1>1, <1>5, <2>1, SameStack DEF Others
<1> QED
  BY <1>2, <1>4, <1>5, RegistrySame

LEMMA KeptPrepared ==
    ASSUME Calm, Registry, NEW t \in Threads, Progress(t)
    PROVE  \A u \in Threads : Prepared(u)'
<1>1. /\ \A s \in Steps(t)' : s.op \in {"register", "resource"} => s \in Steps(t)
      /\ \A s \in Steps(t) : s \in Steps(t)' \/ s = First(t)
  BY RegisterKept
<1>2. Others(t) /\ ~Idle(t)
  BY ProgressOthers
<1>3. Prepared(t)'
  <2>1. ASSUME NEW s \in Steps(t)', s.op = "resource" PROVE s.id \in Types
    BY <1>1, <2>1 DEF Registry, Prepared
  <2>2. ASSUME NEW s \in Steps(t)', s.op = "register" PROVE ResourceSteps(s.id) \subseteq Steps(t)'
    <3>1. s \in Steps(t) /\ ResourceSteps(s.id) \subseteq Steps(t)
      BY <1>1, <2>2 DEF Registry, Prepared
    <3>2. First(t).op # "resource"
      <4> SUFFICES ASSUME First(t).op = "resource" PROVE FALSE
        OBVIOUS
      <4>1. /\ First(t) \in Step /\ s \in Step /\ Steps(t) = {First(t)} \cup Later(t)
        BY <1>2, <3>1, InvStack, Views DEF Calm
      <4>2. s \in Later(t) /\ Rank(First(t)) = 20 /\ Rank(s) = 19
        BY <2>2, <3>1, <4>1, Ranks
      <4> QED
        BY <1>2, <2>2, <4>2, RankLater
    <3>3. \A r \in ResourceSteps(s.id) : r.op = "resource"
      BY DEF ResourceSteps, Do
    <3> QED
      BY <1>1, <3>1, <3>2, <3>3
  <2> QED
    BY <2>1, <2>2 DEF Prepared
<1> QED
  BY <1>2, <1>3, OtherPrepared DEF Others, Registry

LEMMA ProgressRegistry ==
    ASSUME Calm, Calm', RoomForTypes, Registry, NEW t \in Threads, Progress(t)
    PROVE  Registry'
<1>1. \A u \in Threads : Prepared(u)'
  BY KeptPrepared
<1>2. /\ Others(t) /\ ~Idle(t)
      /\ \A s \in Steps(t) : s \in Steps(t)' \/ s = First(t)
  BY ProgressOthers, RegisterKept
<1>3. ASSUME NEW u \in Threads, NEW s \in Steps(u), u # t \/ s # First(t) PROVE s \in Steps(u)'
  <2>1. CASE u = t
    BY <1>2, <1>3, <2>1
  <2>2. CASE u # t
    BY <1>2, <1>3, <2>2, SameStack DEF Others
  <2> QED
    BY <2>1, <2>2
<1>4. First(t) \in Step /\ First(t) \in Steps(t)
  BY <1>2, InvStack, Views DEF Calm
<1>5. /\ modules \in Nat /\ resources \in Nat
      /\ moduleAt \in [1 .. MaxModules -> Nat] /\ modules <= MaxModules
      /\ resourceType \in [1 .. MaxResources -> Nat] /\ resources <= MaxResources
      /\ MaxModules \in Nat /\ MaxResources \in Nat
      /\ moduleOn \in [TracingModules -> BOOLEAN]
  BY RegistryAssumption DEF Calm, Inv, TypeOK, RegistryTypes
<1>6. CASE RegisterResource(t)
  <2>1. OnBottom(t) /\ First(t).op = "resource" /\ Current(t) = First(t)
    BY <1>6, RegisterResourceEffect DEF OnBottom
  <2>2. UNCHANGED <<moduleOn, modules, moduleAt>>
    BY <1>6 DEF RegisterResource
  <2>3. PICK type : type = First(t).id
    OBVIOUS
  <2>4. type \in Types
    BY <1>4, <2>1, <2>3 DEF Registry, Prepared
  <2>5. /\ Registered(type)' /\ Distinct'
        /\ \A x : Registered(x) => Registered(x)'
    <3>1. CASE Registered(type)
      <4>1. IdOf(type) # 0
        BY <1>5, <3>1, IdRegistered
      <4>2. UNCHANGED <<resources, resourceType>>
        BY <1>6, <2>3, <4>1, RegisterResourceEffect
      <4> QED
        BY <3>1, <4>2 DEF Registered, Registry, Distinct
    <3>2. CASE ~Registered(type)
      <4>1. IdOf(type) = 0 /\ resources < MaxResources
        BY <2>4, <3>2, RoomLeft DEF IdOf, Registered, Registry
      <4>2. /\ resources' = resources + 1
            /\ resourceType' = [resourceType EXCEPT ![resources + 1] = type]
        BY <1>6, <2>3, <4>1, RegisterResourceEffect
      <4>3. /\ resources + 1 \in 1 .. MaxResources
            /\ resourceType'[resources + 1] = type
            /\ \A i \in 1 .. resources : resourceType'[i] = resourceType[i]
        BY <1>5, <4>1, <4>2
      <4>4. \A i \in 1 .. resources' : i \in 1 .. resources \/ i = resources + 1
        BY <1>5, <4>2
      <4>5. \A i \in 1 .. resources : i \in 1 .. resources' /\ i # resources + 1
        BY <1>5, <4>2
      <4>6. resources + 1 \in 1 .. resources'
        BY <1>5, <4>2
      <4>7. Registered(type)' /\ \A x : Registered(x) => Registered(x)'
        BY <4>3, <4>5, <4>6 DEF Registered
      <4>8. \A i \in 1 .. resources : resourceType[i] # type
        BY <3>2 DEF Registered
      <4>9. Distinct'
        BY <2>4, <4>3, <4>4, <4>8 DEF Distinct, Registry
      <4> QED
        BY <4>7, <4>9
    <3> QED
      BY <3>1, <3>2
  <2>6. ASSUME NEW s, Promised(s) PROVE Promised(s)'
    <3>1. CASE Registered(s.id)
      BY <2>5, <3>1 DEF Promised
    <3>2. ASSUME NEW u \in Threads, s \in Steps(u) PROVE Promised(s)'
      <4>1. CASE u = t /\ s = First(t)
        BY <2>3, <2>5, <4>1 DEF Promised
      <4> QED
        BY <1>3, <3>2, <4>1 DEF Promised
    <3> QED
      BY <2>6, <3>1, <3>2 DEF Promised
  <2>7. Known'
    BY <2>2, <2>6 DEF Known, Registry
  <2> QED
    BY <1>1, <2>5, <2>7 DEF Registry
<1>7. ASSUME ~RegisterResource(t) PROVE UNCHANGED <<resources, resourceType>>
  BY <1>7
  DEF Progress, CheckEnable, Lock, LockAndFill, Unlock, CopyCell, Release, WriteSent, WriteFailed,
      DisableAfterError, Rewind, OpenPipe, Reset, WriteRegistries, EnableModule,
      RegisterModule, HeapInfo, StoreHeapInfo, ClosePipe, ClearPipe, Ready, registryVars
<1>8. ASSUME ~RegisterResource(t), ~RegisterModule(t), ~EnableModule(t)
      PROVE  UNCHANGED <<moduleOn, modules, moduleAt>>
  BY <1>8
  DEF Progress, CheckEnable, Lock, LockAndFill, Unlock, CopyCell, Release, WriteSent, WriteFailed,
      DisableAfterError, Rewind, OpenPipe, Reset, WriteRegistries,
      HeapInfo, StoreHeapInfo, ClosePipe, ClearPipe, Ready, registryVars
<1>9. ASSUME ~RegisterResource(t), NEW s, s.op = "resource", Promised(s) PROVE Promised(s)'
  <2>1. First(t).op # "resource" \/ First(t) \in Steps(t)'
    <3> SUFFICES ASSUME First(t).op = "resource" PROVE First(t) \in Steps(t)'
      OBVIOUS
    <3>1. At(t) = "start"
      BY <1>2, PlainPlace
    <3>2. Current(t) = First(t)
      BY <1>2, <3>1, WhichActivation DEF OnInner, Idle, OnBottom
    <3> QED
      BY <1>9, <3>2
      DEF Progress, CheckEnable, Lock, LockAndFill, Unlock, CopyCell, Release, WriteSent,
          WriteFailed, DisableAfterError, Rewind, OpenPipe, Reset, WriteRegistries, EnableModule,
          RegisterModule, HeapInfo, StoreHeapInfo, ClosePipe, ClearPipe,
          Ready, Running, AtWrite, Flushing
  <2>2. Registered(s.id) => Registered(s.id)'
    BY <1>7, <1>9 DEF Registered
  <2>3. ASSUME NEW u \in Threads, s \in Steps(u) PROVE s \in Steps(u)'
    BY <1>3, <1>9, <2>1, <2>3
  <2> QED
    BY <1>9, <2>2, <2>3 DEF Promised
<1>10. \A m : \A s \in ResourceSteps(m) : s.op = "resource"
  BY DEF ResourceSteps, Do
<1>11. CASE ~RegisterResource(t) /\ ~RegisterModule(t) /\ ~EnableModule(t)
  <2>1. Known'
    BY <1>8, <1>9, <1>10, <1>11 DEF Known, Registry
  <2> QED
    BY <1>1, <1>7, <1>11, <2>1 DEF Registry, Distinct
<1>12. CASE ~RegisterResource(t) /\ EnableModule(t)
  <2>1. UNCHANGED <<modules, moduleAt>>
    BY <1>12 DEF EnableModule
  <2>2. \/ moduleOn' = moduleOn
        \/ \E n \in 1 .. modules : \E v \in BOOLEAN :
              moduleOn' = [moduleOn EXCEPT ![moduleAt[n]] = v]
    <3> SUFFICES ASSUME moduleOn' # moduleOn
                 PROVE  \E n \in 1 .. modules : \E v \in BOOLEAN :
                           moduleOn' = [moduleOn EXCEPT ![moduleAt[n]] = v]
      OBVIOUS
    <3>1. PICK s \in Step : /\ s.n >= 1 /\ s.n <= modules
                            /\ moduleOn' = [moduleOn EXCEPT ![moduleAt[s.n]] = (s.id = 1)]
      BY <1>12, EnableModuleEffect
    <3>2. s.n \in 1 .. modules /\ (s.id = 1) \in BOOLEAN
      BY <1>5, <3>1 DEF Step
    <3> QED
      BY <3>1, <3>2
  <2>3. \A m \in TracingModules : moduleOn'[m] => \E i \in 1 .. modules : moduleAt[i] = m
    BY <1>5, <2>2 DEF Known, Registry
  <2>4. Known'
    BY <1>9, <1>10, <1>12, <2>1, <2>3 DEF Known, Registry
  <2> QED
    BY <1>1, <1>7, <1>12, <2>4 DEF Registry, Distinct
<1>13. CASE ~RegisterResource(t) /\ RegisterModule(t)
  <2>1. OnBottom(t) /\ First(t).op = "register"
    BY <1>13, RegisterModuleEffect
  <2>2. CASE UNCHANGED <<modules, moduleAt, moduleOn>>
    <3>1. Known'
      BY <1>9, <1>10, <1>13, <2>2 DEF Known, Registry
    <3> QED
      BY <1>1, <1>7, <1>13, <3>1 DEF Registry, Distinct
  <2>3. CASE ~UNCHANGED <<modules, moduleAt, moduleOn>>
    <3>1. PICK m : m = First(t).id
      OBVIOUS
    <3>2. /\ modules < MaxModules /\ modules' = modules + 1
          /\ moduleAt' = [moduleAt EXCEPT ![modules + 1] = m]
          /\ moduleOn' = [moduleOn EXCEPT ![m] = enable]
      BY <1>13, <2>3, <3>1, RegisterModuleEffect
    <3>3. /\ modules + 1 \in 1 .. MaxModules
          /\ moduleAt'[modules + 1] = m
          /\ \A i \in 1 .. modules : moduleAt'[i] = moduleAt[i]
      BY <1>5, <3>2
    <3>4. /\ \A i \in 1 .. modules' : i \in 1 .. modules \/ i = modules + 1
          /\ \A i \in 1 .. modules : i \in 1 .. modules'
          /\ modules + 1 \in 1 .. modules'
      BY <1>5, <3>2
    <3>5. \A k \in TracingModules : moduleOn'[k] => \E i \in 1 .. modules' : moduleAt'[i] = k
      <4> SUFFICES ASSUME NEW k \in TracingModules, moduleOn'[k]
                   PROVE  \E i \in 1 .. modules' : moduleAt'[i] = k
        OBVIOUS
      <4>1. CASE k = m
        BY <3>3, <3>4, <4>1
      <4>2. CASE k # m
        <5>1. moduleOn[k]
          BY <1>5, <3>2, <4>2
        <5> QED
          BY <3>3, <3>4, <5>1 DEF Known, Registry
      <4> QED
        BY <4>1, <4>2
    <3>6. ASSUME NEW s \in ResourceSteps(m) PROVE Promised(s)'
      <4>1. s \in Steps(t)
        BY <1>4, <2>1, <3>1, <3>6 DEF Registry, Prepared
      <4>2. s # First(t)
        BY <1>10, <2>1, <3>6
      <4> QED
        BY <1>2, <4>1, <4>2 DEF Promised
    <3>7. Known'
      BY <1>9, <1>10, <1>13, <3>3, <3>4, <3>5, <3>6 DEF Known, Registry
    <3> QED
      BY <1>1, <1>7, <1>13, <3>7 DEF Registry, Distinct
  <2> QED
    BY <2>2, <2>3
<1> QED
  BY <1>6, <1>11, <1>12, <1>13

LEMMA NextRegistry ==
    ASSUME Quiescent, RoomForTypes, Calm, Calm', Holds, Registry, [Next]_vars
    PROVE  Registry'
<1>1. CASE UNCHANGED vars
  <2>1. \A u \in Threads : stack'[u] = stack[u]
    BY <1>1 DEF vars
  <2>2. UNCHANGED <<moduleOn, modules, moduleAt, resources, resourceType>>
    BY <1>1 DEF vars
  <2>3. \A u \in Threads : Prepared(u)' /\ Steps(u)' = Steps(u)
    BY <2>1, OtherPrepared, SameStack DEF Registry
  <2> QED
    BY <2>2, <2>3, RegistrySame
<1> QED
  BY <1>1, EntryRegistry, ProgressRegistry DEF Next

(***************************************************************************)
(* A resource type is declared before it is used.                          *)
(***************************************************************************)

(* The calls that thread t reports name types that have numbers.           *)
Named ==
    \A t \in Threads : \A s \in Steps(t) :
        s.op = "packet" /\ s.kind = "FC" => s.id \in 1 .. resources

LEMMA SoloSteps ==
    ASSUME Calm, NEW t \in Threads, NEW s \in Steps(t),
           \/ s.op \notin {"packet", "store"}
           \/ s.op = "packet" /\ s.kind = "RR"
    PROVE  Solo(t) /\ ~Idle(t) /\ Why(t) # "call"
<1>1. ~Idle(t) /\ OuterFits(t)
  BY DEF Steps, Calm, Shape, Fits
<1> QED
  BY <1>1 DEF OuterFits, CallStep, Solo

LEMMA CallNamed ==
    ASSUME Quiescent, Calm, Registry, NEW t \in Threads, NEW m \in TracingModules,
           NEW i \in DOMAIN Registers[m], FunctionCall(t, m, Registers[m][i])
    PROVE  \A s \in Steps(t)' : s.op = "packet" => s.id \in 1 .. resources
<1>1. PICK type : type = Registers[m][i]
  OBVIOUS
<1>2. MayEnter(t) /\ moduleOn[m] /\ Idle(t)
  BY DEF FunctionCall, MayEnter
<1>3. ASSUME NEW u \in Threads, NEW s \in Steps(u), s.op = "resource" PROVE FALSE
  <2>1. Why(u) # "call" /\ ~Idle(u)
    BY <1>3, SoloSteps
  <2>2. stack[u] \in Seq(Activation) /\ stack[u] # <<>>
    BY <2>1 DEF Calm, Inv, TypeOK, StackTypes, Idle
  <2>3. 1 \in DOMAIN stack[u] /\ 1 \in 1 .. 2
    BY <2>2
  <2>4. stack[u][1].why = "call"
    BY <1>2, <2>3 DEF MayEnter
  <2> QED
    BY <2>1, <2>4 DEF Why
<1>4. Registered(type)
  <2>1. PICK s : s = Do("resource", type, 0)
    OBVIOUS
  <2>2. s \in ResourceSteps(m) /\ s.op = "resource" /\ s.id = type
    BY <1>1, <2>1 DEF ResourceSteps, Do
  <2>3. Promised(s)
    BY <1>2, <2>2 DEF Registry, Known
  <2> QED
    BY <1>3, <2>2, <2>3 DEF Promised
<1>5. IdOf(type) \in 1 .. resources
  BY <1>4, IdRegistered
<1>6. PICK p, q, a, rest, todo : /\ p = Packet("FC", IdOf(type), calls + 1)
                                 /\ q = Do("store", 0, 0) /\ a = <<p>>
                                 /\ rest = (IF StoreHeap THEN <<q>> ELSE <<>>)
                                 /\ todo = a \o rest
  OBVIOUS
<1>7. calls \in Nat /\ calls + 1 \in Nat /\ IdOf(type) \in Nat
  BY <1>5, RegistryAssumption DEF Calm, Inv, TypeOK, LifeTypes, RegistryTypes
<1>8. p \in Step /\ q \in Step /\ q.op = "store" /\ p.id = IdOf(type)
  BY <1>6, <1>7, StepTypes DEF Kinds, Packet, Do, Ops
<1>9. a \in Seq(Step) /\ Elements(a) = {p}
  BY <1>6, <1>8 DEF Elements
<1>10. rest \in Seq(Step) /\ \A s \in Elements(rest) : s = q
  <2>1. <<>> \in Seq(Step) /\ Elements(<<>>) = {}
    BY DEF Elements
  <2>2. <<q>> \in Seq(Step) /\ Elements(<<q>>) = {q}
    BY <1>8 DEF Elements
  <2>3. rest = <<q>> \/ rest = <<>>
    BY <1>6
  <2> QED
    BY <2>1, <2>2, <2>3
<1>11. todo \in Seq(Step) /\ Elements(todo) = Elements(a) \cup Elements(rest)
  <2>1. todo = a \o rest /\ a \in Seq(Step) /\ rest \in Seq(Step)
    BY <1>6, <1>9, <1>10
  <2> QED
    BY <2>1, JoinedSteps
<1>12. Enter(t, todo, "call") /\ "call" \in Reasons /\ StackOK
  BY <1>1, <1>6, InvStack DEF FunctionCall, Reasons, Calm
<1>13. Steps(t)' = Elements(todo)
  BY <1>2, <1>11, <1>12, EnterView
<1> QED
  BY <1>5, <1>8, <1>9, <1>10, <1>11, <1>13

LEMMA MoreResources ==
    ASSUME Calm, Calm', Quiescent, Holds, [Next]_vars
    PROVE  resources \in Nat /\ resources' \in Nat /\ resources <= resources'
<1>1. resources \in Nat /\ resources' \in Nat
  BY RegistryAssumption DEF Calm, Inv, TypeOK, RegistryTypes
<1>2. resources' \in {resources, resources + 1}
  BY DEF Next, vars, EntryPoint, Initialize, InitializeModule, FunctionCall, Dlopen, CreateContext,
         ToggleTracing, Exit, registryVars, Progress, CheckEnable, Lock, LockAndFill, Unlock,
         CopyCell, Release, WriteSent, WriteFailed, DisableAfterError, Rewind, OpenPipe, Reset,
         WriteRegistries, EnableModule, RegisterModule, RegisterResource, HeapInfo, StoreHeapInfo,
         ClosePipe, ClearPipe, Ready
<1> QED
  BY <1>1, <1>2

LEMMA NextNamed ==
    ASSUME Quiescent, Calm, Calm', Holds, Registry, Named, [Next]_vars
    PROVE  Named'
<1>1. resources \in Nat /\ resources' \in Nat /\ resources <= resources'
  BY MoreResources
<1> SUFFICES ASSUME NEW u \in Threads, NEW s \in Steps(u)', s.op = "packet", s.kind = "FC"
             PROVE  s.id \in 1 .. resources'
  BY DEF Named
<1> SUFFICES s.id \in 1 .. resources
  BY <1>1
<1>2. CASE stack'[u] = stack[u]
  BY <1>2, SameStack DEF Named
<1>3. CASE UNCHANGED vars
  BY <1>2, <1>3 DEF vars
<1>4. ASSUME NEW t \in Threads, EntryPoint(t) PROVE s.id \in 1 .. resources
  <2>1. Entered(t) /\ Others(t)
    BY <1>4, EntryEntered, EnteringSteps
  <2>2. CASE u = t
    BY <2>1, <2>2, CallNamed DEF Entered, Calling
  <2> QED
    BY <1>2, <2>1, <2>2 DEF Others
<1>5. ASSUME NEW t \in Threads, Progress(t) PROVE s.id \in 1 .. resources
  <2>1. Others(t) /\ ~Idle(t)
    BY <1>5, ProgressOthers
  <2>2. CASE u = t /\ ~OpenPipe(t)
    BY <1>5, <2>2, ProgressKept DEF StepsKept, Named
  <2>3. CASE u = t /\ OpenPipe(t)
    <3>1. Solo(t) /\ OnBottom(t)
      BY <2>1, <2>3, OpenPipeEffect, SoloFirst
    <3>2. ~Idle(t)'
      BY <2>3 DEF Steps
    <3>3. Why(t)' # "call"
      BY <2>3, <3>1, <3>2, OpenPipeEffect DEF MovedOn, Solo
    <3> QED
      BY <2>3, <3>2, <3>3 DEF Calm, Shape, Fits, OuterFits, SoloStep
  <2> QED
    BY <1>2, <2>1, <2>2, <2>3 DEF Others
<1> QED
  BY <1>3, <1>4, <1>5 DEF Next

(* A cell of X declares resource type i; every call in X comes after the   *)
(* declaration of its type.                                                *)
Has(X, i) == \E j \in DOMAIN X : X[j].kind = "RR" /\ X[j].id = i
DeclaredIn(X) ==
    \A j \in DOMAIN X : X[j].kind = "FC" =>
        \E i \in 1 .. j : X[i].kind = "RR" /\ X[i].id = X[j].id

(* Step s of thread t is to declare type i, and has not done so yet.       *)
Announces(t, s, i) ==
    \/ s.op = "packet" /\ s.kind = "RR" /\ s.id = i /\ ~(s = First(t) /\ Added(t))
    \/ s.op = "resources" /\ s.n <= i
Announced(i) == \E t \in Threads : \E s \in Steps(t) : Announces(t, s, i)

(* While tracing is enabled the stream of the session has the declaration  *)
(* of every type that has a number, or a thread is about to add it.        *)
Declaring ==
    /\ Live /\ enable => \A i \in 1 .. resources : Has(Stream, i) \/ Announced(i)
    /\ Live => DeclaredIn(Stream)
(* A thread that has yet to reset the buffer of an open pipe has all of    *)
(* write_initial_data before it.                                           *)
Opened ==
    \A t \in Threads : Op(t, "reset") /\ fd_proc > 0 => InitialSteps \subseteq Steps(t)

LEMMA StillAnnounced ==
    ASSUME Calm, Calm', NEW t \in Threads, Progress(t), fd_proc > 0,
           NEW i \in 1 .. resources, NEW u \in Threads, NEW s \in Steps(u), Announces(u, s, i),
           ~(u = t /\ s = First(t) /\ s.op = "packet")
    PROVE  Announced(i)'
<1>1. Others(t) /\ ~Idle(t)
  BY ProgressOthers
<1>2. CASE u # t
  <2>1. stack'[u] = stack[u]
    BY <1>1, <1>2 DEF Others
  <2>2. Steps(u)' = Steps(u) /\ First(u)' = First(u) /\ (Added(u)' <=> Added(u))
    BY <2>1, SameStack DEF Added, Overflows
  <2>3. Announces(u, s, i)'
    BY <2>2 DEF Announces
  <2> QED
    BY <2>2, <2>3 DEF Announced
<1>3. CASE u = t /\ s # First(t)
  <2>1. ~OpenPipe(t)
    <3> SUFFICES ASSUME OpenPipe(t) PROVE FALSE
      OBVIOUS
    <3>1. First(t).op \in {"open", "openinit"} /\ First(t) \in Steps(t)
      BY <1>1, OpenPipeEffect, InvStack, Views DEF Calm
    <3>2. fd_proc <= 0 /\ fd_proc \in Int
      BY <3>1 DEF Calm, Control, Doing, Opens, Inv, TypeOK, PipeTypes
    <3> QED
      BY <3>2
  <2>2. StepsKept(t)
    BY <2>1, ProgressKept
  <2>3. s \in Steps(t)'
    BY <1>3, <2>2 DEF StepsKept
  <2>4. ~(s = First(t)' /\ Added(t)')
    BY <1>3, <2>2 DEF StepsKept, Added
  <2>5. Announces(t, s, i)'
    BY <1>3, <2>4 DEF Announces
  <2> QED
    BY <2>3, <2>5 DEF Announced
<1>4. CASE u = t /\ s = First(t)
  <2>1. First(t).op = "resources" /\ First(t).n <= i
    BY <1>4 DEF Announces
  <2>2. At(t) = "start"
    BY <1>1, <2>1, PlainPlace
  <2>3. WriteRegistries(t)
    BY <2>1, <2>2, FirstAction
  <2>4. First(t).n \in Nat /\ resources \in Nat /\ i \in Nat /\ First(t) \in Step
    BY <1>1, RegistryAssumption, InvStack, Views
    DEF Calm, Inv, TypeOK, RegistryTypes, Step
  <2>5. ~(First(t).n > resources)
    BY <2>1, <2>4
  <2>6. PICK p, q : /\ p = Packet("RR", First(t).n, 0)
                    /\ q = [First(t) EXCEPT !.n = First(t).n + 1]
                    /\ MovedOn(t, <<p, q>>) /\ Steps(t)' = {p, q} \cup Later(t)
    BY <2>1, <2>3, <2>5, WriteRegistriesEffect
  <2>7. At(t)' = "start"
    BY <2>6 DEF MovedOn, At
  <2>8. /\ p.op = "packet" /\ p.kind = "RR" /\ p.id = First(t).n
        /\ q.op = "resources" /\ q.n = First(t).n + 1
    BY <2>1, <2>4, <2>6 DEF Packet, Step
  <2>9. CASE First(t).n = i
    <3>1. Announces(t, p, i)'
      BY <2>7, <2>8, <2>9 DEF Announces, Added
    <3> QED
      BY <2>6, <3>1 DEF Announced
  <2>10. CASE First(t).n # i
    <3>1. q.n <= i
      BY <2>1, <2>4, <2>8, <2>10
    <3>2. Announces(t, q, i)'
      BY <2>8, <3>1 DEF Announces
    <3> QED
      BY <2>6, <3>2 DEF Announced
  <2> QED
    BY <2>9, <2>10
<1> QED
  BY <1>2, <1>3, <1>4

LEMMA StillPending ==
    ASSUME Calm, Calm', NEW t \in Threads, Progress(t), StreamKept(t), enable, NEW i,
           First(t).op = "packet", Announces(t, First(t), i)
    PROVE  Announced(i)'
<1>1. /\ ~Added(t) /\ First(t).kind = "RR" /\ First(t).id = i
      /\ ~Idle(t)
  BY ProgressOthers DEF Announces
<1>2. CASE At(t) # "start"
  <2>1. OnWay(t)' /\ First(t)' = First(t)
    BY <1>1, <1>2 DEF StreamKept, OnWay, Pending
  <2>2. ~Idle(t)' /\ ~Added(t)'
    BY <2>1 DEF OnWay, Pending
  <2>3. First(t)' \in Steps(t)'
    <3>1. StackOK'
      BY DEF Calm, Inv, TypeOK, StackTypes, StackOK
    <3> QED
      BY <2>2, <3>1, ViewsAfter
  <2>4. Announces(t, First(t), i)'
    BY <1>1, <2>1, <2>2 DEF Announces
  <2> QED
    BY <2>3, <2>4 DEF Announced
<1>3. CASE At(t) = "start"
  <2>1. CheckEnable(t)
    BY <1>3, FirstAction
  <2>2. ~OnInner(t)
    BY <1>3 DEF OnInner
  <2>3. SameSteps(t) /\ At(t)' = "lock"
    BY <2>1, <2>2, CheckEnableEffect
  <2>4. First(t) \in Steps(t)' /\ ~Added(t)'
    BY <1>1, <2>3, InvStack, Views DEF SameSteps, Calm, Added
  <2>5. Announces(t, First(t), i)'
    BY <1>1, <2>3, <2>4 DEF Announces, SameSteps
  <2> QED
    BY <2>3, <2>4, <2>5 DEF Announced, SameSteps
<1> QED
  BY <1>2, <1>3

LEMMA GrownHas ==
    ASSUME Calm, NEW t \in Threads, StreamGrown(t), NEW i
    PROVE  /\ Has(Stream, i) => Has(Stream', i)
           /\ First(t).kind = "RR" => Has(Stream', First(t).id)
<1>1. PICK s, c, w : s = Stream /\ c = CellsOf(t, First(t)) /\ w = s \o c
  OBVIOUS
<1>2. Stream' = w /\ ~Idle(t) /\ First(t).op = "packet" /\ Live
  BY <1>1 DEF StreamGrown, Pending
<1>3. s \in Seq(Cell)
  BY <1>1, <1>2, StreamTypes DEF Live
<1>4. /\ c \in Seq(Cell) /\ Len(c) \in Nat \ {0}
      /\ \A j \in DOMAIN c : c[j].kind = First(t).kind /\ c[j].id = First(t).id
  BY <1>1, <1>2, PacketCells
<1>5. /\ Len(w) = Len(s) + Len(c) /\ w \in Seq(Cell) /\ Len(s) \in Nat
      /\ \A j \in 1 .. Len(s) : w[j] = s[j]
      /\ \A j \in 1 .. Len(c) : w[Len(s) + j] = c[j]
  BY <1>1, <1>3, <1>4, Joining
<1>6. DOMAIN w = 1 .. Len(w) /\ DOMAIN s = 1 .. Len(s) /\ DOMAIN c = 1 .. Len(c)
  BY <1>3, <1>4, <1>5
<1>7. ASSUME Has(s, i) PROVE Has(w, i)
  <2>1. PICK j \in DOMAIN s : s[j].kind = "RR" /\ s[j].id = i
    BY <1>7 DEF Has
  <2>2. j \in DOMAIN w /\ w[j] = s[j]
    BY <1>4, <1>5, <1>6, <2>1
  <2> QED
    BY <2>1, <2>2 DEF Has
<1>8. ASSUME First(t).kind = "RR" PROVE Has(w, First(t).id)
  <2>1. 1 \in 1 .. Len(c) /\ Len(s) + 1 \in 1 .. Len(w)
    BY <1>4, <1>5
  <2>2. w[Len(s) + 1] = c[1] /\ Len(s) + 1 \in DOMAIN w
    BY <1>5, <1>6, <2>1
  <2> QED
    BY <1>4, <1>6, <1>8, <2>1, <2>2 DEF Has
<1> QED
  BY <1>1, <1>2, <1>7, <1>8

(* A call that is being added to the stream names a declared type.         *)
LEMMA CallDeclared ==
    ASSUME Calm, Named, Declaring, Live, NEW t \in Threads, ~Idle(t), Why(t) = "call",
           First(t).op = "packet", First(t).kind = "FC"
    PROVE  Has(Stream, First(t).id)
<1>1. ASSUME NEW u \in Threads, Why(u) # "call" PROVE FALSE
  <2>1. u = t
    BY <1>1 DEF Calm, Shape, Apart, Solo
  <2> QED
    BY <1>1, <2>1
<1>2. enable
  <2>1. ~exited
    BY DEF Calm, Control, Doing
  <2>2. \A u \in Threads : ~Op(u, "clear")
    BY <1>1 DEF Calm, Control, Doing
  <2> QED
    BY <2>1, <2>2 DEF Calm, Control, Standing, Live
<1>3. First(t) \in Steps(t)
  BY InvStack, Views DEF Calm
<1>4. First(t).id \in 1 .. resources
  BY <1>3 DEF Named
<1>5. ~Announced(First(t).id)
  <2> SUFFICES ASSUME NEW u \in Threads, NEW s \in Steps(u), Announces(u, s, First(t).id)
               PROVE  FALSE
    BY DEF Announced
  <2>1. \/ s.op \notin {"packet", "store"}
        \/ s.op = "packet" /\ s.kind = "RR"
    BY DEF Announces
  <2>2. Why(u) # "call"
    BY <2>1, SoloSteps
  <2> QED
    BY <1>1, <2>2
<1> QED
  BY <1>2, <1>4, <1>5 DEF Declaring

LEMMA GrownDeclared ==
    ASSUME Calm, Named, Declaring, NEW t \in Threads, StreamGrown(t)
    PROVE  DeclaredIn(Stream')
<1>1. PICK s, c, w : s = Stream /\ c = CellsOf(t, First(t)) /\ w = s \o c
  OBVIOUS
<1>2. Stream' = w /\ ~Idle(t) /\ First(t).op = "packet" /\ Live
  BY <1>1 DEF StreamGrown, Pending
<1>3. s \in Seq(Cell)
  BY <1>1, <1>2, StreamTypes DEF Live
<1>4. /\ c \in Seq(Cell)
      /\ \A j \in DOMAIN c : c[j].kind = First(t).kind /\ c[j].id = First(t).id
      /\ First(t).kind = "FC" => Why(t) = "call"
  BY <1>1, <1>2, PacketCells
<1>5. DeclaredIn(s)
  BY <1>1, <1>2 DEF Declaring
<1>6. /\ Len(s) \in Nat /\ DOMAIN s = 1 .. Len(s)
      /\ \A j \in 1 .. Len(s) : w[j] = s[j]
  BY <1>1, <1>3, <1>4, Joining
<1> SUFFICES ASSUME NEW j \in DOMAIN w, w[j].kind = "FC"
             PROVE  \E i \in 1 .. j : w[i].kind = "RR" /\ w[i].id = w[j].id
  BY <1>2 DEF DeclaredIn
<1>7. /\ j \in Nat
      /\ \/ j \in DOMAIN s /\ j <= Len(s) /\ w[j] = s[j]
         \/ /\ j > Len(s) /\ \E i \in DOMAIN c : w[j] = c[i] /\ j = Len(s) + i
  BY <1>1, <1>3, <1>4, GrownCells
<1>8. CASE j \in DOMAIN s /\ j <= Len(s) /\ w[j] = s[j]
  <2>1. PICK i \in 1 .. j : s[i].kind = "RR" /\ s[i].id = s[j].id
    BY <1>5, <1>8 DEF DeclaredIn
  <2>2. w[i] = s[i]
    BY <1>6, <1>7, <1>8, <2>1
  <2> QED
    BY <1>8, <2>1, <2>2
<1>9. CASE j > Len(s) /\ \E i \in DOMAIN c : w[j] = c[i] /\ j = Len(s) + i
  <2>1. First(t).kind = "FC" /\ w[j].id = First(t).id
    BY <1>4, <1>9
  <2>2. Has(s, First(t).id)
    BY <1>1, <1>2, <1>4, <2>1, CallDeclared
  <2>3. PICK i \in DOMAIN s : s[i].kind = "RR" /\ s[i].id = First(t).id
    BY <2>2 DEF Has
  <2>4. w[i] = s[i] /\ i \in 1 .. j
    BY <1>6, <1>7, <1>9, <2>3
  <2> QED
    BY <2>1, <2>3, <2>4
<1> QED
  BY <1>7, <1>8, <1>9

LEMMA EmptyDeclared == DeclaredIn(<<>>)
<1>1. DOMAIN <<>> = {}
  OBVIOUS
<1> QED
  BY <1>1 DEF DeclaredIn

LEMMA NextStreamDeclared ==
    ASSUME Quiescent, Calm, Calm', Holds, Fresh, Named, Declaring, [Next]_vars, Live'
    PROVE  DeclaredIn(Stream')
<1>1. CASE UNCHANGED vars
  <2>1. \A u \in Threads : stack'[u] = stack[u]
    BY <1>1 DEF vars
  <2>2. UNCHANGED <<fd_proc, out, pipe_buffer, head>>
    BY <1>1 DEF vars
  <2>3. Moving' <=> Moving
    BY <2>1, SameStack DEF Moving
  <2>4. Live
    BY <2>1, <2>2, SameStack DEF Live
  <2>5. Stream' = Stream
    BY <2>2, <2>3, SameStream
  <2> QED
    BY <2>4, <2>5 DEF Declaring
<1>2. ASSUME NEW t \in Threads, Streams(t) PROVE DeclaredIn(Stream')
  <2>1. CASE StreamKept(t)
    BY <2>1 DEF StreamKept, Declaring
  <2>2. CASE StreamGrown(t)
    BY <2>2, GrownDeclared
  <2>3. CASE StreamStarted
    BY <2>3, EmptyDeclared DEF StreamStarted
  <2> QED
    BY <1>2, <2>1, <2>2, <2>3 DEF Streams
<1> QED
  BY <1>1, <1>2, EntryStreams, ProgressStreams DEF Next

LEMMA NextOpened ==
    ASSUME Quiescent, Calm, Calm', Holds, Fresh, Opened, [Next]_vars
    PROVE  Opened'
<1>0. InitialSteps' = InitialSteps
  BY DEF InitialSteps, Packet, Do, EnableTracing
<1> SUFFICES ASSUME NEW u \in Threads, Op(u, "reset")', fd_proc' > 0
             PROVE  InitialSteps \subseteq Steps(u)'
  BY <1>0 DEF Opened
<1>1. CASE UNCHANGED vars
  <2>1. stack'[u] = stack[u] /\ fd_proc' = fd_proc
    BY <1>1 DEF vars
  <2> QED
    BY <2>1, SameStack DEF Opened
<1>2. ASSUME NEW t \in Threads, EntryPoint(t) PROVE InitialSteps \subseteq Steps(u)'
  <2>1. UNCHANGED fd_proc /\ Others(t)
    BY <1>2, EnteringSteps
  <2>2. u # t
    BY <1>2, EntersNoReset
  <2>3. stack'[u] = stack[u]
    BY <2>1, <2>2 DEF Others
  <2> QED
    BY <2>1, <2>3, SameStack DEF Opened
<1>3. ASSUME NEW t \in Threads, Progress(t) PROVE InitialSteps \subseteq Steps(u)'
  <2>1. u = t /\ fd_proc' = Len(out) + 1 /\ OpenPipe(t) /\ out' = Append(out, <<>>)
    BY <1>3, ResetComes
  <2>2. fd_proc' # fd_proc
    <3>1. Len(out) \in Nat /\ fd_proc \in -1 .. Len(out)
      BY DEF Calm, Inv, TypeOK, PipeTypes
    <3> QED
      BY <2>1, <3>1
  <2>3. PICK more : MovedOn(t, more) /\ Elements(more) = InitialSteps
    BY <2>1, <2>2, OpenPipeEffect
  <2> QED
    BY <2>1, <2>3 DEF MovedOn
<1> QED
  BY <1>1, <1>2, <1>3 DEF Next

(* Only an entry point sets the option, and none does in a live session.   *)
LEMMA StillEnabled ==
    ASSUME Quiescent, Calm, NEW t \in Threads, EntryPoint(t) \/ Progress(t), enable', Live
    PROVE  enable
<1>0. enable \in BOOLEAN /\ fd_proc > 0 /\ fd_proc \in Int
  BY DEF Calm, Inv, TypeOK, OptionTypes, PipeTypes, Live
<1>1. CASE Progress(t)
  BY <1>1 DEF Progress, CheckEnable, Lock, LockAndFill, Unlock, CopyCell, Release, WriteSent,
      WriteFailed, DisableAfterError, Rewind, OpenPipe, Reset, WriteRegistries, EnableModule,
      RegisterModule, RegisterResource, HeapInfo, StoreHeapInfo, ClosePipe, ClearPipe, Ready
<1>2. CASE Initialize(t) \/ \E m \in TracingModules : InitializeModule(t, m)
  <2>1. initLock # 0
    BY <1>0 DEF Calm, Control, Standing
  <2> QED
    BY <1>2, <2>1 DEF Initialize, InitializeModule, TakeInitializeLock
<1>3. CASE ToggleTracing(t)
  <2>1. (\A u \in Threads : Idle(u)) /\ ~exited
    BY <1>3 DEF ToggleTracing, Alone
  <2> QED
    BY <1>0, <2>1, QuietStanding
<1>4. CASE \/ Dlopen(t) \/ CreateContext(t) \/ Exit(t)
           \/ \E m \in TracingModules :
                 \E i \in DOMAIN Registers[m] : FunctionCall(t, m, Registers[m][i])
  BY <1>4 DEF Dlopen, CreateContext, Exit, FunctionCall
<1> QED
  BY <1>1, <1>2, <1>3, <1>4 DEF EntryPoint

LEMMA EntryAnnounced ==
    ASSUME Quiescent, Calm, Calm', Holds, Fresh, Declaring, NEW t \in Threads, EntryPoint(t),
           Live', enable', NEW i \in 1 .. resources'
    PROVE  Has(Stream', i) \/ Announced(i)'
<1>1. Streams(t) /\ Idle(t) /\ Others(t) /\ Entered(t) /\ fd_proc' = fd_proc
  BY EntryStreams, EnteringSteps, EntryEntered
<1>2. Live
  BY <1>1, LiveBefore
<1>3. Stream' = Stream
  BY <1>1, <1>2 DEF Streams, StreamKept, StreamGrown, StreamStarted, Pending
<1>4. enable
  BY <1>2, StillEnabled
<1>5. resources' = resources
  BY DEF EntryPoint, Initialize, InitializeModule, FunctionCall, Dlopen, CreateContext,
         ToggleTracing, Exit, registryVars
<1>6. ASSUME Announced(i) PROVE Announced(i)'
  <2>1. PICK u \in Threads : \E s \in Steps(u) : Announces(u, s, i)
    BY <1>6 DEF Announced
  <2>0. PICK s \in Steps(u) : Announces(u, s, i)
    BY <2>1
  <2>2. u # t
    BY <1>1, <2>0 DEF Steps
  <2>3. stack'[u] = stack[u]
    BY <1>1, <2>2 DEF Others
  <2>4. Steps(u)' = Steps(u) /\ First(u)' = First(u) /\ (Added(u)' <=> Added(u))
    BY <2>3, SameStack DEF Added, Overflows
  <2>5. Announces(u, s, i)'
    BY <2>0, <2>4 DEF Announces
  <2> QED
    BY <2>0, <2>4, <2>5 DEF Announced
<1> QED
  BY <1>2, <1>3, <1>4, <1>5, <1>6 DEF Declaring

(* A type that is registered while tracing is enabled is declared next.    *)
LEMMA NewAnnounced ==
    ASSUME Calm, Calm', NEW t \in Threads, Progress(t), enable, NEW i \in 1 .. resources',
           i \notin 1 .. resources
    PROVE  Announced(i)'
<1>1. RegisterResource(t)
  <2>1. resources' # resources
    OBVIOUS
  <2> QED
    BY <2>1 DEF Progress, CheckEnable, Lock, LockAndFill, Unlock, CopyCell, Release, WriteSent,
         WriteFailed, DisableAfterError, Rewind, OpenPipe, Reset, WriteRegistries, EnableModule,
         RegisterModule, HeapInfo, StoreHeapInfo, ClosePipe, ClearPipe, Ready, registryVars
<1>2. resources' # resources /\ resources \in Nat
  BY RegistryAssumption DEF Calm, Inv, TypeOK, RegistryTypes
<1>3. PICK p : /\ resources' = resources + 1 /\ p = Packet("RR", resources + 1, 0)
               /\ MovedOn(t, <<p>>) /\ Steps(t)' = {p} \cup Later(t)
  BY <1>1, <1>2, RegisterResourceEffect
<1>4. i = resources + 1
  BY <1>2, <1>3
<1>5. At(t)' = "start"
  BY <1>3 DEF MovedOn
<1>6. Announces(t, p, i)'
  BY <1>3, <1>4, <1>5 DEF Announces, Packet, Added
<1> QED
  BY <1>3, <1>6 DEF Announced

LEMMA ProgressAnnounced ==
    ASSUME Quiescent, Calm, Calm', Holds, Fresh, Opened, Declaring, NEW t \in Threads, Progress(t),
           Live', enable', NEW i \in 1 .. resources'
    PROVE  Has(Stream', i) \/ Announced(i)'
<1>1. Streams(t) /\ Others(t) /\ ~Idle(t)
  BY ProgressStreams, ProgressOthers
<1>2. CASE Live
  <2>1. enable /\ fd_proc > 0
    BY <1>2, StillEnabled DEF Live
  <2>2. CASE i \notin 1 .. resources
    BY <2>1, <2>2, NewAnnounced
  <2>3. CASE i \in 1 .. resources
    <3>1. StreamKept(t) \/ StreamGrown(t)
      BY <1>1, <1>2 DEF Streams, StreamStarted
    <3>2. CASE Has(Stream, i)
      BY <3>1, <3>2, GrownHas DEF StreamKept
    <3>3. ASSUME NEW u \in Threads, NEW s \in Steps(u), Announces(u, s, i)
          PROVE  Has(Stream', i) \/ Announced(i)'
      <4>1. CASE ~(u = t /\ s = First(t) /\ s.op = "packet")
        BY <2>1, <2>3, <3>3, <4>1, StillAnnounced
      <4>2. CASE u = t /\ s = First(t) /\ s.op = "packet"
        <5>1. First(t).kind = "RR" /\ First(t).id = i /\ Announces(t, First(t), i)
          BY <3>3, <4>2 DEF Announces
        <5>2. CASE StreamKept(t)
          BY <2>1, <4>2, <5>1, <5>2, StillPending
        <5>3. CASE StreamGrown(t)
          BY <5>1, <5>3, GrownHas
        <5> QED
          BY <3>1, <5>2, <5>3
      <4> QED
        BY <4>1, <4>2
    <3>4. Has(Stream, i) \/ Announced(i)
      BY <1>2, <2>1, <2>3 DEF Declaring
    <3> QED
      BY <3>2, <3>3, <3>4 DEF Announced
  <2> QED
    BY <2>2, <2>3
<1>3. CASE ~Live
  <2>1. fd_proc' = fd_proc /\ fd_proc > 0
    BY <1>1, <1>3 DEF Streams, StreamKept, StreamGrown, StreamStarted
  <2>2. PICK u \in Threads : Op(u, "reset")
    BY <1>3, <2>1 DEF Live
  <2>3. u = t
    BY <1>1, <2>2, ResetAlone
  <2>4. Do("resources", 0, 1) \in Steps(t) /\ First(t).op = "reset"
    BY <2>1, <2>2, <2>3 DEF Opened, InitialSteps, Fresh
  <2>5. StepsKept(t)
    <3>1. ~OpenPipe(t)
      BY <2>4, OpenPipeEffect
    <3> QED
      BY <3>1, ProgressKept
  <2>6. Do("resources", 0, 1) # First(t)
    BY <2>4 DEF Do
  <2>7. PICK s : s = Do("resources", 0, 1)
    OBVIOUS
  <2>8. s \in Steps(t)' /\ s.op = "resources" /\ s.n = 1
    BY <2>4, <2>5, <2>6, <2>7 DEF StepsKept, Do
  <2>9. 1 <= i
    BY RegistryAssumption DEF Calm, Inv, TypeOK, RegistryTypes
  <2>10. Announces(t, s, i)'
    BY <2>8, <2>9 DEF Announces
  <2> QED
    BY <2>8, <2>10 DEF Announced
<1> QED
  BY <1>2, <1>3

LEMMA NextDeclaring ==
    ASSUME Quiescent, Calm, Calm', Holds, Fresh, Opened, Named, Declaring, [Next]_vars
    PROVE  Declaring'
<1>1. ASSUME Live', enable', NEW i \in 1 .. resources' PROVE Has(Stream', i) \/ Announced(i)'
  <2>1. CASE UNCHANGED vars
    <3>1. /\ \A u \in Threads : stack'[u] = stack[u]
          /\ UNCHANGED <<fd_proc, out, pipe_buffer, head, enable, resources>>
      BY <2>1 DEF vars
    <3>2. Moving' <=> Moving
      BY <3>1, SameStack DEF Moving
    <3>3. Live
      BY <1>1, <3>1, SameStack DEF Live
    <3>4. Stream' = Stream
      BY <3>1, <3>2, SameStream
    <3>5. ASSUME Announced(i) PROVE Announced(i)'
      <4>1. PICK u \in Threads : \E s \in Steps(u) : Announces(u, s, i)
        BY <3>5 DEF Announced
      <4>0. PICK s \in Steps(u) : Announces(u, s, i)
        BY <4>1
      <4>2. Steps(u)' = Steps(u) /\ First(u)' = First(u) /\ (Added(u)' <=> Added(u))
        BY <3>1, SameStack DEF Added, Overflows
      <4>3. Announces(u, s, i)'
        BY <4>0, <4>2 DEF Announces
      <4> QED
        BY <4>0, <4>2, <4>3 DEF Announced
    <3> QED
      BY <1>1, <3>1, <3>3, <3>4, <3>5 DEF Declaring
  <2>2. ASSUME NEW t \in Threads, EntryPoint(t) PROVE Has(Stream', i) \/ Announced(i)'
    BY <1>1, <2>2, EntryAnnounced
  <2>3. ASSUME NEW t \in Threads, Progress(t) PROVE Has(Stream', i) \/ Announced(i)'
    BY <1>1, <2>3, ProgressAnnounced
  <2> QED
    BY <2>1, <2>2, <2>3 DEF Next
<1>2. Live' => DeclaredIn(Stream')
  BY NextStreamDeclared
<1>4. ASSUME Live', enable', NEW i \in 1 .. resources' PROVE Has(Stream, i)' \/ Announced(i)'
  BY <1>1, <1>4 DEF Has
<1>5. Live' => DeclaredIn(Stream)'
  BY <1>2 DEF DeclaredIn
<1> QED
  BY <1>4, <1>5 DEF Declaring

LEMMA NextDeclared ==
    ASSUME Quiescent, Calm, Holds, Fresh, Declaring, DeclaredBeforeUse, [Next]_vars
    PROVE  DeclaredBeforeUse'
<1>1. out \in Seq(Seq(Cell))
  BY StreamTypes
<1>2. \A k \in DOMAIN out : DeclaredIn(out[k])
  BY DEF DeclaredBeforeUse, DeclaredIn, Sessions
<1>3. \A k \in DOMAIN out' : DeclaredIn(out'[k])
  <2>1. CASE out' = out
    BY <1>2, <2>1
  <2>2. CASE out' = Append(out, <<>>)
    <3> SUFFICES ASSUME NEW k \in DOMAIN out' PROVE DeclaredIn(out'[k])
      OBVIOUS
    <3>1. CASE k \in DOMAIN out
      <4>1. out'[k] = out[k]
        BY <1>1, <2>2, <3>1
      <4> QED
        BY <1>2, <3>1, <4>1
    <3>2. CASE k \notin DOMAIN out
      <4>1. out'[k] = <<>>
        BY <1>1, <2>2, <3>2
      <4> QED
        BY <4>1, EmptyDeclared
    <3> QED
      BY <3>1, <3>2
  <2>3. CASE Live /\ fd_proc \in DOMAIN out /\ out' = [out EXCEPT ![fd_proc] = Stream]
    <3>1. PICK x : x = Stream
      OBVIOUS
    <3>2. DeclaredIn(x)
      BY <2>3, <3>1 DEF Declaring
    <3>3. out' = [out EXCEPT ![fd_proc] = x]
      BY <2>3, <3>1
    <3> QED
      BY <1>1, <1>2, <3>2, <3>3
  <2> QED
    BY <2>1, <2>2, <2>3, NextOut
<1> QED
  BY <1>3 DEF DeclaredBeforeUse, DeclaredIn, Sessions

(* With the toggle signal, initialization and exit coming while no call is *)
(* in progress, an open pipe that takes what is written to it, and a       *)
(* registry (rtrace_resources) with room for every type the modules have:  *)
(* for any number of threads, modules, types, calls and toggles, and any   *)
(* buffer and packet sizes, a session's stream declares a resource type    *)
(* before the first call that names it, whether the type was registered    *)
(* before the session started (write_initial_data) or while it was running *)
(* (sp_rtrace_register_resource).                                          *)
THEOREM TypesAreDeclared ==
    ASSUME Quiescent, ~WriteMayFail, RoomForTypes
    PROVE  Spec => []DeclaredBeforeUse
<1> DEFINE I == /\ Calm /\ Holds /\ Fresh /\ Opened /\ Registry /\ Named /\ Declaring
                /\ DeclaredBeforeUse
<1>1. Init => I
  <2> SUFFICES ASSUME Init PROVE I
    OBVIOUS
  <2>1. Calm /\ Holds /\ Fresh
    BY InitCalm, InitHolds, InitFresh
  <2>2. \A t \in Threads : Steps(t) = {}
    BY DEF Init, Steps, Idle
  <2>3. modules = 0 /\ resources = 0 /\ fd_proc = 0 /\ moduleOn = [m \in TracingModules |-> FALSE]
    BY DEF Init
  <2>4. Registry
    BY <2>2, <2>3 DEF Registry, Known, Distinct, Prepared
  <2>5. Named
    BY <2>2 DEF Named
  <2>6. Declaring /\ Opened
    BY <2>2, <2>3 DEF Declaring, Live, Opened
  <2>7. DeclaredBeforeUse
    BY DEF Init, DeclaredBeforeUse, Sessions
  <2> QED
    BY <2>1, <2>4, <2>5, <2>6, <2>7
<1>2. I /\ [Next]_vars => I'
  BY NextCalm, NextHolds, NextFresh, NextOpened, NextRegistry, NextNamed, NextDeclaring, NextDeclared
<1> QED
  BY <1>1, <1>2, PTL DEF Spec

(***************************************************************************)
(* The layout of the streams.                                              *)
(***************************************************************************)

LEMMA StreamSteps ==
    ASSUME Quiescent, Calm, Calm', Holds, Fresh, [Next]_vars, Live'
    PROVE  \/ Live /\ Stream' = Stream
           \/ Stream' = <<>>
           \/ \E t \in Threads : StreamGrown(t)
<1>1. CASE UNCHANGED vars
  <2>1. \A u \in Threads : stack'[u] = stack[u]
    BY <1>1 DEF vars
  <2>2. UNCHANGED <<fd_proc, out, pipe_buffer, head>>
    BY <1>1 DEF vars
  <2>3. Moving' <=> Moving
    BY <2>1, SameStack DEF Moving
  <2>4. Live
    BY <2>1, <2>2, SameStack DEF Live
  <2> QED
    BY <2>2, <2>3, <2>4, SameStream
<1>2. ASSUME NEW t \in Threads, Streams(t)
      PROVE  \/ Live /\ Stream' = Stream
             \/ Stream' = <<>>
             \/ StreamGrown(t)
  BY <1>2 DEF Streams, StreamKept, StreamStarted
<1> QED
  BY <1>1, <1>2, EntryStreams, ProgressStreams DEF Next

(* A stream that has grown, cell by cell.                                  *)
LEMMA GrownStream ==
    ASSUME Calm, NEW t \in Threads, StreamGrown(t), NEW s, s = Stream, NEW w, w = Stream'
    PROVE  /\ s \in Seq(Cell) /\ w \in Seq(Cell)
           /\ ~Idle(t) /\ First(t).op = "packet" /\ First(t) \in Step
           /\ Size[First(t).kind] \in Nat \ {0}
           /\ Len(w) = Len(s) + Size[First(t).kind] /\ Len(s) \in Nat
           /\ \A j \in DOMAIN s : j \in DOMAIN w /\ w[j] = s[j]
           /\ \A i \in 1 .. Size[First(t).kind] :
                 Len(s) + i \in DOMAIN w /\ w[Len(s) + i] = CellOf(t, First(t), i)
           /\ \A j \in DOMAIN w : j \notin DOMAIN s =>
                 \E i \in 1 .. Size[First(t).kind] : j = Len(s) + i /\ w[j] = CellOf(t, First(t), i)
<1>1. PICK c : c = CellsOf(t, First(t))
  OBVIOUS
<1>2. w = s \o c /\ ~Idle(t) /\ First(t).op = "packet" /\ Live
  BY <1>1 DEF StreamGrown, Pending
<1>3. s \in Seq(Cell) /\ First(t) \in Step
  BY <1>2, StreamTypes, CellsType DEF Live
<1>4. c \in Seq(Cell) /\ Len(c) = Size[First(t).kind] /\ Len(c) \in Nat \ {0}
  BY <1>1, <1>2, PacketCells
<1>5. /\ Len(w) = Len(s) + Len(c) /\ w \in Seq(Cell) /\ Len(s) \in Nat
      /\ \A j \in 1 .. Len(s) : w[j] = s[j]
      /\ \A j \in 1 .. Len(c) : w[Len(s) + j] = c[j]
  <2>1. s \in Seq(Cell) /\ c \in Seq(Cell)
    BY <1>3, <1>4
  <2>2. PICK v : v = s \o c
    OBVIOUS
  <2>3. /\ v \in Seq(Cell)
        /\ Len(v) = Len(s) + Len(c)
        /\ \A j \in 1 .. Len(s) : v[j] = s[j]
        /\ \A j \in 1 .. Len(c) : v[Len(s) + j] = c[j]
    BY <2>1, <2>2, Joining
  <2>4. w = v /\ Len(s) \in Nat
    BY <1>2, <2>1, <2>2
  <2> QED
    BY <2>3, <2>4
<1>6. DOMAIN w = 1 .. Len(w) /\ DOMAIN s = 1 .. Len(s) /\ DOMAIN c = 1 .. Len(c)
  BY <1>3, <1>4, <1>5
<1>7. \A i \in 1 .. Size[First(t).kind] : c[i] = CellOf(t, First(t), i)
  BY <1>1 DEF CellsOf
<1>8. ASSUME NEW j \in DOMAIN s PROVE j \in DOMAIN w /\ w[j] = s[j]
  BY <1>4, <1>5, <1>6
<1>9. ASSUME NEW i \in 1 .. Size[First(t).kind]
      PROVE  Len(s) + i \in DOMAIN w /\ w[Len(s) + i] = CellOf(t, First(t), i)
  <2>1. i \in 1 .. Len(c) /\ Len(s) + i \in 1 .. Len(w)
    BY <1>4, <1>5
  <2> QED
    BY <1>5, <1>6, <1>7, <2>1
<1>10. ASSUME NEW j \in DOMAIN w, j \notin DOMAIN s
       PROVE  \E i \in 1 .. Size[First(t).kind] : j = Len(s) + i /\ w[j] = CellOf(t, First(t), i)
  <2>1. PICK i : i = j - Len(s)
    OBVIOUS
  <2>2. i \in 1 .. Size[First(t).kind] /\ j = Len(s) + i
    BY <1>4, <1>5, <1>6, <1>10, <2>1
  <2> QED
    BY <1>9, <2>2
<1> QED
  BY <1>2, <1>3, <1>4, <1>5, <1>8, <1>9, <1>10

LEMMA GrownWhole ==
    ASSUME Calm, NEW t \in Threads, StreamGrown(t), WholePackets(Stream)
    PROVE  WholePackets(Stream')
<1>1. PICK s, w, n : s = Stream /\ w = Stream' /\ n = Size[First(t).kind]
  OBVIOUS
<1>2. /\ s \in Seq(Cell) /\ w \in Seq(Cell)
      /\ n \in Nat \ {0} /\ Len(w) = Len(s) + n /\ Len(s) \in Nat
      /\ \A j \in DOMAIN s : j \in DOMAIN w /\ w[j] = s[j]
      /\ \A i \in 1 .. n : Len(s) + i \in DOMAIN w /\ w[Len(s) + i] = CellOf(t, First(t), i)
      /\ \A j \in DOMAIN w : j \notin DOMAIN s =>
            \E i \in 1 .. n : j = Len(s) + i /\ w[j] = CellOf(t, First(t), i)
  BY <1>1, GrownStream
<1>3. DOMAIN w = 1 .. Len(w) /\ DOMAIN s = 1 .. Len(s)
  BY <1>2
<1> SUFFICES ASSUME NEW j \in DOMAIN w
             PROVE  /\ w[j].i >= 1
                    /\ w[j].i > 1 => /\ j > 1
                                     /\ w[j - 1] = [w[j] EXCEPT !.i = w[j].i - 1]
                    /\ w[j].i < Size[w[j].kind] => j < Len(w)
  BY <1>1 DEF WholePackets
<1>4. CASE j \in DOMAIN s
  <2>1. /\ s[j].i >= 1
        /\ s[j].i > 1 => j > 1 /\ s[j - 1] = [s[j] EXCEPT !.i = s[j].i - 1]
        /\ s[j].i < Size[s[j].kind] => j < Len(s)
    BY <1>1, <1>4 DEF WholePackets
  <2>2. j > 1 => j - 1 \in DOMAIN s
    BY <1>2, <1>3, <1>4
  <2>3. w[j] = s[j] /\ (j > 1 => w[j - 1] = s[j - 1])
    BY <1>2, <1>4, <2>2
  <2>4. j < Len(s) => j < Len(w)
    BY <1>2, <1>3, <1>4
  <2> QED
    BY <2>1, <2>3, <2>4
<1>5. CASE j \notin DOMAIN s
  <2>1. PICK i \in 1 .. n : j = Len(s) + i /\ w[j] = CellOf(t, First(t), i)
    BY <1>2, <1>5
  <2>2. w[j].i = i /\ w[j].kind = First(t).kind /\ i \in Nat
    BY <1>2, <2>1 DEF CellOf
  <2>3. ASSUME i > 1 PROVE j > 1 /\ w[j - 1] = [w[j] EXCEPT !.i = i - 1]
    <3>1. i - 1 \in 1 .. n /\ j - 1 = Len(s) + (i - 1) /\ j > 1
      BY <1>2, <2>1, <2>3
    <3>2. w[j - 1] = CellOf(t, First(t), i - 1)
      BY <1>2, <3>1
    <3>3. CellOf(t, First(t), i - 1) = [CellOf(t, First(t), i) EXCEPT !.i = i - 1]
      BY DEF CellOf
    <3> QED
      BY <2>1, <3>1, <3>2, <3>3
  <2>4. i < n => j < Len(w)
    BY <1>2, <2>1
  <2> QED
    BY <1>1, <2>1, <2>2, <2>3, <2>4
<1> QED
  BY <1>4, <1>5

LEMMA EmptyWhole == WholePackets(<<>>)
<1>1. DOMAIN <<>> = {}
  OBVIOUS
<1> QED
  BY <1>1 DEF WholePackets

(***************************************************************************)
(* The packets the library has yet to make: those of registry entries with *)
(* higher numbers, or that the loops over the registries have yet to       *)
(* reach; those of the end of the session; the attachments of the modules  *)
(* that are still on.  None of them is in the stream or waiting.           *)
(***************************************************************************)

(* The session has not begun to end.                                       *)
Ends == ~exited /\ \A t \in Threads : ~Op(t, "close") /\ ~Op(t, "clear")
Final(kind, id) == kind \in {"HI", "AT"} \/ (kind = "NL" /\ id = 1)
(* enable_tracing(false) has yet to write attachment id.                   *)
Attaches(d, id) ==
    /\ Disables(d)
    /\ \E m \in TracingModules :
          /\ moduleOn[m] /\ id \in {2 * m, 2 * m + 1}
          /\ ~(d.kind = "AT" /\ d.n \in 1 .. modules /\ moduleAt[d.n] = m)
Makes(s, kind, id) ==
    \/ kind = "MI" /\ s.op = "modules" /\ s.n <= id
    \/ kind = "RR" /\ s.op = "resources" /\ s.n <= id
    \/ kind = "HI" /\ s.op = "heapinfo"
    \/ kind = "AT" /\ Attaches(s, id)
Future(kind, id) ==
    \/ kind = "MI" /\ id > modules
    \/ kind = "RR" /\ id > resources
    \/ Final(kind, id) /\ Ends
    \/ \E t \in Threads : \E s \in Steps(t) : Makes(s, kind, id)
Sent(X, kind, id) == \E j \in DOMAIN X : X[j].kind = kind /\ X[j].id = id /\ X[j].n = 0
Taken(kind, id) ==
    \/ \E t \in Threads : Packet(kind, id, 0) \in Steps(t)
    \/ Live /\ Sent(Stream, kind, id)
Ahead ==
    /\ \A t \in Threads : Op(t, "heapinfo") => Op(t, "close")
    /\ fd_proc > 0 => \A kind \in Kinds : \A id \in Nat : ~(Future(kind, id) /\ Taken(kind, id))

(* A step that is still to come has a higher rank than the first.          *)
LEMMA RankAhead ==
    ASSUME Calm, NEW t \in Threads, ~Idle(t), NEW s \in Later(t)
    PROVE  /\ Rank(First(t)) \in Int
           /\ s.op = "modules" => Rank(First(t)) < 12
           /\ s.op = "resources" => Rank(First(t)) < 14
           /\ s.op = "heapinfo" => Rank(First(t)) < 2
           /\ Disables(s) => Rank(First(t)) < 4
           /\ s.op = "packet" => Rank(First(t)) < 16
           /\ s.op = "packet" /\ s.kind = "HS" => Rank(First(t)) < 7
<1>1. s \in Step /\ First(t) \in Step
  BY InvStack, Views DEF Calm
<1>2. /\ Rank(First(t)) \in Int /\ Rank(s) \in Int
      /\ \/ Rank(First(t)) < Rank(s)
         \/ First(t).op = "resource" /\ s.op = "resource"
         \/ Rank(First(t)) = 3 /\ Rank(s) = 3
  BY RankLater
<1>3. /\ s.op = "modules" => Rank(s) = 12
      /\ s.op = "resources" => Rank(s) = 14
      /\ s.op = "heapinfo" => Rank(s) = 2
      /\ Disables(s) => Rank(s) = 4
      /\ s.op = "packet" => Rank(s) \in 0 .. 15
      /\ s.op = "packet" /\ s.kind = "HS" => Rank(s) = 7
  BY <1>1, Ranks DEF Disables
<1> QED
  BY <1>2, <1>3 DEF Disables

(* Which steps of a session make packets.                                  *)
LEMMA MakingSteps ==
    ASSUME Calm, NEW t \in Threads, Progress(t), fd_proc > 0
    PROVE  /\ ~OpenPipe(t) /\ StepsKept(t)
           /\ \/ /\ Steps(t)' \subseteq Steps(t)
                 /\ UNCHANGED <<modules, resources, moduleOn, moduleAt>>
              \/ WriteRegistries(t) \/ EnableModule(t) \/ RegisterModule(t)
              \/ RegisterResource(t) \/ HeapInfo(t)
<1>1. ~OpenPipe(t)
  <2> SUFFICES ASSUME OpenPipe(t) PROVE FALSE
    OBVIOUS
  <2>1. ~Idle(t)
    BY ProgressOthers
  <2>2. First(t).op \in {"open", "openinit"} /\ First(t) \in Steps(t)
    BY <2>1, OpenPipeEffect, InvStack, Views DEF Calm
  <2>3. fd_proc <= 0 /\ fd_proc \in Int
    BY <2>2 DEF Calm, Control, Doing, Opens, Inv, TypeOK, PipeTypes
  <2> QED
    BY <2>3
<1>2. StepsKept(t)
  BY <1>1, ProgressKept
<1>3. ASSUME SameSteps(t) \/ (OnBottom(t) /\ Skipped(t)) PROVE Steps(t)' \subseteq Steps(t)
  <2>1. CASE SameSteps(t)
    BY <2>1 DEF SameSteps
  <2>2. CASE OnBottom(t) /\ Skipped(t)
    <3>1. Later(t) \subseteq Steps(t)
      BY <2>2, InvStack, Views DEF OnBottom, Calm
    <3> QED
      BY <2>2, <3>1 DEF Skipped
  <2> QED
    BY <1>3, <2>1, <2>2
<1>4. ASSUME ~Idle(t), ~Idle(t)', stack'[t][1] = stack[t][1] PROVE Steps(t)' \subseteq Steps(t)
  BY <1>4 DEF Steps
<1>5. CASE CheckEnable(t)
  <2>1. UNCHANGED <<modules, resources, moduleOn, moduleAt>>
    BY <1>5 DEF CheckEnable, registryVars
  <2>2. CASE OnInner(t)
    <3>1. ~OnBottom(t) /\ ~Idle(t)
      BY <2>2 DEF OnBottom, OnInner
    <3>2. Len(stack'[t]) = 2 /\ stack'[t][1] = stack[t][1]
      BY <1>5, <3>1, CheckEnableEffect
    <3>3. ~Idle(t)'
      BY <3>2 DEF Idle
    <3> QED
      BY <1>1, <1>2, <1>4, <2>1, <3>1, <3>2, <3>3
  <2>3. CASE ~OnInner(t)
    BY <1>1, <1>2, <1>3, <1>5, <2>1, <2>3, CheckEnableEffect
  <2> QED
    BY <2>2, <2>3
<1>6. CASE Lock(t) \/ Unlock(t) \/ CopyCell(t) \/ Release(t)
  <2>1. UNCHANGED <<modules, resources, moduleOn, moduleAt>>
    BY <1>6 DEF Lock, LockAndFill, Unlock, CopyCell, Release, registryVars
  <2> QED
    BY <1>1, <1>2, <1>3, <1>6, <2>1, LockEffect, UnlockEffect, CopyCellEffect, ReleaseEffect
<1>7. CASE WriteSent(t) \/ DisableAfterError(t) \/ Rewind(t)
  <2>1. UNCHANGED <<modules, resources, moduleOn, moduleAt>>
    BY <1>7 DEF WriteSent, DisableAfterError, Rewind, registryVars
  <2> QED
    BY <1>1, <1>2, <1>3, <1>7, <2>1, WriteSentEffect, DisableAfterErrorEffect, RewindEffect
<1>8. CASE WriteFailed(t)
  <2>1. UNCHANGED <<modules, resources, moduleOn, moduleAt>>
    BY <1>8 DEF WriteFailed, registryVars
  <2>2. Steps(t)' = Steps(t)
    BY <1>8, WriteFailedEffect
  <2> QED
    BY <1>1, <1>2, <2>1, <2>2
<1>9. CASE Reset(t) \/ StoreHeapInfo(t) \/ ClosePipe(t) \/ ClearPipe(t) \/ Ready(t)
  <2>1. UNCHANGED <<modules, resources, moduleOn, moduleAt>>
    BY <1>9 DEF Reset, StoreHeapInfo, ClosePipe, ClearPipe, Ready, registryVars
  <2> QED
    BY <1>1, <1>2, <1>3, <1>9, <2>1, ReturnEffects
<1> QED
  BY <1>1, <1>2, <1>5, <1>6, <1>7, <1>8, <1>9 DEF Progress

(* A thread with a step that only the library takes is alone.              *)
LEMMA MakerAlone ==
    ASSUME Calm, NEW t \in Threads, ~Idle(t), NEW u \in Threads, NEW s \in Steps(u),
           s.op \notin {"packet", "store"}
    PROVE  u = t
<1>1. Solo(u)
  BY SoloSteps
<1> QED
  BY <1>1 DEF Calm, Shape, Apart

(* The end of a session is never taken back while its pipe is in use.      *)
LEMMA EndsBefore ==
    ASSUME Calm, Calm', NEW t \in Threads, Progress(t), fd_proc > 0, fd_proc' > 0, Ends'
    PROVE  Ends
<1>1. Others(t) /\ ~Idle(t) /\ StepsKept(t)
  BY ProgressOthers, MakingSteps
<1>2. exited' = exited
  BY DEF Progress, CheckEnable, Lock, LockAndFill, Unlock, CopyCell, Release, WriteSent,
         WriteFailed, DisableAfterError, Rewind, OpenPipe, Reset, WriteRegistries, EnableModule,
         RegisterModule, RegisterResource, HeapInfo, StoreHeapInfo, ClosePipe, ClearPipe,
         Ready, lifeVars
<1>3. ASSUME NEW u \in Threads PROVE ~Op(u, "close") /\ ~Op(u, "clear")
  <2>1. CASE u # t
    BY <1>1, <2>1, SameStack DEF Ends, Others
  <2>2. CASE u = t
    <3>1. ~Op(t, "clear")
      <4> SUFFICES ASSUME NEW s \in Steps(t), s.op = "clear" PROVE FALSE
        BY DEF Op
      <4>1. s \notin Steps(t)'
        BY DEF Ends, Op
      <4>2. First(t).op = "clear"
        BY <1>1, <4>1 DEF StepsKept
      <4>3. At(t) = "start"
        BY <1>1, <4>2, PlainPlace
      <4>4. Current(t) = First(t)
        BY <1>1, <4>3, WhichActivation DEF OnInner, Idle, OnBottom
      <4>5. ClearPipe(t)
        BY <4>2, <4>4
        DEF Progress, CheckEnable, Lock, LockAndFill, Unlock, CopyCell, Release, WriteSent,
            WriteFailed, DisableAfterError, Rewind, OpenPipe, Reset, WriteRegistries,
            EnableModule, RegisterModule, RegisterResource, HeapInfo, StoreHeapInfo, ClosePipe,
            Ready, Running, AtWrite, Flushing
      <4>6. fd_proc' \in {0, -1}
        BY <4>5, ReturnEffects
      <4> QED
        BY <4>6
    <3>2. ~Op(t, "close")
      <4> SUFFICES ASSUME Op(t, "close") PROVE FALSE
        OBVIOUS
      <4>1. exited
        BY <3>1 DEF Calm, Control, Doing
      <4> QED
        BY <1>2, <4>1 DEF Ends
    <3> QED
      BY <2>2, <3>1, <3>2
  <2> QED
    BY <2>1, <2>2
<1> QED
  BY <1>2, <1>3 DEF Ends

LEMMA WriteRegistriesFuture ==
    ASSUME Calm, NEW t \in Threads, WriteRegistries(t), NEW kind \in Kinds, NEW id \in Nat,
           NEW s \in Steps(t)', Makes(s, kind, id)'
    PROVE  \E r \in Steps(t) : Makes(r, kind, id)
<1>1. UNCHANGED <<modules, resources, moduleOn, moduleAt>>
  BY DEF WriteRegistries, registryVars
<1>2. Makes(s, kind, id)
  BY <1>1 DEF Makes, Attaches
<1>3. OnBottom(t) /\ First(t).op \in {"modules", "resources"} /\ ~Idle(t)
  BY WriteRegistriesEffect DEF OnBottom
<1>4. First(t) \in Step /\ Steps(t) = {First(t)} \cup Later(t)
  BY <1>3, InvStack, Views DEF Calm
<1>5. CASE s \in Later(t)
  BY <1>2, <1>4, <1>5
<1>6. CASE s \notin Later(t)
  <2>1. ~Skipped(t)
    BY <1>6 DEF Skipped
  <2>2. PICK k, p, q : /\ p = Packet(k, First(t).n, 0)
                       /\ q = [First(t) EXCEPT !.n = First(t).n + 1]
                       /\ Steps(t)' = {p, q} \cup Later(t)
    BY <2>1, WriteRegistriesEffect
  <2>3. p.op = "packet" /\ q.op = First(t).op /\ q.n = First(t).n + 1 /\ First(t).n \in Nat
    BY <1>4, <2>2 DEF Packet, Step
  <2>4. s.op # "packet"
    BY <1>2 DEF Makes, Attaches, Disables
  <2>5. s = q
    BY <1>6, <2>2, <2>3, <2>4
  <2>6. Makes(First(t), kind, id)
    BY <1>2, <1>3, <2>3, <2>5 DEF Makes, Attaches, Disables
  <2> QED
    BY <1>4, <2>6
<1> QED
  BY <1>5, <1>6

(* A step that replaces a step by packets, or drops it.                    *)
LEMMA PacketFuture ==
    ASSUME Calm, NEW t \in Threads, OnBottom(t), NEW kind \in Kinds, NEW id \in Nat,
           NEW s \in Steps(t)', Makes(s, kind, id)', s.op # "packet" => s \in Later(t),
           Rank(First(t)) >= 4 \/ UNCHANGED <<modules, moduleOn, moduleAt>>
    PROVE  \E r \in Steps(t) : Makes(r, kind, id)
<1>1. s.op # "packet"
  BY DEF Makes, Attaches, Disables
<1>2. s \in Later(t) /\ s \in Steps(t) /\ ~Idle(t)
  BY <1>1, InvStack, Views DEF Calm, OnBottom
<1>3. Disables(s) => UNCHANGED <<modules, moduleOn, moduleAt>>
  BY <1>2, RankAhead
<1>4. Makes(s, kind, id)
  BY <1>3 DEF Makes, Attaches
<1> QED
  BY <1>2, <1>4

(* One step of an enable_tracing that no flush called.                     *)
LEMMA EnableBottomEffect ==
    ASSUME Calm, NEW t \in Threads, EnableModule(t), ~OnInner(t)
    PROVE  \E d \in Step : \E more \in Seq(Step) :
              /\ d.op = "enable" /\ d.n >= 1 /\ d.id \in {0, 1}
              /\ First(t) = d /\ MovedOn(t, more)
              /\ \/ /\ d.n > modules /\ Elements(more) = {} /\ UNCHANGED moduleOn
                 \/ /\ d.n <= modules /\ d.id = 0 /\ moduleAt[d.n] \in Nat
                    /\ moduleOn[moduleAt[d.n]] /\ d.kind # "AT"
                    /\ Elements(more) = Attach(moduleAt[d.n], d) /\ UNCHANGED moduleOn
                 \/ /\ d.n <= modules /\ Onward(d) \in Step
                    /\ Elements(more) = {Onward(d)}
                    /\ moduleOn' = [moduleOn EXCEPT ![moduleAt[d.n]] = (d.id = 1)]
<1>1. PICK s \in Step : \E more \in Seq(Step) :
              /\ s = Current(t) /\ s.op = "enable" /\ s.n >= 1 /\ s.id \in {0, 1}
              /\ \/ /\ OnBottom(t) /\ First(t) = s /\ MovedOn(t, more)
                 \/ /\ OnInner(t) /\ s.id = 0 /\ Others(t) /\ ~Idle(t)'
                    /\ stack'[t][1] = stack[t][1]
                    /\ Inner(t)' = Elements(more) \cup InnerLater(t)
                    /\ Inner(t) = {s} \cup InnerLater(t)
                    /\ Len(stack'[t]) \in {1, 2}
                    /\ Len(stack'[t]) = 2 => /\ stack'[t][2].at = "start"
                                             /\ stack'[t][2].why = "call"
              /\ \/ /\ s.n > modules /\ Elements(more) = {} /\ UNCHANGED moduleOn
                 \/ /\ s.n <= modules /\ s.id = 0 /\ moduleAt[s.n] \in Nat
                    /\ moduleOn[moduleAt[s.n]] /\ s.kind # "AT"
                    /\ Elements(more) = Attach(moduleAt[s.n], s) /\ UNCHANGED moduleOn
                    /\ more[1].op = "packet" /\ more # <<>>
                 \/ /\ s.n <= modules /\ Onward(s) \in Step
                    /\ Elements(more) = {Onward(s)}
                    /\ moduleOn' = [moduleOn EXCEPT ![moduleAt[s.n]] = (s.id = 1)]
                    /\ more # <<>> /\ more[1] = Onward(s)
  BY EnableModuleEffect
<1>2. PICK more \in Seq(Step) :
              /\ s = Current(t) /\ s.op = "enable" /\ s.n >= 1 /\ s.id \in {0, 1}
              /\ \/ /\ OnBottom(t) /\ First(t) = s /\ MovedOn(t, more)
                 \/ /\ OnInner(t) /\ s.id = 0 /\ Others(t) /\ ~Idle(t)'
                    /\ stack'[t][1] = stack[t][1]
                    /\ Inner(t)' = Elements(more) \cup InnerLater(t)
                    /\ Inner(t) = {s} \cup InnerLater(t)
                    /\ Len(stack'[t]) \in {1, 2}
                    /\ Len(stack'[t]) = 2 => /\ stack'[t][2].at = "start"
                                             /\ stack'[t][2].why = "call"
              /\ \/ /\ s.n > modules /\ Elements(more) = {} /\ UNCHANGED moduleOn
                 \/ /\ s.n <= modules /\ s.id = 0 /\ moduleAt[s.n] \in Nat
                    /\ moduleOn[moduleAt[s.n]] /\ s.kind # "AT"
                    /\ Elements(more) = Attach(moduleAt[s.n], s) /\ UNCHANGED moduleOn
                    /\ more[1].op = "packet" /\ more # <<>>
                 \/ /\ s.n <= modules /\ Onward(s) \in Step
                    /\ Elements(more) = {Onward(s)}
                    /\ moduleOn' = [moduleOn EXCEPT ![moduleAt[s.n]] = (s.id = 1)]
                    /\ more # <<>> /\ more[1] = Onward(s)
  BY <1>1
<1>3. s.op = "enable" /\ s.n >= 1 /\ s.id \in {0, 1} /\ First(t) = s /\ MovedOn(t, more)
  BY <1>2
<1> QED
  BY <1>2, <1>3

LEMMA EnableModuleFuture ==
    ASSUME Calm, NEW t \in Threads, EnableModule(t), OnBottom(t), NEW kind \in Kinds,
           NEW id \in Nat, NEW s \in Steps(t)', Makes(s, kind, id)'
    PROVE  (\E r \in Steps(t) : Makes(r, kind, id)) \/ (kind = "AT" /\ First(t).id = 1)
<1>0. ~OnInner(t) /\ ~Idle(t)
  BY DEF OnInner, OnBottom
<1>1. PICK d \in Step : \E more \in Seq(Step) :
              /\ d.op = "enable" /\ d.n >= 1 /\ d.id \in {0, 1}
              /\ First(t) = d /\ MovedOn(t, more)
              /\ \/ /\ d.n > modules /\ Elements(more) = {} /\ UNCHANGED moduleOn
                 \/ /\ d.n <= modules /\ d.id = 0 /\ moduleAt[d.n] \in Nat
                    /\ moduleOn[moduleAt[d.n]] /\ d.kind # "AT"
                    /\ Elements(more) = Attach(moduleAt[d.n], d) /\ UNCHANGED moduleOn
                 \/ /\ d.n <= modules /\ Onward(d) \in Step
                    /\ Elements(more) = {Onward(d)}
                    /\ moduleOn' = [moduleOn EXCEPT ![moduleAt[d.n]] = (d.id = 1)]
  BY <1>0, EnableBottomEffect
<1>2. UNCHANGED <<modules, moduleAt>>
  BY DEF EnableModule
<1>3. Steps(t) = {d} \cup Later(t) /\ modules \in Nat /\ moduleOn \in [TracingModules -> BOOLEAN]
  BY <1>0, <1>1, InvStack, Views DEF Calm, Inv, TypeOK, RegistryTypes
<1>4. d.id = 0 => \A r \in Later(t) : ~Disables(r)
  <2>1. d.id = 0 => Rank(First(t)) = 4
    BY <1>1, Ranks
  <2> QED
    BY <1>0, <2>1, RankAhead
<1>5. \A r \in Steps(t)' : r \in Later(t) \/ r.op \in {"packet", "enable"}
  <2>1. Onward(d).op = "enable" /\ \A r \in Attach(moduleAt[d.n], d) : r.op \in {"packet", "enable"}
    BY <1>1 DEF Onward, Attach, Packet, Step
  <2> QED
    BY <1>1, <2>1 DEF MovedOn
<1>6. CASE kind # "AT"
  <2>1. s.op \notin {"packet", "enable"} /\ Makes(s, kind, id)
    BY <1>2, <1>6 DEF Makes, EnableModule
  <2> QED
    BY <1>3, <1>5, <2>1
<1>7. CASE kind = "AT" /\ d.id = 0
  <2>1. Attaches(s, id)' /\ s.op = "enable" /\ s.id = 0
    BY <1>7 DEF Makes, Attaches, Disables
  <2>2. s \notin Later(t)
    BY <1>4, <1>7, <2>1 DEF Attaches, Disables
  <2>3. PICK m \in TracingModules :
              /\ moduleOn'[m] /\ id \in {2 * m, 2 * m + 1}
              /\ ~(s.kind = "AT" /\ s.n \in 1 .. modules /\ moduleAt[s.n] = m)
    BY <1>2, <2>1 DEF Attaches
  <2>4. moduleOn[m] /\ ~(d.kind = "AT" /\ d.n \in 1 .. modules /\ moduleAt[d.n] = m)
    <3>1. CASE d.kind # "AT" /\ moduleOn' = moduleOn
      BY <2>3, <3>1
    <3>2. CASE moduleOn' = [moduleOn EXCEPT ![moduleAt[d.n]] = (d.id = 1)]
      <4>1. ~(d.id = 1)
        BY <1>7
      <4>2. CASE moduleAt[d.n] = m
        BY <1>3, <2>3, <3>2, <4>1, <4>2
      <4>3. CASE moduleAt[d.n] # m
        <5>1. moduleOn'[m] = moduleOn[m]
          BY <1>3, <3>2, <4>3
        <5> QED
          BY <2>3, <4>3, <5>1
      <4> QED
        BY <4>2, <4>3
    <3>3. CASE d.n > modules /\ Steps(t)' = Later(t)
      BY <2>2, <3>3
    <3>4. d.n > modules /\ (\E more : Elements(more) = {} /\ MovedOn(t, more)) => Steps(t)' = Later(t)
      BY DEF MovedOn
    <3> QED
      BY <1>1, <3>1, <3>2, <3>3, <3>4
  <2>5. Attaches(d, id)
    BY <1>1, <1>7, <2>3, <2>4 DEF Attaches, Disables
  <2> QED
    BY <1>3, <1>7, <2>5 DEF Makes
<1> QED
  BY <1>1, <1>6, <1>7

(* What is yet to be made was so before the step.                          *)
LEMMA FutureBefore ==
    ASSUME Calm, Calm', NEW t \in Threads, Progress(t), fd_proc > 0, fd_proc' > 0,
           NEW kind \in Kinds, NEW id \in Nat, Future(kind, id)'
    PROVE  Future(kind, id)
<1>1. Others(t) /\ ~Idle(t) /\ StepsKept(t)
  BY ProgressOthers, MakingSteps
<1>2. /\ modules \in Nat /\ resources \in Nat
      /\ modules' \in {modules, modules + 1} /\ resources' \in {resources, resources + 1}
  <2>1. modules \in Nat /\ resources \in Nat
    BY RegistryAssumption DEF Calm, Inv, TypeOK, RegistryTypes
  <2>2. modules' = modules \/ RegisterModule(t)
    BY MakingSteps DEF WriteRegistries, EnableModule, RegisterResource, HeapInfo, registryVars
  <2>3. resources' = resources \/ RegisterResource(t)
    BY MakingSteps DEF WriteRegistries, EnableModule, RegisterModule, HeapInfo, registryVars
  <2> QED
    BY <2>1, <2>2, <2>3, RegisterModuleEffect, RegisterResourceEffect
<1>3. CASE kind = "MI" /\ id > modules'
  BY <1>2, <1>3 DEF Future
<1>4. CASE kind = "RR" /\ id > resources'
  BY <1>2, <1>4 DEF Future
<1>5. CASE Final(kind, id) /\ Ends'
  BY <1>5, EndsBefore DEF Future
<1>6. ASSUME NEW u \in Threads, NEW s \in Steps(u)', Makes(s, kind, id)'
      PROVE  Future(kind, id)
  <2>1. s.op \notin {"packet", "store"}
    BY <1>6 DEF Makes, Attaches, Disables
  <2>2. u = t
    <3> SUFFICES ASSUME u # t PROVE FALSE
      OBVIOUS
    <3>1. s \in Steps(u)
      BY <1>1, <1>6, SameStack DEF Others
    <3> QED
      BY <1>1, <2>1, <3>1, MakerAlone
  <2>3. ASSUME NEW r \in Steps(t), Makes(r, kind, id) PROVE Future(kind, id)
    BY <2>3 DEF Future
  <2>4. CASE Steps(t)' \subseteq Steps(t) /\ UNCHANGED <<modules, resources, moduleOn, moduleAt>>
    <3>1. Makes(s, kind, id)
      BY <1>6, <2>4 DEF Makes, Attaches
    <3> QED
      BY <1>6, <2>2, <2>3, <2>4, <3>1
  <2>5. CASE WriteRegistries(t)
    BY <1>6, <2>2, <2>3, <2>5, WriteRegistriesFuture
  <2>6. CASE EnableModule(t)
    <3>1. OnBottom(t)
      <4> SUFFICES ASSUME ~OnBottom(t) PROVE FALSE
        OBVIOUS
      <4>1. At(t) = "fail"
        BY <1>1, WhichActivation DEF Idle, OnInner
      <4>2. fd_proc = -1
        BY <4>1 DEF Calm, Control, Doing
      <4> QED
        BY <4>2
    <3>2. CASE kind = "AT" /\ First(t).id = 1
      <4>1. First(t) \in Steps(t) /\ First(t).op = "enable"
        BY <1>1, <2>6, <3>1, InvStack, Views DEF Calm, EnableModule, Running, OnBottom
      <4>2. Enables(First(t))
        BY <3>2, <4>1 DEF Enables
      <4>3. ~Op(t, "clear") /\ ~Op(t, "close") /\ ~exited
        BY <4>1, <4>2 DEF Calm, Control, Doing
      <4>4. \A w \in Threads : ~Op(w, "close") /\ ~Op(w, "clear")
        BY <1>1, <4>3, MakerAlone DEF Op
      <4> QED
        BY <3>2, <4>3, <4>4 DEF Future, Ends, Final
    <3> QED
      BY <1>6, <2>2, <2>3, <2>6, <3>1, <3>2, EnableModuleFuture
  <2>7. CASE RegisterModule(t)
    <3>1. OnBottom(t) /\ First(t).op = "register"
      BY <2>7, RegisterModuleEffect
    <3>2. Rank(First(t)) = 19
      BY <1>1, <3>1, Ranks, InvStack, Views DEF Calm
    <3>3. s \in Later(t)
      <4>1. \/ Steps(t)' = Later(t)
            \/ Steps(t)' = {Packet("MI", modules + 1, 0)} \cup Later(t)
        BY <2>7, RegisterModuleEffect DEF Skipped
      <4> QED
        BY <1>6, <2>1, <2>2, <4>1 DEF Packet
    <3> QED
      BY <1>6, <2>2, <2>3, <3>1, <3>2, <3>3, PacketFuture
  <2>8. CASE RegisterResource(t)
    <3>1. OnBottom(t) /\ First(t).op = "resource"
      BY <2>8, RegisterResourceEffect
    <3>2. Rank(First(t)) = 20
      BY <1>1, <3>1, Ranks, InvStack, Views DEF Calm
    <3>3. s \in Later(t)
      <4>1. \/ Steps(t)' = Later(t)
            \/ Steps(t)' = {Packet("RR", resources + 1, 0)} \cup Later(t)
        BY <2>8, RegisterResourceEffect DEF Skipped
      <4> QED
        BY <1>6, <2>1, <2>2, <4>1 DEF Packet
    <3> QED
      BY <1>6, <2>2, <2>3, <3>1, <3>2, <3>3, PacketFuture
  <2>9. CASE HeapInfo(t)
    <3>1. OnBottom(t) /\ UNCHANGED <<modules, moduleOn, moduleAt>>
      BY <2>9, HeapInfoEffect DEF HeapInfo, registryVars
    <3>3. s \in Later(t)
      <4>1. \/ Steps(t)' = Later(t)
            \/ Steps(t)' = {Packet("HI", 0, 0)} \cup Later(t)
        BY <2>9, HeapInfoEffect DEF Skipped
      <4> QED
        BY <1>6, <2>1, <2>2, <4>1 DEF Packet
    <3> QED
      BY <1>6, <2>2, <2>3, <3>1, <3>3, PacketFuture
  <2> QED
    BY <2>4, <2>5, <2>6, <2>7, <2>8, <2>9, MakingSteps
<1> QED
  BY <1>3, <1>4, <1>5, <1>6 DEF Future

(* A step that makes a packet of the library takes it out of the future.   *)
LEMMA RegistryMade ==
    ASSUME Calm, NEW t \in Threads, NEW kind \in {"MI", "RR"}, NEW id \in Nat, ~Idle(t), Others(t),
           NEW op, op = IF kind = "MI" THEN "modules" ELSE "resources",
           id <= IF kind = "MI" THEN modules' ELSE resources',
           \A s \in Steps(t)' : s.op = op => id < s.n /\ s.n \in Nat,
           modules' \in Nat, resources' \in Nat
    PROVE  ~Future(kind, id)'
<1>1. ASSUME NEW u \in Threads, NEW s \in Steps(u)', Makes(s, kind, id)' PROVE FALSE
  <2>1. s.op = op /\ s.n <= id
    BY <1>1 DEF Makes
  <2>2. CASE u = t
    BY <1>1, <2>1, <2>2
  <2>3. CASE u # t
    <3>1. s \in Steps(u)
      BY <1>1, <2>3, SameStack DEF Others
    <3> QED
      BY <2>1, <2>3, <3>1, MakerAlone
  <2> QED
    BY <2>2, <2>3
<1>2. ~Final(kind, id)
  BY DEF Final
<1> QED
  BY <1>1, <1>2 DEF Future

LEMMA EndingMade ==
    ASSUME NEW t \in Threads, Op(t, "close")' PROVE ~Ends'
BY DEF Ends

LEMMA AttachmentMade ==
    ASSUME Calm, NEW t \in Threads, Progress(t), EnableModule(t), fd_proc > 0,
           NEW s \in Steps(t)', s \notin Steps(t), s.op = "packet"
    PROVE  /\ s.n = 0 /\ s.kind \in Kinds /\ s.id \in Nat
           /\ Future(s.kind, s.id) /\ ~Future(s.kind, s.id)'
<1>1. Others(t) /\ ~Idle(t) /\ StepsKept(t)
  BY ProgressOthers, MakingSteps
<1>2. ~OnInner(t)
  <2> SUFFICES ASSUME OnInner(t) PROVE FALSE
    OBVIOUS
  <2>1. At(t) = "fail"
    BY DEF OnInner
  <2>2. fd_proc = -1
    BY <2>1 DEF Calm, Control, Doing
  <2> QED
    BY <2>2
<1>3. PICK d \in Step : \E more \in Seq(Step) :
              /\ d.op = "enable" /\ d.n >= 1 /\ d.id \in {0, 1}
              /\ First(t) = d /\ MovedOn(t, more)
              /\ \/ /\ d.n > modules /\ Elements(more) = {} /\ UNCHANGED moduleOn
                 \/ /\ d.n <= modules /\ d.id = 0 /\ moduleAt[d.n] \in Nat
                    /\ moduleOn[moduleAt[d.n]] /\ d.kind # "AT"
                    /\ Elements(more) = Attach(moduleAt[d.n], d) /\ UNCHANGED moduleOn
                 \/ /\ d.n <= modules /\ Onward(d) \in Step
                    /\ Elements(more) = {Onward(d)}
                    /\ moduleOn' = [moduleOn EXCEPT ![moduleAt[d.n]] = (d.id = 1)]
  BY <1>2, EnableBottomEffect
<1>4. Steps(t) = {d} \cup Later(t) /\ modules \in Nat /\ d.n \in Nat /\ d \in Steps(t)
  BY <1>1, <1>3, InvStack, Views, RegistryAssumption DEF Calm, Inv, TypeOK, RegistryTypes, Step
<1>5. Onward(d).op = "enable"
  BY <1>3 DEF Onward, Step
<1>6. PICK m : m = moduleAt[d.n]
  OBVIOUS
<1>7. /\ d.n <= modules /\ d.id = 0 /\ m \in Nat
      /\ moduleOn[m] /\ d.kind # "AT" /\ moduleOn' = moduleOn
      /\ Steps(t)' = Attach(m, d) \cup Later(t)
  BY <1>3, <1>4, <1>5, <1>6 DEF MovedOn
<1>8. m \in TracingModules /\ d.n \in 1 .. modules
  BY <1>3, <1>4, <1>6, <1>7 DEF Calm, Control, Standing
<1>9. PICK e : e = [d EXCEPT !.kind = "AT"]
  OBVIOUS
<1>10. e.op = "enable" /\ e.id = 0 /\ e.n = d.n /\ e.kind = "AT"
  BY <1>3, <1>7, <1>9 DEF Step
<1>11. s \in {Packet("AT", 2 * m, 0), Packet("AT", 2 * m + 1, 0)}
  BY <1>4, <1>7, <1>9, <1>10 DEF Attach
<1>12. s.n = 0 /\ s.kind = "AT" /\ s.id \in {2 * m, 2 * m + 1}
  BY <1>11 DEF Packet
<1>13. Future("AT", s.id)
  <2>1. Attaches(d, s.id)
    BY <1>3, <1>7, <1>8, <1>12 DEF Attaches, Disables
  <2> QED
    BY <1>4, <2>1 DEF Future, Makes
<1>14. UNCHANGED <<modules, moduleAt>>
  BY DEF EnableModule
<1>15. ~Ends'
  <2>1. Disables(d)
    BY <1>3, <1>7 DEF Disables
  <2>2. Op(t, "nopipe") \/ Op(t, "close")
    BY <1>4, <2>1 DEF Calm, Control, Doing
  <2>3. ~Op(t, "nopipe")
    <3> SUFFICES ASSUME NEW r \in Steps(t), r.op = "nopipe" PROVE FALSE
      BY DEF Op
    <3>1. fd_proc <= 0 /\ fd_proc \in Int
      BY DEF Calm, Control, Doing, Opens, Inv, TypeOK, PipeTypes
    <3> QED
      BY <3>1
  <2>4. PICK r \in Steps(t) : r.op = "close"
    BY <2>2, <2>3 DEF Op
  <2>5. r \in Steps(t)'
    BY <1>1, <1>3, <2>4 DEF StepsKept
  <2> QED
    BY <2>4, <2>5, EndingMade DEF Op
<1>16. ASSUME NEW u \in Threads, NEW r \in Steps(u)', Makes(r, "AT", s.id)' PROVE FALSE
  <2>1. Attaches(r, s.id)' /\ r.op = "enable" /\ Disables(r)
    BY <1>16 DEF Makes, Attaches, Disables
  <2>2. u = t
    <3> SUFFICES ASSUME u # t PROVE FALSE
      OBVIOUS
    <3>1. r \in Steps(u)
      BY <1>1, <1>16, SameStack DEF Others
    <3> QED
      BY <1>1, <2>1, <3>1, MakerAlone
  <2>3. r \notin Later(t)
    <3>1. Rank(First(t)) = 4
      BY <1>3, <1>7, Ranks
    <3> QED
      BY <1>1, <2>1, <3>1, RankAhead
  <2>4. \A x \in Attach(m, d) : x = e \/ x.op = "packet"
    BY <1>9 DEF Attach, Packet
  <2>5. r = e
    BY <1>7, <1>16, <2>1, <2>2, <2>3, <2>4
  <2>6. PICK k \in TracingModules :
              /\ s.id \in {2 * k, 2 * k + 1}
              /\ ~(r.kind = "AT" /\ r.n \in 1 .. modules /\ moduleAt[r.n] = k)
    BY <1>14, <2>1 DEF Attaches
  <2>7. k \in Nat
    BY RegistryAssumption DEF TracingModules
  <2>8. k = m
    BY <1>7, <1>12, <2>6, <2>7
  <2> QED
    BY <1>6, <1>8, <1>10, <2>5, <2>6, <2>8
<1>17. ~Future("AT", s.id)'
  BY <1>15, <1>16 DEF Future
<1>18. s.kind \in Kinds /\ s.id \in Nat
  BY <1>7, <1>12 DEF Kinds
<1> QED
  BY <1>12, <1>13, <1>17, <1>18

LEMMA PacketMade ==
    ASSUME Calm, Calm', Ahead, NEW t \in Threads, Progress(t), fd_proc > 0, fd_proc' > 0,
           NEW s \in Steps(t)', s \notin Steps(t), s.op = "packet"
    PROVE  /\ s.n = 0 /\ s.kind \in Kinds /\ s.id \in Nat
           /\ Future(s.kind, s.id) /\ ~Future(s.kind, s.id)'
<1>1. Others(t) /\ ~Idle(t) /\ StepsKept(t)
  BY ProgressOthers, MakingSteps
<1>2. /\ First(t) \in Step /\ First(t) \in Steps(t) /\ Later(t) \subseteq Steps(t)
      /\ First(t).n \in Nat /\ modules \in Nat /\ resources \in Nat
  BY <1>1, InvStack, Views, RegistryAssumption DEF Calm, Inv, TypeOK, RegistryTypes, Step
<1>3. Steps(t)' \subseteq Step /\ s \in Step /\ s.kind \in Kinds /\ s.id \in Nat
  <2>1. Steps(t)' \subseteq Step
    BY StepsStaySteps DEF Calm, Inv, TypeOK, StackTypes, StackOK
  <2> QED
    BY <2>1 DEF Step
<1>4. CASE WriteRegistries(t)
  <2>1. /\ OnBottom(t) /\ First(t).op \in {"modules", "resources"}
        /\ UNCHANGED <<modules, resources>>
    BY <1>4, WriteRegistriesEffect DEF WriteRegistries, registryVars
  <2>2. ~Skipped(t)
    BY <1>2 DEF Skipped
  <2>3. PICK kind, op, p, q :
              /\ op = First(t).op
              /\ kind = IF op = "modules" THEN "MI" ELSE "RR"
              /\ p = Packet(kind, First(t).n, 0)
              /\ q = [First(t) EXCEPT !.n = First(t).n + 1]
              /\ First(t).n <= IF op = "modules" THEN modules ELSE resources
              /\ Steps(t)' = {p, q} \cup Later(t)
    BY <1>4, <2>2, WriteRegistriesEffect
  <2>4. /\ q.op = op /\ q.n = First(t).n + 1 /\ p.op = "packet"
        /\ p.kind = kind /\ p.id = First(t).n /\ p.n = 0
    BY <1>2, <2>3 DEF Packet, Step
  <2>5. s = p
    BY <1>2, <2>1, <2>3, <2>4
  <2>6. Future(s.kind, s.id)
    <3>1. Makes(First(t), s.kind, s.id)
      BY <1>2, <2>1, <2>3, <2>4, <2>5 DEF Makes
    <3> QED
      BY <1>2, <3>1 DEF Future
  <2>7. \A r \in Later(t) : r.op # op
    <3>1. Rank(First(t)) = IF op = "modules" THEN 12 ELSE 14
      BY <1>2, <2>1, <2>3, Ranks
    <3> QED
      BY <1>1, <2>1, <2>3, <3>1, RankAhead
  <2>8. \A r \in Steps(t)' : r.op = op => s.id < r.n /\ r.n \in Nat
    <3> SUFFICES ASSUME NEW r \in Steps(t)', r.op = op PROVE s.id < r.n /\ r.n \in Nat
      OBVIOUS
    <3>1. r = q
      BY <2>1, <2>3, <2>4, <2>7
    <3> QED
      BY <1>2, <2>4, <2>5, <3>1
  <2>9. ~Future(s.kind, s.id)'
    <3>1. /\ s.kind \in {"MI", "RR"} /\ op = IF s.kind = "MI" THEN "modules" ELSE "resources"
          /\ s.id <= IF s.kind = "MI" THEN modules' ELSE resources'
          /\ modules' \in Nat /\ resources' \in Nat
      BY <1>2, <2>1, <2>3, <2>4, <2>5
    <3> QED
      BY <1>1, <1>3, <2>8, <3>1, RegistryMade
  <2> QED
    BY <1>3, <2>4, <2>5, <2>6, <2>9
<1>5. CASE RegisterModule(t)
  <2>1. OnBottom(t) /\ First(t).op = "register" /\ ~Skipped(t) /\ resources' = resources
    BY <1>2, <1>5, RegisterModuleEffect DEF Skipped, RegisterModule
  <2>2. PICK p : /\ modules' = modules + 1 /\ p = Packet("MI", modules + 1, 0)
                 /\ Steps(t)' = {p} \cup Later(t)
    BY <1>5, <2>1, RegisterModuleEffect
  <2>3. s = p /\ s.kind = "MI" /\ s.id = modules + 1 /\ s.n = 0
    BY <1>2, <2>2 DEF Packet
  <2>4. Future(s.kind, s.id)
    BY <1>2, <2>3 DEF Future
  <2>5. \A r \in Steps(t)' : r.op # "modules"
    <3>1. Rank(First(t)) = 19
      BY <1>2, <2>1, Ranks
    <3> QED
      BY <1>1, <2>2, <2>3, <3>1, RankAhead
  <2>6. /\ s.id <= modules' /\ modules' \in Nat /\ resources' \in Nat
    BY <1>2, <2>1, <2>2, <2>3
  <2>7. ~Future(s.kind, s.id)'
    BY <1>1, <1>3, <2>3, <2>5, <2>6, RegistryMade
  <2> QED
    BY <1>3, <2>3, <2>4, <2>7
<1>6. CASE RegisterResource(t)
  <2>1. OnBottom(t) /\ First(t).op = "resource" /\ ~Skipped(t) /\ modules' = modules
    BY <1>2, <1>6, RegisterResourceEffect DEF Skipped, RegisterResource
  <2>2. PICK p : /\ resources' = resources + 1 /\ p = Packet("RR", resources + 1, 0)
                 /\ Steps(t)' = {p} \cup Later(t)
    BY <1>6, <2>1, RegisterResourceEffect
  <2>3. s = p /\ s.kind = "RR" /\ s.id = resources + 1 /\ s.n = 0
    BY <1>2, <2>2 DEF Packet
  <2>4. Future(s.kind, s.id)
    BY <1>2, <2>3 DEF Future
  <2>5. \A r \in Steps(t)' : r.op # "resources"
    <3>1. Rank(First(t)) = 20
      BY <1>2, <2>1, Ranks
    <3> QED
      BY <1>1, <2>2, <2>3, <3>1, RankAhead
  <2>6. /\ s.id <= resources' /\ modules' \in Nat /\ resources' \in Nat
    BY <1>2, <2>1, <2>2, <2>3
  <2>7. ~Future(s.kind, s.id)'
    BY <1>1, <1>3, <2>3, <2>5, <2>6, RegistryMade
  <2> QED
    BY <1>3, <2>3, <2>4, <2>7
<1>7. CASE HeapInfo(t)
  <2>1. OnBottom(t) /\ First(t).op = "heapinfo" /\ ~Skipped(t)
    BY <1>2, <1>7, HeapInfoEffect DEF Skipped
  <2>2. PICK p : p = Packet("HI", 0, 0) /\ Steps(t)' = {p} \cup Later(t)
    BY <1>7, <2>1, HeapInfoEffect
  <2>3. s = p /\ s.kind = "HI" /\ s.id = 0 /\ s.n = 0
    BY <1>2, <2>2 DEF Packet
  <2>4. Future(s.kind, s.id)
    <3>1. Makes(First(t), s.kind, s.id)
      BY <2>1, <2>3 DEF Makes
    <3> QED
      BY <1>2, <3>1 DEF Future
  <2>5. ~Ends'
    <3>1. Op(t, "close")
      BY <1>2, <2>1 DEF Ahead, Op
    <3>2. PICK r \in Steps(t) : r.op = "close"
      BY <3>1 DEF Op
    <3>3. r \in Steps(t)'
      BY <1>1, <2>1, <3>2 DEF StepsKept
    <3> QED
      BY <3>2, <3>3, EndingMade DEF Op
  <2>6. ASSUME NEW u \in Threads, NEW r \in Steps(u)', Makes(r, "HI", s.id)' PROVE FALSE
    <3>1. r.op = "heapinfo"
      BY <2>6 DEF Makes
    <3>2. u = t
      <4> SUFFICES ASSUME u # t PROVE FALSE
        OBVIOUS
      <4>1. r \in Steps(u)
        BY <1>1, <2>6, SameStack DEF Others
      <4> QED
        BY <1>1, <3>1, <4>1, MakerAlone
    <3>3. Rank(First(t)) = 2
      BY <1>2, <2>1, Ranks
    <3> QED
      BY <1>1, <2>2, <2>3, <2>6, <3>1, <3>2, <3>3, RankAhead
  <2>7. ~Future(s.kind, s.id)'
    BY <2>3, <2>5, <2>6 DEF Future
  <2> QED
    BY <1>3, <2>3, <2>4, <2>7
<1> QED
  BY <1>4, <1>5, <1>6, <1>7, MakingSteps, AttachmentMade

(* Nothing enters the library when a session is starting or ending.        *)
LEMMA EntryEnds ==
    ASSUME Quiescent, Calm, NEW t \in Threads, EntryPoint(t)
    PROVE  /\ Ends /\ \A u \in Threads : ~Solo(u)
           /\ UNCHANGED <<modules, resources>>
<1>1. UNCHANGED <<modules, resources>>
  BY DEF EntryPoint, Initialize, InitializeModule, FunctionCall, Dlopen, CreateContext,
         ToggleTracing, Exit, registryVars
<1>2. \/ MayEnter(t)
      \/ Alone /\ (~exited \/ initLock = 0)
  BY DEF EntryPoint, Initialize, InitializeModule, FunctionCall, Dlopen, CreateContext,
         ToggleTracing, Exit
<1>3. ~exited
  BY <1>2 DEF MayEnter, Calm, Control, Standing
<1>4. ASSUME NEW u \in Threads PROVE ~Solo(u)
  <2>1. CASE Idle(u)
    BY <2>1 DEF Solo, Why
  <2>2. CASE ~Idle(u)
    <3>1. MayEnter(t)
      BY <1>2, <2>2 DEF Alone
    <3>2. 1 \in DOMAIN stack[u]
      BY <2>2 DEF Calm, Inv, TypeOK, StackTypes, Idle
    <3>3. stack[u][1].why = "call"
      BY <3>1, <3>2 DEF MayEnter
    <3> QED
      BY <2>2, <3>3 DEF Solo, Why
  <2> QED
    BY <2>1, <2>2
<1>5. \A u \in Threads : ~Op(u, "close") /\ ~Op(u, "clear")
  BY <1>4, SoloSteps DEF Op
<1> QED
  BY <1>1, <1>3, <1>4, <1>5 DEF Ends

LEMMA EntryFuture ==
    ASSUME Quiescent, Calm, Calm', Holds, NEW t \in Threads, EntryPoint(t),
           NEW kind \in Kinds, NEW id \in Nat, Future(kind, id)'
    PROVE  Future(kind, id)
<1>1. Ends /\ UNCHANGED <<modules, resources>> /\ Entered(t) /\ Others(t)
  BY EntryEnds, EntryEntered, EnteringSteps
<1>2. CASE Final(kind, id)
  BY <1>1, <1>2 DEF Future
<1>3. CASE ~Final(kind, id)
  <2>1. kind \notin {"HI", "AT"}
    BY <1>3 DEF Final
  <2>2. ASSUME NEW u \in Threads, NEW s \in Steps(u)', Makes(s, kind, id)'
        PROVE  Future(kind, id)
    <3>1. s.op \in {"modules", "resources"} /\ Makes(s, kind, id)
      BY <2>1, <2>2 DEF Makes
    <3>2. u # t
      BY <1>1, <2>2, <3>1 DEF Entered
    <3>3. s \in Steps(u)
      BY <1>1, <2>2, <3>2, SameStack DEF Others
    <3> QED
      BY <3>1, <3>3 DEF Future
  <2> QED
    BY <1>1, <1>3, <2>2 DEF Future
<1> QED
  BY <1>2, <1>3

LEMMA EntryMade ==
    ASSUME Quiescent, Calm, Calm', NEW t \in Threads, EntryPoint(t),
           NEW s \in Steps(t)', s.op = "packet"
    PROVE  \/ s.n = calls + 1 /\ calls' = calls + 1
           \/ /\ s = Packet("NL", 1, 0)
              /\ Future("NL", 1) /\ ~Future("NL", 1)'
<1>1. Ends /\ Entered(t)
  BY EntryEnds, EntryEntered
<1>2. Begun(t, s)
  BY <1>1 DEF Entered
<1>3. CASE s = Packet("NL", 1, 0) /\ Op(t, "close")'
  <2>1. Future("NL", 1)
    BY <1>1 DEF Future, Final
  <2>2. ~Ends'
    BY <1>3, EndingMade
  <2>3. ~Future("NL", 1)'
    BY <2>2 DEF Future, Makes
  <2> QED
    BY <1>3, <2>1, <2>3
<1> QED
  BY <1>2, <1>3 DEF Begun

(* What is in the stream was there before, or was the first step.          *)
LEMMA SentBefore ==
    ASSUME Quiescent, Calm, Calm', Holds, Fresh, [Next]_vars, Live', NEW kind \in Kinds,
           NEW id \in Nat, Sent(Stream', kind, id)
    PROVE  Taken(kind, id)
<1>1. CASE Live /\ Stream' = Stream
  BY <1>1 DEF Taken
<1>2. CASE Stream' = <<>>
  BY <1>2 DEF Sent
<1>3. ASSUME NEW t \in Threads, StreamGrown(t) PROVE Taken(kind, id)
  <2>1. PICK s, w : s = Stream /\ w = Stream'
    OBVIOUS
  <2>2. /\ ~Idle(t) /\ First(t).op = "packet" /\ First(t) \in Step
        /\ \A j \in DOMAIN s : w[j] = s[j]
        /\ \A j \in DOMAIN w : j \notin DOMAIN s =>
              \E i \in 1 .. Size[First(t).kind] : w[j] = CellOf(t, First(t), i)
    BY <1>3, <2>1, GrownStream
  <2>3. PICK j \in DOMAIN w : w[j].kind = kind /\ w[j].id = id /\ w[j].n = 0
    BY <2>1 DEF Sent
  <2>4. CASE j \in DOMAIN s
    BY <1>3, <2>1, <2>2, <2>3, <2>4 DEF Taken, Sent, StreamGrown
  <2>5. CASE j \notin DOMAIN s
    <3>1. PICK i : w[j] = CellOf(t, First(t), i)
      BY <2>2, <2>5
    <3>2. First(t).kind = kind /\ First(t).id = id /\ First(t).n = 0
      BY <2>3, <3>1 DEF CellOf
    <3>3. First(t) = Packet(kind, id, 0)
      BY <2>2, <3>2 DEF Packet, Step
    <3>4. First(t) \in Steps(t)
      BY <2>2, InvStack, Views DEF Calm
    <3> QED
      BY <3>3, <3>4 DEF Taken
  <2> QED
    BY <2>4, <2>5
<1> QED
  BY <1>1, <1>2, <1>3, StreamSteps

(* A session starts with the packets that are made only once.              *)
LEMMA OpenedAhead ==
    ASSUME Calm, Calm', NEW t \in Threads, Progress(t), ~(fd_proc > 0), fd_proc' > 0,
           NEW kind \in Kinds, NEW id \in Nat, Future(kind, id)', Taken(kind, id)'
    PROVE  FALSE
<1>1. OpenPipe(t) /\ Others(t) /\ ~Idle(t)
  BY ProgressRest, ProgressOthers
<1>2. OnBottom(t) /\ First(t).op \in {"open", "openinit"} /\ First(t) \in Step
      /\ First(t) \in Steps(t) /\ Later(t) \subseteq Step
  BY <1>1, OpenPipeEffect, InvStack, Views DEF Calm
<1>3. fd_proc' # fd_proc
  OBVIOUS
<1>4. Steps(t)' = InitialSteps \cup Later(t)
  BY <1>1, <1>3, OpenPipeEffect DEF MovedOn
<1>5. Rank(First(t)) = 17
  BY <1>2, Ranks
<1>6. \A u \in Threads : u # t => Steps(u)' = {}
  <2> SUFFICES ASSUME NEW u \in Threads, u # t PROVE Steps(u)' = {}
    OBVIOUS
  <2>1. Solo(t)
    BY <1>2, SoloSteps
  <2>2. Idle(u)
    BY <2>1 DEF Calm, Shape, Apart
  <2> QED
    BY <1>1, <2>2, SameStack DEF Others, Steps
<1>7. ~Live'
  <2>1. Do("reset", 0, 0) \in Steps(t)' /\ Do("reset", 0, 0).op = "reset"
    BY <1>4 DEF InitialSteps, Do
  <2> QED
    BY <2>1 DEF Live, Op
<1>8. Packet(kind, id, 0) \in Steps(t)'
  BY <1>6, <1>7 DEF Taken
<1>9. PICK p : p = Packet(kind, id, 0)
  OBVIOUS
<1>10. p.op = "packet" /\ p.kind = kind /\ p.id = id
  BY <1>9 DEF Packet
<1>11. p \in InitialSteps
  BY <1>1, <1>4, <1>5, <1>8, <1>9, <1>10, RankAhead
<1>12. id = 0 /\ kind \in {"HS", "OS", "PI", "MI", "NL"}
  BY <1>10, <1>11 DEF InitialSteps, Packet, Do, EnableTracing
<1>13. modules' \in Nat
  BY RegistryAssumption DEF Calm, Inv, TypeOK, RegistryTypes
<1>14. PICK s, u : u \in Threads /\ s \in Steps(u)' /\ Makes(s, kind, id)'
  BY <1>12, <1>13 DEF Future, Final
<1>15. s \in Steps(t)' /\ s.op = "modules" /\ s.n <= 0
  BY <1>6, <1>12, <1>14 DEF Makes
<1>16. s \in InitialSteps
  BY <1>1, <1>4, <1>5, <1>15, RankAhead
<1>17. s.n = 1
  BY <1>15, <1>16 DEF InitialSteps, Packet, Do, EnableTracing
<1> QED
  BY <1>15, <1>17

LEMMA HeapInfoComes ==
    ASSUME Calm, NEW t \in Threads, Progress(t), NEW s \in Steps(t)', s.op = "heapinfo"
    PROVE  s \in Steps(t)
<1>1. CASE ~OpenPipe(t)
  BY <1>1, ProgressKept DEF StepsKept
<1>2. CASE OpenPipe(t)
  <2>1. PICK e, n : e = EnableTracing(0) /\ n = Do("nopipe", 0, 0)
    OBVIOUS
  <2>2. \E more \in Seq(Step) : /\ MovedOn(t, more)
                               /\ Elements(more) \subseteq {e, n} \cup InitialSteps
    BY <1>2, <2>1, OpenPipeEffect
  <2>3. e.op = "enable" /\ n.op = "nopipe"
    BY <2>1 DEF EnableTracing, Do
  <2>4. \A r \in InitialSteps : r.op # "heapinfo"
    BY DEF InitialSteps, Packet, Do, EnableTracing
  <2>5. Steps(t) = {First(t)} \cup Later(t)
    BY <1>2, OpenPipeEffect, InvStack, Views DEF Calm, OnBottom
  <2> QED
    BY <2>2, <2>3, <2>4, <2>5 DEF MovedOn
<1> QED
  BY <1>1, <1>2

LEMMA NextAhead ==
    ASSUME Quiescent, Calm, Calm', Holds, Fresh, Ahead, [Next]_vars
    PROVE  Ahead'
<1>1. CASE UNCHANGED vars
  <2>1. \A u \in Threads : stack'[u] = stack[u]
    BY <1>1 DEF vars
  <2>2. UNCHANGED <<fd_proc, exited, modules, resources, moduleOn, moduleAt>>
    BY <1>1 DEF vars
  <2>3. \A u \in Threads : Steps(u)' = Steps(u) /\ \A op : Op(u, op)' <=> Op(u, op)
    BY <2>1, SameStack
  <2>4. Ends' <=> Ends
    BY <2>2, <2>3 DEF Ends
  <2>5. ASSUME NEW kind \in Kinds, NEW id \in Nat, fd_proc' > 0, Future(kind, id)', Taken(kind, id)'
        PROVE  FALSE
    <3>1. Future(kind, id)
      BY <2>2, <2>3, <2>4, <2>5 DEF Future, Makes, Attaches
    <3>2. Taken(kind, id)
      BY <2>3, <2>5, SentBefore DEF Taken
    <3> QED
      BY <2>2, <2>5, <3>1, <3>2 DEF Ahead
  <2> QED
    BY <2>3, <2>5 DEF Ahead
<1>2. ASSUME NEW t \in Threads, EntryPoint(t) PROVE Ahead'
  <2>1. Others(t) /\ Entered(t) /\ fd_proc' = fd_proc
    BY <1>2, EnteringSteps, EntryEntered
  <2>2. ASSUME NEW u \in Threads, Op(u, "heapinfo")' PROVE Op(u, "close")'
    <3>1. CASE u = t
      <4>1. PICK s \in Steps(t)' : s.op = "heapinfo"
        BY <2>2, <3>1 DEF Op
      <4>2. Begun(t, s)
        BY <2>1, <4>1 DEF Entered
      <4> QED
        BY <3>1, <4>1, <4>2 DEF Begun
    <3>2. CASE u # t
      BY <2>1, <2>2, <3>2, SameStack DEF Others, Ahead
    <3> QED
      BY <3>1, <3>2
  <2>3. ASSUME NEW kind \in Kinds, NEW id \in Nat, fd_proc' > 0, Future(kind, id)', Taken(kind, id)'
        PROVE  FALSE
    <3>1. Future(kind, id)
      BY <1>2, <2>3, EntryFuture
    <3>2. ~Taken(kind, id)
      BY <2>1, <2>3, <3>1 DEF Ahead
    <3>3. ~(Live' /\ Sent(Stream', kind, id))
      BY <3>2, SentBefore
    <3>4. PICK u \in Threads : Packet(kind, id, 0) \in Steps(u)'
      BY <2>3, <3>3 DEF Taken
    <3>5. u = t
      <4> SUFFICES ASSUME u # t PROVE FALSE
        OBVIOUS
      <4>1. Packet(kind, id, 0) \in Steps(u)
        BY <2>1, <3>4, SameStack DEF Others
      <4> QED
        BY <3>2, <4>1 DEF Taken
    <3>6. PICK s \in Steps(t)' : s = Packet(kind, id, 0)
      BY <3>4, <3>5
    <3>7. s.op = "packet" /\ s.n = 0 /\ s.kind = kind /\ s.id = id /\ calls \in Nat
      BY <3>6, OptionAssumption DEF Packet, Calm, Inv, TypeOK, LifeTypes
    <3>8. s = Packet("NL", 1, 0) /\ ~Future("NL", 1)'
      BY <1>2, <3>7, EntryMade
    <3>9. kind = "NL" /\ id = 1
      BY <3>7, <3>8 DEF Packet
    <3> QED
      BY <2>3, <3>8, <3>9
  <2> QED
    BY <2>2, <2>3 DEF Ahead
<1>3. ASSUME NEW t \in Threads, Progress(t) PROVE Ahead'
  <2>1. Others(t) /\ ~Idle(t)
    BY <1>3, ProgressOthers
  <2>2. ASSUME NEW u \in Threads, Op(u, "heapinfo")' PROVE Op(u, "close")'
    <3>1. CASE u # t
      BY <2>1, <2>2, <3>1, SameStack DEF Others, Ahead
    <3>2. CASE u = t
      <4>1. PICK s \in Steps(t)' : s.op = "heapinfo"
        BY <2>2, <3>2 DEF Op
      <4>2. s \in Steps(t)
        BY <1>3, <4>1, HeapInfoComes
      <4>3. PICK c \in Steps(t) : c.op = "close"
        BY <4>1, <4>2 DEF Ahead, Op
      <4>4. CASE c \in Steps(t)'
        BY <3>2, <4>3, <4>4 DEF Op
      <4>5. CASE c \notin Steps(t)'
        <5>1. c = First(t)
          BY <1>3, <4>3, <4>5, RegisterKept
        <5>2. s \in Later(t) /\ First(t) \in Step
          BY <2>1, <4>1, <4>2, <4>3, <5>1, InvStack, Views DEF Calm
        <5>3. Rank(First(t)) = 21
          BY <4>3, <5>1, <5>2, Ranks
        <5> QED
          BY <2>1, <4>1, <5>2, <5>3, RankAhead
      <4> QED
        BY <4>4, <4>5
    <3> QED
      BY <3>1, <3>2
  <2>3. ASSUME NEW kind \in Kinds, NEW id \in Nat, fd_proc' > 0, Future(kind, id)', Taken(kind, id)'
        PROVE  FALSE
    <3>0. CASE ~(fd_proc > 0)
      BY <1>3, <2>3, <3>0, OpenedAhead
    <3>1. CASE fd_proc > 0
      <4>1. Future(kind, id)
        BY <1>3, <2>3, <3>1, FutureBefore
      <4>2. ~Taken(kind, id)
        BY <3>1, <4>1 DEF Ahead
      <4>3. ~(Live' /\ Sent(Stream', kind, id))
        BY <4>2, SentBefore
      <4>4. PICK u \in Threads : Packet(kind, id, 0) \in Steps(u)'
        BY <2>3, <4>3 DEF Taken
      <4>5. u = t
        <5> SUFFICES ASSUME u # t PROVE FALSE
          OBVIOUS
        <5>1. Packet(kind, id, 0) \in Steps(u)
          BY <2>1, <4>4, SameStack DEF Others
        <5> QED
          BY <4>2, <5>1 DEF Taken
      <4>6. PICK s \in Steps(t)' : s = Packet(kind, id, 0)
        BY <4>4, <4>5
      <4>7. s.op = "packet" /\ s.kind = kind /\ s.id = id /\ s \notin Steps(t)
        BY <4>2, <4>6 DEF Packet, Taken
      <4>8. ~Future(s.kind, s.id)'
        BY <1>3, <2>3, <3>1, <4>7, PacketMade
      <4> QED
        BY <2>3, <4>7, <4>8
    <3> QED
      BY <3>0, <3>1
  <2> QED
    BY <2>2, <2>3 DEF Ahead
<1> QED
  BY <1>1, <1>2, <1>3 DEF Next

(***************************************************************************)
(* Every packet is put into the stream of a session once.                  *)
(***************************************************************************)

(* Step s of thread t is a packet that is not in the stream yet.           *)
Waiting(t, s) == s \in Steps(t) /\ s.op = "packet" /\ ~(s = First(t) /\ Added(t))
Unique(X) == \A i, j \in DOMAIN X : X[i] = X[j] => i = j
Absent(X, t, s) == \A j \in DOMAIN X : X[j] # CellOf(t, s, X[j].i)
Sole ==
    Live =>
        /\ Unique(Stream)
        /\ \A t \in Threads : \A s \in Steps(t) : Waiting(t, s) => Absent(Stream, t, s)
        /\ \A j \in DOMAIN Stream : Stream[j].n <= calls

LEMMA FirstOnce ==
    ASSUME Calm, NEW t \in Threads, ~Idle(t), First(t).op = "packet"
    PROVE  First(t) \notin Later(t)
<1> SUFFICES ASSUME First(t) \in Later(t) PROVE FALSE
  OBVIOUS
<1>1. StackOK /\ Ordered(Bottom(t).todo) /\ Rank(First(t)) \in Int
  BY InvStack, RankLater DEF Calm, Shape, Fits, OuterFits
<1>2. Before(First(t), First(t))
  BY <1>1, FirstIsBefore
<1> QED
  BY <1>1, <1>2 DEF Before

LEMMA AddedStays ==
    ASSUME Calm, Calm', NEW t \in Threads, Progress(t), fd_proc > 0, Added(t),
           First(t) \in Steps(t)'
    PROVE  First(t)' = First(t) /\ Added(t)'
<1>1. ~Idle(t) /\ First(t).op = "packet" /\ At(t) # "fail"
  BY ProgressOthers DEF Added, Calm, Control, Doing
<1>2. OnBottom(t) /\ Top(t).at = At(t) /\ Current(t) = First(t)
  BY <1>1, WhichActivation DEF Idle, OnInner, OnBottom
<1>3. At(t) \in {"release", "write", "rewind"}
  BY <1>1 DEF Added
<1>4. ~Skipped(t)
  BY <1>1, FirstOnce DEF Skipped
<1>5. WriteSent(t) \/ WriteFailed(t) \/ Rewind(t) \/ Release(t)
  BY <1>1, <1>2, <1>3
  DEF Progress, CheckEnable, Lock, Unlock, CopyCell, DisableAfterError, OpenPipe, Reset,
      WriteRegistries, EnableModule, RegisterModule, RegisterResource, HeapInfo,
      StoreHeapInfo, ClosePipe, ClearPipe, Ready, Running, Flushing
<1>6. ~Release(t)
  BY <1>4, ReleaseEffect
<1>7. CASE WriteFailed(t)
  <2>1. At(t)' = "fail" /\ fd_proc' = fd_proc
    BY <1>7, WriteFailedEffect DEF WriteFailed, pipeVars
  <2>2. fd_proc' = -1
    BY <2>1 DEF Calm, Control, Doing
  <2> QED
    BY <2>1, <2>2
<1>8. CASE WriteSent(t)
  <2>1. SameSteps(t) /\ At(t)' = "rewind" /\ Bottom(t)' = [Bottom(t) EXCEPT !.at = "rewind"]
        /\ At(t) = "write"
    BY <1>1, <1>8, WriteSentEffect
  <2>2. Bottom(t)'.ptr = Bottom(t).ptr
    BY <1>1, <2>1, InvStack, Views DEF Calm, Activation
  <2>3. ~Overflows(Bottom(t)) /\ ~Overflows(Bottom(t))'
    BY <1>1, <2>1, <2>2, AddedAfter DEF Added
  <2> QED
    BY <1>1, <2>1, <2>3 DEF SameSteps, Added
<1>9. CASE Rewind(t)
  <2>1. At(t) = "rewind" /\ ~Overflows(Bottom(t))
    BY <1>9, RewindEffect DEF Added
  <2>2. SameSteps(t) /\ At(t)' = "release"
    BY <1>1, <1>9, <2>1, RewindEffect
  <2> QED
    BY <1>1, <2>2 DEF SameSteps, Added
<1> QED
  BY <1>5, <1>6, <1>7, <1>8, <1>9

LEMMA WaitingBefore ==
    ASSUME Calm, Calm', NEW t \in Threads, Progress(t), fd_proc > 0, NEW s \in Steps(t),
           Waiting(t, s)'
    PROVE  Waiting(t, s)
<1> SUFFICES ASSUME s = First(t), Added(t) PROVE FALSE
  BY DEF Waiting
<1>1. First(t) \in Steps(t)'
  BY DEF Waiting
<1>2. First(t)' = First(t) /\ Added(t)'
  BY <1>1, AddedStays
<1> QED
  BY <1>2 DEF Waiting

LEMMA OtherWaiting ==
    ASSUME NEW u \in Threads, stack'[u] = stack[u], NEW s
    PROVE  Waiting(u, s)' <=> Waiting(u, s)
<1>1. Steps(u)' = Steps(u) /\ First(u)' = First(u) /\ (Added(u)' <=> Added(u))
  BY SameStack DEF Added, Overflows
<1> QED
  BY <1>1 DEF Waiting

(* Two waiting packets are never the same.                                 *)
LEMMA WaitingApart ==
    ASSUME Calm, NEW t \in Threads, ~Idle(t), First(t).op = "packet",
           NEW u \in Threads, NEW s \in Steps(u), s.op = "packet",
           u = t => s # First(t), NEW i, NEW k
    PROVE  CellOf(t, First(t), i) # CellOf(u, s, k)
<1> SUFFICES ASSUME CellOf(t, First(t), i) = CellOf(u, s, k) PROVE FALSE
  OBVIOUS
<1>1. /\ First(t).kind = s.kind /\ First(t).id = s.id /\ First(t).n = s.n
      /\ s.n # 0 => t = u
  BY DEF CellOf
<1>2. First(t) \in Step /\ s \in Step /\ First(t) \in Steps(t) /\ ~Idle(u)
  BY InvStack, Views, StepsAreSteps DEF Calm, Steps
<1>3. CASE u = t
  BY <1>1, <1>2, <1>3 DEF Step
<1>4. CASE u # t
  <2>1. s.n = 0
    BY <1>1, <1>4
  <2>2. Solo(u)
    BY <1>2, <2>1 DEF Calm, Shape, Fits, OuterFits, CallStep, Solo
  <2> QED
    BY <1>4, <2>2 DEF Calm, Shape, Apart
<1> QED
  BY <1>3, <1>4

(* What waits after the first packet has been added waited before.         *)
LEMMA GrownWaiting ==
    ASSUME Calm, NEW t \in Threads, StreamGrown(t), Others(t), NEW u \in Threads,
           NEW r \in Steps(u)', Waiting(u, r)'
    PROVE  r \in Steps(u) /\ Waiting(u, r) /\ r.op = "packet" /\ (u = t => r \in Later(t))
<1>1. /\ Pending(t) /\ ~Idle(t) /\ First(t).op = "packet"
      /\ (SameSteps(t) /\ ~Pending(t)') \/ Skipped(t)
  BY DEF StreamGrown, Pending
<1>2. Steps(t) = {First(t)} \cup Later(t) /\ First(t) \notin Later(t)
  BY <1>1, InvStack, Views, FirstOnce DEF Calm
<1>3. CASE u # t
  <2>1. stack'[u] = stack[u]
    BY <1>3 DEF Others
  <2> QED
    BY <1>3, <2>1, OtherWaiting DEF Waiting
<1>4. CASE u = t
  <2>1. r.op = "packet" /\ r \in Later(t)
    <3>1. CASE SameSteps(t) /\ ~Pending(t)'
      <4>1. Added(t)' /\ First(t)' = First(t)
        BY <1>1, <3>1 DEF SameSteps, Pending
      <4> QED
        BY <1>2, <1>4, <3>1, <4>1 DEF Waiting, SameSteps
    <3>2. CASE Skipped(t)
      BY <1>4, <3>2 DEF Waiting, Skipped
    <3> QED
      BY <1>1, <3>1, <3>2
  <2> QED
    BY <1>2, <1>4, <2>1 DEF Waiting
<1> QED
  BY <1>3, <1>4

LEMMA GrownSole ==
    ASSUME Calm, Calm', Sole, NEW t \in Threads, StreamGrown(t), Others(t)
    PROVE  Sole'
<1>1. /\ Live /\ Pending(t) /\ OnBottom(t) /\ calls' = calls
      /\ (SameSteps(t) /\ ~Pending(t)') \/ Skipped(t)
  BY DEF StreamGrown
<1>2. PICK s, w, n, p : s = Stream /\ w = Stream' /\ n = Size[First(t).kind] /\ p = First(t)
  OBVIOUS
<1>3. /\ s \in Seq(Cell) /\ w \in Seq(Cell) /\ ~Idle(t) /\ p.op = "packet" /\ p \in Step
      /\ \A j \in DOMAIN s : j \in DOMAIN w /\ w[j] = s[j]
      /\ \A j \in DOMAIN w : j \notin DOMAIN s =>
            \E i \in 1 .. n : j = Len(s) + i /\ w[j] = CellOf(t, p, i)
  BY <1>2, GrownStream
<1>4. p \in Steps(t) /\ Steps(t) = {p} \cup Later(t) /\ p \notin Later(t)
  BY <1>2, <1>3, InvStack, Views, FirstOnce DEF Calm
<1>5. Waiting(t, p)
  BY <1>1, <1>3, <1>4 DEF Waiting, Pending
<1>6. /\ Unique(s)
      /\ \A u \in Threads : \A r \in Steps(u) : Waiting(u, r) => Absent(s, u, r)
      /\ \A j \in DOMAIN s : s[j].n <= calls
  BY <1>1, <1>2 DEF Sole
<1>7. Unique(w)
  <2> SUFFICES ASSUME NEW i \in DOMAIN w, NEW j \in DOMAIN w, w[i] = w[j] PROVE i = j
    BY DEF Unique
  <2>1. ASSUME NEW a \in DOMAIN w, NEW b \in DOMAIN w, a \in DOMAIN s, b \notin DOMAIN s
        PROVE  w[a] # w[b]
    <3>1. PICK k : w[b] = CellOf(t, p, k)
      BY <1>3, <2>1
    <3>2. s[a] # CellOf(t, p, s[a].i)
      BY <1>4, <1>5, <1>6, <2>1 DEF Absent
    <3>3. w[b].i = k
      BY <3>1 DEF CellOf
    <3> QED
      BY <1>3, <2>1, <3>1, <3>2, <3>3
  <2>2. CASE i \in DOMAIN s /\ j \in DOMAIN s
    BY <1>3, <1>6, <2>2 DEF Unique
  <2>3. CASE i \notin DOMAIN s /\ j \notin DOMAIN s
    <3>1. PICK a \in 1 .. n : i = Len(s) + a /\ w[i] = CellOf(t, p, a)
      BY <1>3, <2>3
    <3>2. PICK b \in 1 .. n : j = Len(s) + b /\ w[j] = CellOf(t, p, b)
      BY <1>3, <2>3
    <3>3. a = b
      BY <3>1, <3>2 DEF CellOf
    <3> QED
      BY <3>1, <3>2, <3>3
  <2> QED
    BY <2>1, <2>2, <2>3
<1>8. ASSUME NEW u \in Threads, NEW r \in Steps(u)', Waiting(u, r)' PROVE Absent(w, u, r)
  <2>1. r \in Steps(u) /\ Waiting(u, r) /\ r.op = "packet" /\ (u = t => r # p)
    BY <1>2, <1>4, <1>8, GrownWaiting
  <2> SUFFICES ASSUME NEW j \in DOMAIN w PROVE w[j] # CellOf(u, r, w[j].i)
    BY DEF Absent
  <2>2. CASE j \in DOMAIN s
    <3>1. s[j] # CellOf(u, r, s[j].i)
      BY <1>6, <2>1, <2>2 DEF Absent
    <3> QED
      BY <1>3, <2>2, <3>1
  <2>3. CASE j \notin DOMAIN s
    <3>1. PICK k : w[j] = CellOf(t, p, k)
      BY <1>3, <2>3
    <3>2. PICK l : l = w[j].i
      OBVIOUS
    <3>3. CellOf(t, First(t), k) # CellOf(u, r, l)
      BY <1>2, <1>3, <2>1, WaitingApart
    <3> QED
      BY <1>2, <3>1, <3>2, <3>3
  <2> QED
    BY <2>2, <2>3
<1>9. p.n <= calls /\ calls \in Nat
  <2>1. calls \in Nat
    BY DEF Calm, Inv, TypeOK, LifeTypes
  <2>2. CallStep(p) \/ SoloStep(p)
    BY <1>3, <1>4 DEF Calm, Shape, Fits, OuterFits
  <2> QED
    BY <1>3, <2>1, <2>2 DEF CallStep, SoloStep
<1>10. \A j \in DOMAIN w : w[j].n <= calls
  <2> SUFFICES ASSUME NEW j \in DOMAIN w PROVE w[j].n <= calls
    OBVIOUS
  <2>1. CASE j \in DOMAIN s
    BY <1>3, <1>6, <2>1
  <2>2. CASE j \notin DOMAIN s
    <3>1. PICK k : w[j] = CellOf(t, p, k)
      BY <1>3, <2>2
    <3>2. w[j].n = p.n
      BY <3>1 DEF CellOf
    <3> QED
      BY <1>9, <3>2
  <2> QED
    BY <2>1, <2>2
<1> QED
  BY <1>1, <1>2, <1>7, <1>8, <1>10 DEF Sole

LEMMA KeptSole ==
    ASSUME Calm, Sole, Live, Stream' = Stream, calls' \in {calls, calls + 1},
           \A u \in Threads : \A s \in Steps(u)' : Waiting(u, s)' =>
              (s \in Steps(u) /\ Waiting(u, s)) \/ Absent(Stream, u, s)
    PROVE  Sole'
<1>1. PICK X : X = Stream
  OBVIOUS
<1>2. X \in Seq(Cell) /\ Stream' = X
  BY <1>1, StreamTypes DEF Live
<1>3. /\ Unique(X)
      /\ \A t \in Threads : \A s \in Steps(t) : Waiting(t, s) => Absent(X, t, s)
      /\ \A j \in DOMAIN X : X[j].n <= calls
  BY <1>1 DEF Sole
<1>4. calls \in Nat /\ \A j \in DOMAIN X : X[j].n \in Nat
  <2>1. \A j \in DOMAIN X : X[j] \in Cell
    BY <1>2
  <2> QED
    BY <2>1 DEF Calm, Inv, TypeOK, LifeTypes, Cell
<1>5. \A j \in DOMAIN X : X[j].n <= calls'
  BY <1>3, <1>4
<1>6. \A t \in Threads : \A s \in Steps(t)' : Waiting(t, s)' => Absent(X, t, s)
  BY <1>1, <1>3
<1> QED
  BY <1>2, <1>3, <1>5, <1>6 DEF Sole

LEMMA StartedSole ==
    ASSUME Stream' = <<>>
    PROVE  Sole'
<1>1. DOMAIN <<>> = {}
  OBVIOUS
<1> QED
  BY <1>1 DEF Sole, Unique, Absent

(* A packet that is made now is not in the stream.                         *)
LEMMA MadeAbsent ==
    ASSUME Calm, Ahead, Live, NEW t \in Threads, NEW s \in Step, s.n = 0, Future(s.kind, s.id)
    PROVE  Absent(Stream, t, s)
<1>1. s.kind \in Kinds /\ s.id \in Nat
  BY DEF Step
<1>2. ~Taken(s.kind, s.id)
  BY <1>1 DEF Ahead, Live
<1>3. ~Sent(Stream, s.kind, s.id)
  BY <1>2 DEF Taken
<1> SUFFICES ASSUME NEW j \in DOMAIN Stream, Stream[j] = CellOf(t, s, Stream[j].i) PROVE FALSE
  BY DEF Absent
<1>4. PICK c : c = Stream[j]
  OBVIOUS
<1>5. c.kind = s.kind /\ c.id = s.id /\ c.n = 0
  BY <1>4 DEF CellOf
<1> QED
  BY <1>3, <1>4, <1>5 DEF Sent

LEMMA NextSole ==
    ASSUME Quiescent, Calm, Calm', Holds, Fresh, Ahead, Sole, [Next]_vars
    PROVE  Sole'
<1> SUFFICES ASSUME Live' PROVE Sole'
  BY DEF Sole
<1>1. CASE UNCHANGED vars
  <2>1. \A u \in Threads : stack'[u] = stack[u]
    BY <1>1 DEF vars
  <2>2. calls' = calls
    BY <1>1 DEF vars
  <2>3. \A u \in Threads : Steps(u)' = Steps(u) /\ \A s : Waiting(u, s)' <=> Waiting(u, s)
    BY <2>1, SameStack, OtherWaiting
  <2>4. \A t \in Threads : StreamGrown(t) => Others(t)
    BY <2>1 DEF Others
  <2>5. CASE Live /\ Stream' = Stream
    BY <2>2, <2>3, <2>5, KeptSole
  <2> QED
    BY <2>4, <2>5, StreamSteps, StartedSole, GrownSole
<1>2. ASSUME NEW t \in Threads, EntryPoint(t) PROVE Sole'
  <2>1. Streams(t) /\ Idle(t) /\ Others(t) /\ Entered(t)
    BY <1>2, EntryStreams, EnteringSteps, EntryEntered
  <2>2. ~StreamGrown(t)
    BY <2>1 DEF StreamGrown, Pending
  <2>3. CASE StreamStarted
    BY <2>3, StartedSole DEF StreamStarted
  <2>4. CASE Live /\ Stream' = Stream
    <3>1. ASSUME NEW u \in Threads, NEW s \in Steps(u)', Waiting(u, s)'
          PROVE  (s \in Steps(u) /\ Waiting(u, s)) \/ Absent(Stream, u, s)
      <4>1. CASE u # t
        <5>1. stack'[u] = stack[u]
          BY <2>1, <4>1 DEF Others
        <5> QED
          BY <3>1, <5>1, OtherWaiting, SameStack
      <4>2. CASE u = t
        <5>1. s \in Step /\ s.op = "packet"
          <6>1. StackOK'
            BY DEF Calm, Inv, TypeOK, StackTypes, StackOK
          <6> QED
            BY <3>1, <6>1, StepsStaySteps DEF Waiting
        <5>2. CASE s.n = calls + 1
          <6>1. PICK X : X = Stream
            OBVIOUS
          <6>2. X \in Seq(Cell) /\ calls \in Nat /\ \A j \in DOMAIN X : X[j].n <= calls
            BY <2>4, <6>1, StreamTypes DEF Live, Sole, Calm, Inv, TypeOK, LifeTypes
          <6>3. ASSUME NEW j \in DOMAIN X PROVE X[j] # CellOf(u, s, X[j].i)
            <7>1. X[j].n <= calls
              BY <6>2
            <7>2. CellOf(u, s, X[j].i).n = s.n
              BY DEF CellOf
            <7> QED
              BY <5>2, <6>2, <7>1, <7>2
          <6> QED
            BY <6>1, <6>3 DEF Absent
        <5>3. CASE s = Packet("NL", 1, 0) /\ Future("NL", 1)
          <6>1. s.n = 0 /\ s.kind = "NL" /\ s.id = 1
            BY <5>3 DEF Packet
          <6> QED
            BY <2>4, <5>1, <5>3, <6>1, MadeAbsent
        <5> QED
          BY <1>2, <3>1, <4>2, <5>1, <5>2, <5>3, EntryMade
      <4> QED
        BY <4>1, <4>2
    <3>2. calls' \in {calls, calls + 1}
      BY <2>1 DEF Entered
    <3> QED
      BY <2>4, <3>1, <3>2, KeptSole
  <2> QED
    BY <2>1, <2>2, <2>3, <2>4 DEF Streams, StreamKept
<1>3. ASSUME NEW t \in Threads, Progress(t) PROVE Sole'
  <2>1. Streams(t) /\ Others(t) /\ calls' = calls
    BY <1>3, ProgressStreams, ProgressOthers, ProgressRest
  <2>2. CASE StreamGrown(t)
    BY <2>1, <2>2, GrownSole
  <2>3. CASE StreamStarted
    BY <2>3, StartedSole DEF StreamStarted
  <2>4. CASE Live /\ Stream' = Stream
    <3>1. ASSUME NEW u \in Threads, NEW s \in Steps(u)', Waiting(u, s)'
          PROVE  (s \in Steps(u) /\ Waiting(u, s)) \/ Absent(Stream, u, s)
      <4>1. CASE u # t
        <5>1. stack'[u] = stack[u]
          BY <2>1, <4>1 DEF Others
        <5> QED
          BY <3>1, <5>1, OtherWaiting, SameStack
      <4>2. CASE u = t
        <5>1. s \in Step /\ s.op = "packet"
          <6>1. StackOK'
            BY DEF Calm, Inv, TypeOK, StackTypes, StackOK
          <6> QED
            BY <3>1, <6>1, StepsStaySteps DEF Waiting
        <5>2. fd_proc > 0 /\ fd_proc' > 0
          BY <2>4 DEF Live
        <5>3. CASE s \in Steps(t)
          BY <1>3, <3>1, <4>2, <5>2, <5>3, WaitingBefore
        <5>4. CASE s \notin Steps(t)
          <6>1. s.n = 0 /\ Future(s.kind, s.id)
            BY <1>3, <3>1, <4>2, <5>1, <5>2, <5>4, PacketMade
          <6> QED
            BY <2>4, <5>1, <6>1, MadeAbsent
        <5> QED
          BY <5>3, <5>4
      <4> QED
        BY <4>1, <4>2
    <3> QED
      BY <2>1, <2>4, <3>1, KeptSole
  <2> QED
    BY <2>1, <2>2, <2>3, <2>4 DEF Streams, StreamKept
<1> QED
  BY <1>1, <1>2, <1>3 DEF Next

(***************************************************************************)
(* The stream of a session starts with the handshake.                      *)
(***************************************************************************)

Heads(X) ==
    /\ Len(X) >= Size["HS"]
    /\ \A j \in DOMAIN X : X[j].kind = "HS" <=> j <= Size["HS"]
Greets(t) == Pending(t) /\ First(t).kind = "HS"
Greeting ==
    Live =>
        \/ Stream = <<>> /\ \E t \in Threads : Greets(t)
        \/ /\ Heads(Stream)
           /\ \A t \in Threads : \A s \in Steps(t) : Waiting(t, s) => s.kind # "HS"

LEMMA GreeterAlone ==
    ASSUME Calm, NEW t \in Threads, Greets(t)
    PROVE  Solo(t) /\ \A u \in Threads : ~Idle(u) => u = t
<1>1. ~Idle(t) /\ First(t).op = "packet" /\ First(t).kind = "HS" /\ First(t) \in Steps(t)
  BY InvStack, Views DEF Calm, Greets, Pending
<1>2. Solo(t)
  BY <1>1 DEF Calm, Shape, Fits, OuterFits, CallStep, Solo
<1> QED
  BY <1>2 DEF Calm, Shape, Apart

(* After pipe_buffer_reset comes the handshake.                            *)
LEMMA StartedGreets ==
    ASSUME Calm, Calm', Fresh, Opened, NEW t \in Threads, Progress(t), StreamStarted
    PROVE  Greets(t)'
<1>1. ~Idle(t) /\ fd_proc > 0 /\ ~Live
  BY ProgressOthers DEF StreamStarted
<1>2. PICK u \in Threads : Op(u, "reset")
  BY <1>1 DEF Live
<1>3. u = t
  BY <1>1, <1>2, ResetAlone
<1>4. First(t).op = "reset" /\ InitialSteps \subseteq Steps(t)
  BY <1>1, <1>2, <1>3 DEF Fresh, Opened
<1>5. Reset(t)
  BY <1>1, <1>4, PlainPlace, FirstAction
<1>6. Skipped(t)
  BY <1>5, ReturnEffects
<1>7. PICK h : h = Packet("HS", 0, 0)
  OBVIOUS
<1>8. h.op = "packet" /\ h.kind = "HS" /\ h \in InitialSteps
  BY <1>7 DEF InitialSteps, Packet
<1>9. Steps(t) = {First(t)} \cup Later(t) /\ First(t) \in Step /\ Later(t) \subseteq Step
  BY <1>1, InvStack, Views DEF Calm
<1>10. h \in Later(t) /\ h \in Step
  BY <1>4, <1>8, <1>9
<1>11. Steps(t)' = Later(t) /\ ~Idle(t)' /\ At(t)' = "start"
  BY <1>6, <1>10 DEF Skipped, MovedOn
<1>12. StackOK' /\ OuterFits(t)'
  BY DEF Calm, Inv, TypeOK, StackTypes, StackOK, Shape, Fits
<1>13. PICK f : f = First(t)'
  OBVIOUS
<1>14. f \in Later(t) /\ f \in Step
  BY <1>9, <1>11, <1>12, <1>13, ViewsAfter
<1>15. f = h \/ Before(f, h)
  BY <1>10, <1>11, <1>12, <1>13, FirstAfter
<1>16. f = h
  <2> SUFFICES ASSUME Before(f, h) PROVE FALSE
    BY <1>15
  <2>1. Rank(h) = 7 /\ Rank(First(t)) = 6
    BY <1>4, <1>8, <1>9, <1>10, Ranks
  <2>2. Rank(f) \in Int /\ 6 < Rank(f)
    BY <1>1, <1>4, <1>14, <2>1, RankLater
  <2>3. Rank(f) < 7
    BY <1>8, <2>1 DEF Before
  <2> QED
    BY <2>2, <2>3
<1> QED
  BY <1>8, <1>11, <1>13, <1>16 DEF Greets, Pending, Added

LEMMA StillGreets ==
    ASSUME Calm, Calm', NEW t \in Threads, Progress(t), StreamKept(t), Greets(t)
    PROVE  Greets(t)'
<1>1. Pending(t) /\ First(t).kind = "HS" /\ ~Idle(t) /\ First(t).op = "packet"
  BY DEF Greets, Pending
<1>2. CASE At(t) # "start"
  BY <1>1, <1>2 DEF StreamKept, OnWay, Greets
<1>3. CASE At(t) = "start"
  <2>1. CheckEnable(t) /\ ~OnInner(t)
    BY <1>1, <1>3, FirstAction DEF OnInner
  <2>2. SameSteps(t) /\ At(t)' = "lock"
    BY <1>1, <2>1, CheckEnableEffect DEF Checked
  <2> QED
    BY <1>1, <2>2 DEF SameSteps, Greets, Pending, Added
<1> QED
  BY <1>2, <1>3

LEMMA NewHandshake ==
    ASSUME Calm, Calm', Quiescent, NEW t \in Threads, EntryPoint(t), NEW s \in Steps(t)',
           s.op = "packet"
    PROVE  s.kind # "HS"
<1>1. ~Idle(t)' /\ calls \in Nat
  BY OptionAssumption DEF Steps, Calm, Inv, TypeOK, LifeTypes
<1>2. CallStep(s)' \/ SoloStep(s)
  BY <1>1 DEF Calm, Shape, Fits, OuterFits, SoloStep
<1>3. CASE s = Packet("NL", 1, 0)
  BY <1>3 DEF Packet
<1>4. CASE s.n = calls + 1
  BY <1>1, <1>2, <1>4 DEF CallStep, SoloStep
<1> QED
  BY <1>3, <1>4, EntryMade

LEMMA GrownGreeting ==
    ASSUME Calm, Calm', Greeting, NEW t \in Threads, StreamGrown(t), Others(t)
    PROVE  Greeting'
<1>1. /\ Live /\ Pending(t)
  BY DEF StreamGrown
<1>2. PICK s, w, n, p, h : /\ s = Stream /\ w = Stream' /\ n = Size[First(t).kind] /\ p = First(t)
                           /\ h = Size["HS"]
  OBVIOUS
<1>3. /\ s \in Seq(Cell) /\ w \in Seq(Cell) /\ ~Idle(t) /\ p.op = "packet" /\ p \in Step
      /\ n \in Nat \ {0} /\ Len(w) = Len(s) + n /\ Len(s) \in Nat
      /\ \A j \in DOMAIN s : j \in DOMAIN w /\ w[j] = s[j]
      /\ \A j \in DOMAIN w : j \notin DOMAIN s =>
            \E i \in 1 .. n : j = Len(s) + i /\ w[j] = CellOf(t, p, i)
  BY <1>2, GrownStream
<1>4. DOMAIN s = 1 .. Len(s) /\ DOMAIN w = 1 .. Len(w) /\ h \in Nat
  BY <1>2, <1>3, BufferAssumption DEF Kinds
<1>5. CASE s = <<>> /\ \E u \in Threads : Greets(u)
  <2>1. p.kind = "HS" /\ \A u \in Threads : ~Idle(u) => u = t
    BY <1>2, <1>3, <1>5, GreeterAlone DEF Greets
  <2>2. Len(s) = 0 /\ n = h /\ DOMAIN s = {}
    BY <1>2, <1>5, <2>1
  <2>3. Heads(w)
    <3>1. \A j \in DOMAIN w : w[j].kind = "HS"
      BY <1>3, <2>1, <2>2 DEF CellOf
    <3> QED
      BY <1>2, <1>3, <1>4, <2>2, <3>1 DEF Heads
  <2>4. ASSUME NEW u \in Threads, NEW r \in Steps(u)', Waiting(u, r)' PROVE r.kind # "HS"
    <3>1. r \in Steps(u) /\ r.op = "packet" /\ (u = t => r \in Later(t))
      BY <2>4, GrownWaiting
    <3>2. u = t
      BY <2>1, <3>1 DEF Steps
    <3>3. Rank(First(t)) = 7
      BY <1>2, <1>3, <2>1, Ranks
    <3> QED
      BY <1>3, <3>1, <3>2, <3>3, RankAhead
  <2> QED
    BY <1>2, <2>3, <2>4 DEF Greeting
<1>6. CASE /\ Heads(s)
           /\ \A u \in Threads : \A r \in Steps(u) : Waiting(u, r) => r.kind # "HS"
  <2>1. p.kind # "HS"
    <3>1. p \in Steps(t)
      BY <1>2, <1>3, InvStack, Views DEF Calm
    <3>2. Waiting(t, p)
      BY <1>1, <1>2, <1>3, <3>1 DEF Waiting, Pending
    <3> QED
      BY <1>6, <3>1, <3>2
  <2>2. ASSUME NEW j \in DOMAIN w PROVE w[j].kind = "HS" <=> j <= h
    <3>1. CASE j \in DOMAIN s
      BY <1>2, <1>3, <1>6, <3>1 DEF Heads
    <3>2. CASE j \notin DOMAIN s
      <4>1. PICK i \in 1 .. n : j = Len(s) + i /\ w[j] = CellOf(t, p, i)
        BY <1>3, <3>2
      <4>2. w[j].kind # "HS"
        BY <2>1, <4>1 DEF CellOf
      <4>3. ~(j <= h)
        BY <1>2, <1>3, <1>4, <1>6, <4>1 DEF Heads
      <4> QED
        BY <4>2, <4>3
    <3> QED
      BY <3>1, <3>2
  <2>3. Len(w) >= h
    BY <1>2, <1>3, <1>4, <1>6 DEF Heads
  <2>4. Heads(w)
    BY <1>2, <2>2, <2>3 DEF Heads
  <2>5. ASSUME NEW u \in Threads, NEW r \in Steps(u)', Waiting(u, r)' PROVE r.kind # "HS"
    BY <1>6, <2>5, GrownWaiting
  <2> QED
    BY <1>2, <2>4, <2>5 DEF Greeting
<1> QED
  BY <1>1, <1>2, <1>5, <1>6 DEF Greeting

LEMMA NextGreeting ==
    ASSUME Quiescent, Calm, Calm', Holds, Fresh, Opened, Greeting, [Next]_vars
    PROVE  Greeting'
<1> SUFFICES ASSUME Live' PROVE Greeting'
  BY DEF Greeting
<1>0. ASSUME Live, Stream' = Stream,
             \A u \in Threads : Greets(u) => \E v \in Threads : Greets(v)',
             \A u \in Threads : \A s \in Steps(u)' : Waiting(u, s)' =>
                (s \in Steps(u) /\ Waiting(u, s)) \/ s.kind # "HS"
      PROVE  Greeting'
  BY <1>0 DEF Greeting
<1>1. CASE UNCHANGED vars
  <2>1. \A u \in Threads : stack'[u] = stack[u]
    BY <1>1 DEF vars
  <2>2. UNCHANGED <<fd_proc, out, pipe_buffer, head>>
    BY <1>1 DEF vars
  <2>3. Moving' <=> Moving
    BY <2>1, SameStack DEF Moving
  <2>4. Live /\ Stream' = Stream
    BY <2>1, <2>2, <2>3, SameStack, SameStream DEF Live
  <2>5. \A u \in Threads : Steps(u)' = Steps(u) /\ \A s : Waiting(u, s)' <=> Waiting(u, s)
    BY <2>1, SameStack, OtherWaiting
  <2>6. \A u \in Threads : Greets(u) => Greets(u)'
    BY <2>1, SameStack DEF Greets, Pending, Added, Overflows
  <2> QED
    BY <1>0, <2>4, <2>5, <2>6
<1>2. ASSUME NEW t \in Threads, EntryPoint(t) PROVE Greeting'
  <2>1. Streams(t) /\ Idle(t) /\ Others(t) /\ (\A u \in Threads : ~Solo(u))
    BY <1>2, EntryStreams, EnteringSteps, EntryEnds
  <2>2. ~StreamGrown(t)
    BY <2>1 DEF StreamGrown, Pending
  <2>3. ~StreamStarted
    BY <2>1, SoloSteps DEF StreamStarted, Live, Op
  <2>4. Live /\ Stream' = Stream
    BY <2>1, <2>2, <2>3 DEF Streams, StreamKept
  <2>5. \A u \in Threads : ~Greets(u)
    BY <2>1, GreeterAlone
  <2>6. ASSUME NEW u \in Threads, NEW s \in Steps(u)', Waiting(u, s)'
        PROVE  (s \in Steps(u) /\ Waiting(u, s)) \/ s.kind # "HS"
    <3>1. CASE u = t
      BY <1>2, <2>6, <3>1, NewHandshake DEF Waiting
    <3>2. CASE u # t
      <4>1. stack'[u] = stack[u]
        BY <2>1, <3>2 DEF Others
      <4> QED
        BY <2>6, <4>1, OtherWaiting, SameStack
    <3> QED
      BY <3>1, <3>2
  <2> QED
    BY <1>0, <2>4, <2>5, <2>6
<1>3. ASSUME NEW t \in Threads, Progress(t) PROVE Greeting'
  <2>1. Streams(t) /\ Others(t) /\ ~Idle(t)
    BY <1>3, ProgressStreams, ProgressOthers
  <2>2. CASE StreamGrown(t)
    BY <2>1, <2>2, GrownGreeting
  <2>3. CASE StreamStarted
    BY <1>3, <2>3, StartedGreets DEF StreamStarted, Greeting
  <2>4. CASE StreamKept(t)
    <3>1. Live /\ Stream' = Stream /\ fd_proc > 0
      BY <2>4 DEF StreamKept, Live
    <3>2. \A u \in Threads : Greets(u) => Greets(t)'
      <4> SUFFICES ASSUME NEW u \in Threads, Greets(u) PROVE Greets(t)'
        OBVIOUS
      <4>1. u = t
        BY <2>1, GreeterAlone
      <4> QED
        BY <1>3, <2>4, <4>1, StillGreets
    <3>3. ASSUME NEW u \in Threads, NEW s \in Steps(u)', Waiting(u, s)'
          PROVE  (s \in Steps(u) /\ Waiting(u, s)) \/ s.kind # "HS"
      <4>1. CASE u = t
        <5>1. s.op = "packet" /\ StepsKept(t)
          BY <1>3, <3>1, <3>3, MakingSteps DEF Waiting
        <5>2. CASE s \in Steps(t)
          BY <1>3, <3>1, <3>3, <4>1, <5>2, WaitingBefore
        <5>3. CASE s \notin Steps(t)
          BY <3>3, <4>1, <5>1, <5>3 DEF StepsKept
        <5> QED
          BY <5>2, <5>3
      <4>2. CASE u # t
        <5>1. stack'[u] = stack[u]
          BY <2>1, <4>2 DEF Others
        <5> QED
          BY <3>3, <5>1, OtherWaiting, SameStack
      <4> QED
        BY <4>1, <4>2
    <3> QED
      BY <1>0, <3>1, <3>2, <3>3
  <2> QED
    BY <2>1, <2>2, <2>3, <2>4 DEF Streams
<1> QED
  BY <1>1, <1>2, <1>3 DEF Next

(***************************************************************************)
(* The streams of all sessions.                                            *)
(***************************************************************************)

Whole == Live => WholePackets(Stream)
WellFormed(X) ==
    /\ WholePackets(X)
    /\ \A j \in DOMAIN X : X[j].kind = "HS" <=> j <= Size["HS"]
    /\ Unique(X)

LEMMA NextWhole ==
    ASSUME Quiescent, Calm, Calm', Holds, Fresh, Whole, [Next]_vars
    PROVE  Whole'
<1> SUFFICES ASSUME Live' PROVE WholePackets(Stream')
  BY DEF Whole
<1>1. CASE Live /\ Stream' = Stream
  BY <1>1 DEF Whole
<1>2. CASE Stream' = <<>>
  BY <1>2, EmptyWhole
<1>3. ASSUME NEW t \in Threads, StreamGrown(t) PROVE WholePackets(Stream')
  <2>1. Live
    BY <1>3 DEF StreamGrown
  <2> QED
    BY <1>3, <2>1, GrownWhole DEF Whole
<1> QED
  BY <1>1, <1>2, <1>3, StreamSteps

LEMMA EmptyWellFormed == WellFormed(<<>>)
<1>1. DOMAIN <<>> = {}
  OBVIOUS
<1> QED
  BY <1>1, EmptyWhole DEF WellFormed, Unique

LEMMA LiveWellFormed ==
    ASSUME Live, Whole, Sole, Greeting
    PROVE  WellFormed(Stream)
<1>1. CASE Stream = <<>>
  BY <1>1, EmptyWellFormed
<1>2. CASE Heads(Stream)
  BY <1>2 DEF Heads, Whole, Sole, WellFormed
<1> QED
  BY <1>1, <1>2 DEF Greeting

LEMMA NextWellFormed ==
    ASSUME Quiescent, Calm, Holds, Fresh, Whole, Sole, Greeting, StreamsWellFormed, [Next]_vars
    PROVE  StreamsWellFormed'
<1>1. out \in Seq(Seq(Cell))
  BY StreamTypes
<1>2. \A k \in DOMAIN out : WellFormed(out[k])
  BY DEF StreamsWellFormed, WellFormed, Unique, Sessions
<1>3. \A k \in DOMAIN out' : WellFormed(out'[k])
  <2>1. CASE out' = out
    BY <1>2, <2>1
  <2>2. CASE out' = Append(out, <<>>)
    <3> SUFFICES ASSUME NEW k \in DOMAIN out' PROVE WellFormed(out'[k])
      OBVIOUS
    <3>1. CASE k \in DOMAIN out
      <4>1. out'[k] = out[k]
        BY <1>1, <2>2, <3>1
      <4> QED
        BY <1>2, <3>1, <4>1
    <3>2. CASE k \notin DOMAIN out
      <4>1. out'[k] = <<>>
        BY <1>1, <2>2, <3>2
      <4> QED
        BY <4>1, EmptyWellFormed
    <3> QED
      BY <3>1, <3>2
  <2>3. CASE Live /\ fd_proc \in DOMAIN out /\ out' = [out EXCEPT ![fd_proc] = Stream]
    <3>1. PICK x : x = Stream
      OBVIOUS
    <3>2. WellFormed(x)
      BY <2>3, <3>1, LiveWellFormed
    <3>3. out' = [out EXCEPT ![fd_proc] = x]
      BY <2>3, <3>1
    <3> QED
      BY <1>1, <1>2, <3>2, <3>3
  <2> QED
    BY <2>1, <2>2, <2>3, NextOut
<1> QED
  BY <1>3 DEF StreamsWellFormed, WellFormed, Unique, Sessions

(* With the toggle signal, initialization and exit coming while no call is *)
(* in progress and an open pipe that takes what is written to it: for any  *)
(* number of threads, modules, types, calls and toggles, and any buffer    *)
(* and packet sizes, the stream of every session starts with the handshake *)
(* that write_initial_data sends, has no other, and is a sequence of whole *)
(* packets, none of which is sent twice: neither write_initial_data's      *)
(* loops over the registries and the registrations after them, nor the end *)
(* of the session at the toggle or at exit, repeat or split one.           *)
THEOREM StreamsStayWellFormed ==
    ASSUME Quiescent, ~WriteMayFail
    PROVE  Spec => []StreamsWellFormed
<1> DEFINE I == /\ Calm /\ Holds /\ Fresh /\ Opened /\ Ahead /\ Sole /\ Greeting /\ Whole
                /\ StreamsWellFormed
<1>1. Init => I
  <2> SUFFICES ASSUME Init PROVE I
    OBVIOUS
  <2>1. Calm /\ Holds /\ Fresh
    BY InitCalm, InitHolds, InitFresh
  <2>2. \A t \in Threads : Steps(t) = {}
    BY DEF Init, Steps, Idle
  <2>3. fd_proc = 0 /\ ~Live
    BY DEF Init, Live
  <2>4. \A t \in Threads : \A op : ~Op(t, op)
    BY <2>2 DEF Op
  <2>5. Opened /\ Ahead
    BY <2>3, <2>4 DEF Opened, Ahead
  <2>6. Sole /\ Greeting /\ Whole
    BY <2>3 DEF Sole, Greeting, Whole
  <2>7. StreamsWellFormed
    BY DEF Init, StreamsWellFormed, Sessions
  <2> QED
    BY <2>1, <2>5, <2>6, <2>7
<1>2. I /\ [Next]_vars => I'
  BY NextCalm, NextHolds, NextFresh, NextOpened, NextAhead, NextSole, NextGreeting, NextWhole,
     NextWellFormed
<1> QED
  BY <1>1, <1>2, PTL DEF Spec
=============================================================================
