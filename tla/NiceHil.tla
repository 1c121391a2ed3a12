------------------------------ MODULE NiceHil -------------------------------
(***************************************************************************)
(* The instruction bridge (nice.h): the simulator's CUSTOM3 instructions   *)
(* (iss.cpp) sent to a coprocessor at the serial port, ten bytes out and   *)
(* five bytes back, without acknowledgements.  SM3_NICE and SM4_NICE each  *)
(* keep the reply of their last instruction.  The coprocessor that answers *)
(* ten bytes at once, and the adapter that brings its bytes to the host in *)
(* pieces, are not part of the repository.                                 *)
(* Byte i of the reply to call c is <<c, i>>; byte 5 is the cycle count.   *)
(***************************************************************************)
EXTENDS Naturals, Sequences

CONSTANTS
    Objects,    \* the bridge's objects: SM3_NICE and SM4_NICE
    CALLS,      \* bound: instructions issued
    UNPLUGS     \* bound: times the adapter is pulled out

ASSUME NiceHilAssumption == CALLS \in Nat /\ UNPLUGS \in Nat

VARIABLES
    pc,         \* "ready", "waiting" in the read loop, "aborted"
    calls,      \* instructions issued
    object,     \* the object the present instruction belongs to
    read_buff,  \* its last reply, of each object
    device,     \* the adapter is there
    fd,         \* the port of the present call: "open", "failed" to open, or
                \* "lost" since
    core,       \* the coprocessor has an instruction to answer
    line,       \* bytes of replies on their way to the host
    received,   \* bytes the host has received and not read
    unplugs,
    clean,      \* history: the line held nothing when the call was issued
    whole,      \* history: the last read brought all five bytes
    glitch      \* history: a read was short, or an error

nhVars == <<pc, calls, object, read_buff, device, fd, core, line, received,
            unplugs, clean, whole, glitch>>

Zeros == [i \in 1 .. 5 |-> <<0, i>>]
Reply(c) == [i \in 1 .. 5 |-> <<c, i>>]
Bytes == (0 .. CALLS) \X (1 .. 5)

NiceHilInit ==
    /\ pc = "ready" /\ calls = 0
    /\ object \in Objects
    /\ read_buff = [o \in Objects |-> Zeros]
    /\ device = TRUE /\ fd = "failed" /\ core = FALSE
    /\ line = <<>> /\ received = <<>> /\ unplugs = 0
    /\ clean = TRUE /\ whole = FALSE /\ glitch = FALSE

-----------------------------------------------------------------------------
(* set_dev without tcflush.                                                *)
set_dev_noflush(buffer) == buffer

(* set_dev: tcflush drops what has been received.                          *)
set_dev(buffer) == <<>>

(* custom3_*: open_dev, set_dev and the write of the ten bytes.  A port    *)
(* that does not open goes unnoticed: set_dev and write fail as well.      *)
Issue(o) ==
    /\ pc = "ready" /\ calls < CALLS
    /\ pc' = "waiting" /\ calls' = calls + 1 /\ object' = o
    /\ fd' = IF device THEN "open" ELSE "failed"
    /\ received' = IF device THEN set_dev(received) ELSE <<>>
    /\ core' = (core \/ device)
    /\ clean' = (line = <<>> /\ ~core)
    /\ UNCHANGED <<read_buff, device, line, unplugs, whole, glitch>>

Least(m, n) == IF m < n THEN m ELSE n

(* The read that ends the loop has brought n bytes; the rest of read_buff  *)
(* is what it was.  The count of the reply is charged to the pipeline,     *)
(* whose advance asserts that it is positive.                              *)
Return(n, counted) ==
    /\ read_buff' = [read_buff EXCEPT ![object] =
                        [i \in 1 .. 5 |-> IF i <= n THEN received[i] ELSE @[i]]]
    /\ whole' = (n = 5)
    /\ glitch' = (glitch \/ n < 5)
    /\ received' = SubSeq(received, n + 1, Len(received))
    /\ pc' = IF counted THEN "ready" ELSE "aborted"
    /\ UNCHANGED <<calls, object, device, fd, core, line, unplugs, clean>>

(* Counted: byte 5 of a reply is at least 2, a zero is not, and any other  *)
(* byte may be.                                                            *)
MayCount(byte) == byte[1] # 0
MayFail(byte) == byte[1] = 0 \/ byte[2] # 5

(* The count taken from the byte before it.                                *)
Charged_byte4(n, counted) ==
    LET byte == IF n = 5 THEN received[4] ELSE read_buff[object][4]
    IN  IF counted THEN MayCount(byte) ELSE MayFail(byte)

Charged(n, counted) ==
    LET byte == IF n = 5 THEN received[5] ELSE read_buff[object][5]
    IN  IF counted THEN MayCount(byte) ELSE MayFail(byte)

(* The loop ends at the first byte, however many are still to come ...     *)
ReadReply ==
    /\ pc = "waiting" /\ fd = "open" /\ received # <<>>
    /\ \E n \in {Least(5, Len(received))}, counted \in BOOLEAN :
          Charged(n, counted) /\ Return(n, counted)

(* ... and at an error: nread is unsigned, so that -1 is a count of bytes. *)
ReadError ==
    /\ pc = "waiting" /\ fd # "open"
    /\ \E counted \in BOOLEAN : Charged(0, counted) /\ Return(0, counted)

(* A loop that goes on after an error: nread held as a signed number.      *)
ReadFails_signed == FALSE /\ ReadError

(* A port that was never open fails at once; one that is lost may fail or  *)
(* read as empty for ever.                                                 *)
ReadFails == fd = "failed" /\ ReadError

(* The coprocessor answers the ten bytes.                                  *)
Answer ==
    /\ core
    /\ core' = FALSE
    /\ line' = line \o Reply(calls)
    /\ UNCHANGED <<pc, calls, object, read_buff, device, fd, received, unplugs,
                   clean, whole, glitch>>

(* The adapter, while it is there, hands the host some of the bytes.       *)
Arrive ==
    /\ device
    /\ \E n \in 1 .. Len(line) :
          /\ received' = received \o SubSeq(line, 1, n)
          /\ line' = SubSeq(line, n + 1, Len(line))
    /\ UNCHANGED <<pc, calls, object, read_buff, device, fd, core, unplugs,
                   clean, whole, glitch>>

(* The adapter is pulled out, and the board is reset with it.              *)
Unplug ==
    /\ device /\ unplugs < UNPLUGS
    /\ device' = FALSE /\ unplugs' = unplugs + 1
    /\ line' = <<>> /\ received' = <<>> /\ core' = FALSE
    /\ fd' = IF fd = "open" THEN "lost" ELSE fd
    /\ UNCHANGED <<pc, calls, object, read_buff, clean, whole, glitch>>

Plug ==
    /\ ~device
    /\ device' = TRUE
    /\ UNCHANGED <<pc, calls, object, read_buff, fd, core, line, received, unplugs,
                   clean, whole, glitch>>

NiceHilNext == (\E o \in Objects : Issue(o)) \/ ReadReply \/ ReadFails
               \/ (fd = "lost" /\ ReadError) \/ Answer \/ Arrive \/ Unplug \/ Plug

(* The coprocessor answers, the adapter delivers and the loop polls.       *)
NiceHilFairness ==
    /\ WF_nhVars(Answer) /\ WF_nhVars(Arrive)
    /\ WF_nhVars(ReadReply) /\ WF_nhVars(ReadFails)

NiceHilSpec == NiceHilInit /\ [][NiceHilNext]_nhVars /\ NiceHilFairness

-----------------------------------------------------------------------------
NiceHilTypeOK ==
    /\ pc \in {"ready", "waiting", "aborted"}
    /\ calls \in 0 .. CALLS /\ object \in Objects
    /\ read_buff \in [Objects -> [1 .. 5 -> Bytes]]
    /\ fd \in {"open", "failed", "lost"}
    /\ {device, core, clean, whole, glitch} \subseteq BOOLEAN
    /\ line \in Seq(Bytes) /\ received \in Seq(Bytes)
    /\ unplugs \in 0 .. UNPLUGS

(* Until a read is short or the port fails, every instruction returns the  *)
(* coprocessor's answer to it, and the simulator's assertion holds.        *)
RightWithoutGlitch ==
    ~glitch => /\ pc # "aborted"
               /\ (pc = "ready" /\ calls > 0) => read_buff[object] = Reply(calls)

(* After a glitch, an instruction issued with nothing left on its way is   *)
(* right again if its own read is whole: what set_dev flushes is enough.   *)
FlushRestores ==
    (pc = "ready" /\ calls > 0 /\ clean /\ whole) => read_buff[object] = Reply(calls)

(* Every instruction ends, with the adapter or, at once, without it, unless *)
(* the adapter is pulled out while the loop waits.                         *)
InstructionEnds == (pc = "waiting") ~> (pc # "waiting" \/ fd = "lost")
=============================================================================
