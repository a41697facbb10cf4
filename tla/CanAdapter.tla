------------------------------ MODULE CanAdapter ------------------------------
(***************************************************************************)
(* The CAN transport adapter (internal/adapters/can/adapter.go): one read  *)
(* loop, concurrent WriteProperty calls, WatchDevice and Close.            *)
(*                                                                         *)
(* a.mu is held only for the reads and updates that are single steps here. *)
(* The onUpdate calls that processFrame makes once it has released a.mu    *)
(* are Publish of module Broker and change nothing in the adapter.         *)
(***************************************************************************)
EXTENDS CanCodec

CONSTANTS Writers,        \* concurrent WriteProperty calls
          Devices,        \* devices passed to WatchDevice
          Messages,       \* messages of the DBC file
          Databases,      \* the DBC files considered, each [Messages -> signals]
          Writes,         \* writes asked for, <<signal name, physical value or NotNumeric>>
          BusFrames,      \* frames other nodes send, <<message, payload>>
          None, NotNumeric

ASSUME CanAssumption ==
    /\ \A d \in Databases, m \in Messages : Message(d[m])
    /\ \A f \in BusFrames : f[1] \in Messages /\ f[2] \in Payloads
    /\ \A x \in Writes : x[2] \in Int \cup {NotNumeric}
    /\ None \notin Writers \cup Payloads

Names(d, m) == {s.Name : s \in d[m]}

VARIABLES
    db,                 \* the parsed DBC file
    sock,               \* a.sock is set
    fd,                 \* the socket: "none", "open" or "closed"
    failed,             \* history: a read of the socket failed while it was open
    done,               \* a.done is closed
    lastReadErr,        \* a.lastReadErr is set
    frames,             \* a.frames
    values,             \* a.values
    watched,            \* a.watched, the message label of each device
    watchedByMessage,   \* a.watchedByMessage
    writeLocks,         \* holder of each message's write lock
    writer,             \* local state of the WriteProperty calls
    reader,             \* local state of readLoop
    closer,             \* progress of Close
    written             \* history: what completed writes left in each signal

socketVars == <<sock, fd, failed, done, lastReadErr, closer>>
cacheVars == <<frames, values, written>>
watchVars == <<watched, watchedByMessage>>
vars == <<db, socketVars, cacheVars, watchVars, writeLocks, writer, reader>>

IdleWriter == [pc |-> "idle", msg |-> None, sig |-> None, val |-> None, base |-> None, data |-> None]

Reader(pc) == [pc |-> pc, msg |-> None, data |-> None]

(* New *)
Init ==
    /\ db \in Databases
    /\ sock = FALSE /\ fd = "none" /\ failed = FALSE /\ done = FALSE /\ lastReadErr = FALSE
    /\ frames = [m \in Messages |-> None]
    /\ values = [m \in Messages |-> [n \in Names(db, m) |-> None]]
    /\ written = [m \in Messages |-> [n \in Names(db, m) |-> None]]
    /\ watched = [d \in Devices |-> None]
    /\ watchedByMessage = [m \in Messages |-> {}]
    /\ writeLocks = [m \in Messages |-> None]
    /\ writer = [w \in Writers |-> IdleWriter]
    /\ reader = Reader("none")
    /\ closer = "none"

Open ==
    /\ fd = "none"
    /\ sock' = TRUE
    /\ fd' = "open"
    /\ reader' = Reader("top")
    /\ UNCHANGED <<db, failed, done, lastReadErr, closer, cacheVars, watchVars, writeLocks, writer>>

(* The cached value of a signal; None stands for ErrNoFrameYet.            *)
ReadProperty(m, s) == values[m][s.Name]

(* What GET /health says of the adapter once the gateway is ready.         *)
Healthy == ~lastReadErr
Health == IF Healthy THEN "ok" ELSE "degraded"

(***************************************************************************)
(* processFrame, under a.mu: the frame and every signal it carries.        *)
(***************************************************************************)
processFrame(m, data) ==
    /\ frames' = [frames EXCEPT ![m] = data]
    /\ values' = [values EXCEPT ![m] = [n \in DOMAIN @ |->
                     LET sig == CHOOSE s \in db[m] : s.Name = n
                     IN  IF sig \in Active(db[m], data) THEN decode(sig, data) ELSE @[n]]]

(***************************************************************************)
(* readLoop                                                                *)
(***************************************************************************)
(* A faulty loop that looks at a.done only after a read error.             *)
ReadTopBlind ==
    /\ reader.pc = "top"
    /\ reader' = Reader("read")
    /\ UNCHANGED <<db, socketVars, cacheVars, watchVars, writeLocks, writer>>

ReadTop ==
    /\ reader.pc = "top"
    /\ reader' = Reader(IF done THEN "stopped" ELSE "read")
    /\ UNCHANGED <<db, socketVars, cacheVars, watchVars, writeLocks, writer>>

ReadFrame ==
    /\ reader.pc = "read" /\ fd = "open"
    /\ \E f \in BusFrames : reader' = [pc |-> "handle", msg |-> f[1], data |-> f[2]]
    /\ UNCHANGED <<db, socketVars, cacheVars, watchVars, writeLocks, writer>>

(* The read times out, or brings a frame that no message of the DBC has.   *)
ReadTimeout ==
    /\ reader.pc = "read"
    /\ reader' = Reader("top")
    /\ UNCHANGED <<db, socketVars, cacheVars, watchVars, writeLocks, writer>>

(* The read fails: the socket is closed, the interface is down, a signal   *)
(* interrupts the call, or the kernel hands out less than a frame.         *)
ReadError ==
    /\ reader.pc = "read"
    /\ failed' = (failed \/ fd = "open")
    /\ reader' = Reader("error")
    /\ UNCHANGED <<db, sock, fd, done, lastReadErr, closer, cacheVars, watchVars, writeLocks, writer>>

(* A read error counts unless Close has begun, and ends the loop.  The     *)
(* socket stays open, and writes go on.                                    *)
ReadErrorSeen ==
    /\ reader.pc = "error"
    /\ lastReadErr' = (lastReadErr \/ ~done)
    /\ reader' = Reader("stopped")
    /\ UNCHANGED <<db, sock, fd, failed, done, closer, cacheVars, watchVars, writeLocks, writer>>

ReaderHandles ==
    /\ reader.pc = "handle"
    /\ processFrame(reader.msg, reader.data)
    /\ written' = [written EXCEPT ![reader.msg] = [n \in DOMAIN @ |-> None]]
    /\ reader' = Reader("top")
    /\ UNCHANGED <<db, socketVars, watchVars, writeLocks, writer>>

(***************************************************************************)
(* WriteProperty                                                           *)
(***************************************************************************)
(* resolve found the signal and a.sock is set; otherwise the call returns  *)
(* at once.                                                                *)
StartWrite(w) ==
    /\ writer[w].pc = "idle" /\ sock
    /\ \E m \in Messages, x \in Writes : \E s \in db[m] :
          /\ s.Name = x[1]
          /\ writer' = [writer EXCEPT ![w] =
                 [IdleWriter EXCEPT !.pc = "lock", !.msg = m, !.sig = s, !.val = x[2]]]
    /\ UNCHANGED <<db, socketVars, cacheVars, watchVars, writeLocks, reader>>

(* A faulty WriteProperty that does not take the write lock.               *)
LockNothing(w) ==
    /\ writer[w].pc = "lock"
    /\ writer' = [writer EXCEPT ![w].pc = "base"]
    /\ UNCHANGED <<db, socketVars, cacheVars, watchVars, writeLocks, reader>>

Lock(w) ==
    /\ writer[w].pc = "lock" /\ writeLocks[writer[w].msg] = None
    /\ writeLocks' = [writeLocks EXCEPT ![writer[w].msg] = w]
    /\ writer' = [writer EXCEPT ![w].pc = "base"]
    /\ UNCHANGED <<db, socketVars, cacheVars, watchVars, reader>>

(* The call returns and its deferred Unlock runs.                          *)
Return(w) ==
    /\ writer' = [writer EXCEPT ![w] = [IdleWriter EXCEPT !.pc = "returned"]]
    /\ writeLocks' = [m \in Messages |-> IF writeLocks[m] = w THEN None ELSE writeLocks[m]]

(* The last frame, or zeros, with the signal encoded into it.              *)
EncodeFrame(w) ==
    /\ writer[w].pc = "base" /\ writer[w].val # NotNumeric
    /\ LET m    == writer[w].msg
           base == IF frames[m] = None THEN ZeroPayload ELSE frames[m]
       IN  writer' = [writer EXCEPT ![w].pc = "write", ![w].base = base,
                                    ![w].data = Encode(db[m], base, writer[w].sig, writer[w].val)]
    /\ UNCHANGED <<db, socketVars, cacheVars, watchVars, writeLocks, reader>>

EncodeFails(w) ==
    /\ writer[w].pc = "base" /\ writer[w].val = NotNumeric
    /\ Return(w)
    /\ UNCHANGED <<db, socketVars, cacheVars, watchVars, reader>>

WriteFrame(w) ==
    /\ writer[w].pc = "write" /\ fd = "open"
    /\ writer' = [writer EXCEPT ![w].pc = "handle"]
    /\ UNCHANGED <<db, socketVars, cacheVars, watchVars, writeLocks, reader>>

WriteFails(w) ==
    /\ writer[w].pc = "write"
    /\ Return(w)
    /\ UNCHANGED <<db, socketVars, cacheVars, watchVars, reader>>

(* Bits that a write of sig into a frame of msg may change.                *)
Footprint(msg, sig) ==
    LET touched == {sig} \cup (IF sig.MuxValue # NoMux THEN Multiplexors(msg) ELSE {})
    IN  UNION {Occupied(s) : s \in touched}

WriterHandles(w) ==
    LET m == writer[w].msg
        sig == writer[w].sig
    IN  /\ writer[w].pc = "handle"
        /\ processFrame(m, writer[w].data)
        /\ written' = [written EXCEPT ![m] = [n \in DOMAIN @ |->
               LET s == CHOOSE x \in db[m] : x.Name = n
               IN  IF s = sig /\ Representable(s, writer[w].val) THEN writer[w].val
                   ELSE IF Occupied(s) \cap Footprint(db[m], sig) = {} THEN @[n]
                   ELSE None]]
        /\ Return(w)
        /\ UNCHANGED <<db, socketVars, watchVars, reader>>

(***************************************************************************)
(* WatchDevice and Close                                                   *)
(***************************************************************************)
WatchDevice(d) ==
    \E m \in Messages :
        /\ watched' = [watched EXCEPT ![d] = m]
        /\ watchedByMessage' = [x \in Messages |->
               IF x = m THEN watchedByMessage[x] \cup {d}
               ELSE IF x = watched[d] THEN watchedByMessage[x] \ {d}
               ELSE watchedByMessage[x]]
        /\ UNCHANGED <<db, socketVars, cacheVars, writeLocks, writer, reader>>

CloseStart ==
    /\ closer = "none" /\ fd # "none"
    /\ sock' = FALSE
    /\ closer' = "detached"
    /\ UNCHANGED <<db, fd, failed, done, lastReadErr, cacheVars, watchVars, writeLocks, writer, reader>>

(* A faulty Close that closes the socket before it announces so.           *)
CloseDoneLate ==
    /\ closer = "detached"
    /\ fd' = "closed"
    /\ closer' = "announced"
    /\ UNCHANGED <<db, sock, done, failed, lastReadErr, cacheVars, watchVars, writeLocks, writer, reader>>

CloseDone ==
    /\ closer = "detached"
    /\ done' = TRUE
    /\ closer' = "announced"
    /\ UNCHANGED <<db, sock, fd, failed, lastReadErr, cacheVars, watchVars, writeLocks, writer, reader>>

CloseSocket ==
    /\ closer = "announced"
    /\ fd' = "closed"
    /\ closer' = "closed"
    /\ UNCHANGED <<db, sock, done, failed, lastReadErr, cacheVars, watchVars, writeLocks, writer, reader>>

ReadStep == ReadTop \/ ReadFrame \/ ReadTimeout \/ ReadError \/ ReadErrorSeen \/ ReaderHandles

WriteStep(w) == EncodeFrame(w) \/ EncodeFails(w) \/ WriteFrame(w) \/ WriteFails(w) \/ WriterHandles(w)

CloseStep == CloseDone \/ CloseSocket

Next ==
    \/ Open \/ ReadStep
    \/ \E w \in Writers : StartWrite(w) \/ Lock(w) \/ WriteStep(w)
    \/ \E d \in Devices : WatchDevice(d)
    \/ CloseStart \/ CloseStep

(* The goroutine of the read loop and the one that called Close run when   *)
(* they can: a read returns after its timeout at the latest.               *)
Fairness == WF_vars(ReadStep) /\ WF_vars(CloseStep)

Spec == Init /\ [][Next]_vars /\ Fairness

-----------------------------------------------------------------------------
(* Every variable holds a value of its type; in particular every payload   *)
(* that packRaw produced consists of bits.                                 *)
TypeOK ==
    /\ db \in Databases
    /\ {sock, failed, done, lastReadErr} \subseteq BOOLEAN
    /\ fd \in {"none", "open", "closed"}
    /\ frames \in [Messages -> Payloads \cup {None}]
    /\ watched \in [Devices -> Messages \cup {None}]
    /\ watchedByMessage \in [Messages -> SUBSET Devices]
    /\ writeLocks \in [Messages -> Writers \cup {None}]
    /\ reader.pc \in {"none", "top", "read", "error", "handle", "stopped"}
    /\ closer \in {"none", "detached", "announced", "closed"}
    /\ \A w \in Writers : /\ writer[w].pc \in {"idle", "lock", "base", "write", "handle", "returned"}
                          /\ writer[w].data \in Payloads \cup {None}

(* The integer whose bits a payload holds, its first bit the lowest, and   *)
(* the payload with its bytes in reverse order.                            *)
Number(data) == Sums([b \in Bits |-> data[b] * Pow2[b]], 8 * NBytes)[8 * NBytes]
Swapped(data) == [b \in Bits |-> data[Swap(b)]]

(* A signal's raw value cut out of that integer, without bit positions.    *)
Field(sig, data) ==
    LET whole == Number(IF sig.LittleEndian THEN data ELSE Swapped(data))
    IN  (whole \div Pow2[LowestBit(sig)]) % Pow2[sig.Length]

(* The number those bits stand for, and its physical value, both exact.    *)
Value(sig, raw) == IF sig.Signed /\ 2 * raw >= Pow2[sig.Length] THEN raw - Pow2[sig.Length] ELSE raw
Physical(sig, raw) == Value(sig, raw) * sig.Factor + sig.Offset

(* What ReadProperty returns for a signal that the last frame carries is   *)
(* made of the bits that frame holds, read off the payload as one big      *)
(* integer: frames and values never drift apart, whoever processed the     *)
(* frame, and the bit positions of both byte orders are right.  It is the  *)
(* exact physical value for all unscaled signals, except the upper half of *)
(* a full-width unsigned one, and for scaled ones within 2^Precision.  The *)
(* state has its types.                                                    *)
CacheIsTheLastFrame ==
    TypeOK /\ \A m \in Messages : frames[m] # None =>
        \A s \in db[m] :
            (s.MuxValue # NoMux => \E x \in db[m] : x.IsMultiplexor /\ Field(x, frames[m]) = s.MuxValue)
            => LET n == Value(s, Field(s, frames[m]))
               IN  /\ ReadProperty(m, s) = Scaled(s, n)
                   /\ ReadsExactly(s, n) => ReadProperty(m, s) = n * s.Factor + s.Offset

(* The frame a WriteProperty call is about to send differs from the frame  *)
(* it started from only in the bits of its signal and, for a multiplexed   *)
(* signal, of the multiplexor; it carries the signal, with the value asked *)
(* for whenever the signal can represent it and int64 and float64 pass it  *)
(* on unrounded.                                                           *)
WriteTouchesOnlyItsSignal ==
    \A w \in Writers : writer[w].pc \in {"write", "handle"} =>
        LET c == writer[w]
        IN  /\ \A b \in Bits \ Footprint(db[c.msg], c.sig) : c.data[b] = c.base[b]
            /\ c.sig \in Active(db[c.msg], c.data)
            /\ Representable(c.sig, c.val) => Physical(c.sig, Field(c.sig, c.data)) = c.val

(* Completed writes are not lost: until another node's frame arrives, the  *)
(* last frame holds the value of every completed write that no later write *)
(* to the same bits replaced, however the calls interleave.                *)
WritesSurvive ==
    \A m \in Messages : \A s \in db[m] :
        written[m][s.Name] # None => Physical(s, Field(s, frames[m])) = written[m][s.Name]

(* /health tells the truth: it reports the adapter degraded only if a read *)
(* of the open socket failed, and never for the error that Close provokes  *)
(* by closing it; and a read loop that ended without Close is reported.    *)
HealthIsTruthful ==
    /\ Health = "degraded" => failed
    /\ (reader.pc = "stopped" /\ ~done) => Health = "degraded"

(* Once Close has returned, the read loop ends.                            *)
CloseStopsReader == (closer = "closed") ~> (reader.pc = "stopped")
=============================================================================
