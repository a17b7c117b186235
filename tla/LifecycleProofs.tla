--------------------------- MODULE LifecycleProofs ---------------------------
(***************************************************************************)
(* What holds of the process for every number of HTTP threads, and of the   *)
(* WAV encoding for every word size, scale, sample and count.  The first    *)
(* part is arithmetic: what build_wav_from_float_samples writes is what a   *)
(* reader of the file gets.  The second is the inductive invariant LifeInv, *)
(* which ties what exists (the handler, the adapter, the pool, the worker,  *)
(* the engine, the buffer) to where main(), the signal handler and          *)
(* synthesize() are.                                                        *)
(***************************************************************************)
EXTENDS Lifecycle, TLAPS

(* The greater of two integers. *)
LEMMA MaxOfTwo ==
  ASSUME NEW a \in Int, NEW b \in Int
  PROVE  Max({a, b}) = IF a >= b THEN a ELSE b
BY DEF Max

(* The lesser of two integers. *)
LEMMA MinOfTwo ==
  ASSUME NEW a \in Int, NEW b \in Int
  PROVE  Min({a, b}) = IF a <= b THEN a ELSE b
BY DEF Min

(* A reader gets back the 16 bits write_u16 wrote. *)
LEMMA U16RoundTrip ==
  ASSUME NEW val \in Nat, val < 65536
  PROVE  ReadU16(WriteU16(val)) = val
BY DEF ReadU16, WriteU16

(* A reader gets back the 32 bits write_u32 wrote. *)
LEMMA U32RoundTrip ==
  ASSUME NEW val \in Nat, val < Word
  PROVE  ReadU32(WriteU32(val)) = val
<1>1. val <= 4294967295
  BY BackendAssumption
<1>2. QED
BY <1>1 DEF ReadU32, WriteU32

(* What integer division is. *)
LEMMA DivBounds ==
  ASSUME NEW a \in Nat, NEW b \in Nat \ {0}
  PROVE  /\ a \div b \in Nat
         /\ (a \div b) * b <= a
         /\ a < (a \div b) * b + b
OBVIOUS

(* Scaling a magnitude of at most One loses less than one step. *)
LEMMA ScaleBounds ==
  ASSUME NEW c \in Nat, c <= One, NEW q, q = (c * 32767) \div One
  PROVE  /\ q \in Nat /\ q <= 32767
         /\ q * One <= c * 32767 /\ c * 32767 < q * One + One
         /\ c = One => q = 32767
<1>1. One \in Nat /\ One > 0
  BY BackendAssumption
<1>2. c * 32767 \in Nat
  OBVIOUS
<1>3. q \in Nat /\ q * One <= c * 32767 /\ c * 32767 < q * One + One
  BY <1>1, <1>2, DivBounds
<1>4. q <= 32767
  <2> SUFFICES ASSUME q >= 32768 PROVE FALSE
    BY <1>3
  <2>1. q * One >= 32768 * One
    BY <1>1, <1>3
  <2>2. QED
    BY <1>1, <1>3, <2>1
<1>5. c = One => q = 32767
  <2> SUFFICES ASSUME c = One, q <= 32766 PROVE FALSE
    BY <1>3, <1>4
  <2>1. q * One <= 32766 * One
    BY <1>1, <1>3
  <2>2. QED
    BY <1>1, <1>3, <2>1
<1>6. QED
  BY <1>3, <1>4, <1>5

(* The int16_t a sample becomes, before it is written. *)
Scaled(v) == IF Clamp(v) >= 0 THEN (Clamp(v) * 32767) \div One
                              ELSE -((-Clamp(v) * 32767) \div One)

(* A number is clamped to the scale, and left alone inside it. *)
LEMMA ClampBounds ==
  ASSUME NEW v \in Int
  PROVE  /\ Clamp(v) \in Int /\ -One <= Clamp(v) /\ Clamp(v) <= One
         /\ v > One => Clamp(v) = One
         /\ v < -One => Clamp(v) = -One
         /\ v <= One /\ v >= -One => Clamp(v) = v
<1>1. One \in Nat /\ One > 0 /\ -One \in Int /\ -One < One /\ v # NaN
  BY BackendAssumption
<1>2. Min({One, v}) = IF One <= v THEN One ELSE v
  BY <1>1, MinOfTwo
<1>3. Clamp(v) = IF -One >= Min({One, v}) THEN -One ELSE Min({One, v})
  BY <1>1, <1>2, MaxOfTwo DEF Clamp
<1>4. QED
  BY <1>1, <1>2, <1>3

(* The int16_t stands for the clamped sample, on both sides of zero. *)
LEMMA ScaledInverse ==
  ASSUME NEW v, NEW c \in Int, c = Clamp(v), -One <= c, c <= One, NEW s, s = Scaled(v)
  PROVE  /\ s \in Int /\ -32767 <= s /\ s <= 32767
         /\ 1 - One <= c * 32767 - s * One /\ c * 32767 - s * One <= One - 1
         /\ c = One => s = 32767
         /\ c = -One => s = -32767
<1>1. One \in Nat /\ One > 0 /\ -One \in Int
  BY BackendAssumption
<1>2. CASE c >= 0
  <2>1. s = (c * 32767) \div One
    BY <1>2 DEF Scaled
  <2>2. /\ s \in Nat /\ s <= 32767
        /\ s * One <= c * 32767 /\ c * 32767 < s * One + One
        /\ c = One => s = 32767
    BY <1>2, <2>1, ScaleBounds
  <2>3. c # -One
    BY <1>1, <1>2
  <2>4. c * 32767 \in Int /\ s * One \in Int
    BY <1>1, <2>2
  <2>5. 1 - One <= c * 32767 - s * One /\ c * 32767 - s * One <= One - 1
    BY <1>1, <2>2, <2>4
  <2>6. QED
    BY <2>2, <2>3, <2>5
<1>3. CASE c < 0
  <2>1. PICK b \in Nat : b <= One /\ c = -b /\ b = -c
    <3>1. -c \in Nat /\ -c <= One /\ c = -(-c)
      BY <1>1, <1>3
    <3>2. QED
      BY <3>1
  <2>2. PICK q : q = (b * 32767) \div One
    OBVIOUS
  <2>3. s = -q
    <3>1. -c * 32767 = b * 32767
      BY <2>1
    <3>2. s = -((-c * 32767) \div One)
      BY <1>3 DEF Scaled
    <3>3. QED
      BY <2>2, <3>1, <3>2
  <2>4. /\ q \in Nat /\ q <= 32767
        /\ q * One <= b * 32767 /\ b * 32767 < q * One + One
        /\ b = One => q = 32767
    BY <2>1, <2>2, ScaleBounds
  <2>5. c # One /\ (c = -One => b = One)
    BY <1>1, <1>3, <2>1
  <2>6. /\ c * 32767 = -(b * 32767) /\ s * One = -(q * One)
        /\ b * 32767 \in Int /\ q * One \in Int
    BY <1>1, <2>1, <2>3, <2>4
  <2>7. 1 - One <= c * 32767 - s * One /\ c * 32767 - s * One <= One - 1
    BY <1>1, <2>4, <2>6
  <2>8. QED
    BY <2>3, <2>4, <2>5, <2>7
<1>4. QED
  BY <1>2, <1>3

(* The conversion to uint16_t wraps, and a reader unwraps it. *)
LEMMA SignedDecodes ==
  ASSUME NEW s \in Int, -32767 <= s, s <= 32767,
         NEW u, u = ReadU16(WriteU16(s % 65536))
  PROVE  s = IF u >= 32768 THEN u - 65536 ELSE u
<1>1. s % 65536 \in Nat /\ s % 65536 < 65536
  OBVIOUS
<1>2. u = s % 65536
  BY <1>1, U16RoundTrip
<1>3. s % 65536 = IF s >= 0 THEN s ELSE s + 65536
  <2>1. CASE s >= 0
    BY <2>1
  <2>2. CASE s < 0
    BY <2>2
  <2>3. QED
    BY <2>1, <2>2
<1>4. QED
  BY <1>2, <1>3

(* What is read back from the bytes of a sample. *)
LEMMA PcmInRange ==
  ASSUME NEW v, NEW s, s = Scaled(v), s \in Int, -32767 <= s, s <= 32767
  PROVE  /\ ReadI16(Pcm(v)) = s
         /\ -32767 <= ReadI16(Pcm(v)) /\ ReadI16(Pcm(v)) <= 32767
<1>1. Pcm(v) = WriteU16(s % 65536)
  BY DEF Pcm, Scaled
<1>2. ReadI16(WriteU16(s % 65536)) = s
  BY SignedDecodes DEF ReadI16
<1>3. QED
  BY <1>1, <1>2

(* A NaN is encoded as some value of the scale. *)
LEMMA PcmOfNaN == -32767 <= ReadI16(Pcm(NaN)) /\ ReadI16(Pcm(NaN)) <= 32767
<1>1. One \in Int /\ -One <= One /\ One <= One
  BY BackendAssumption
<1>2. One = Clamp(NaN)
  BY DEF Clamp
<1>3. PICK s : s = Scaled(NaN)
  OBVIOUS
<1>4. s \in Int /\ -32767 <= s /\ s <= 32767
  BY <1>1, <1>2, <1>3, ScaledInverse
<1>5. QED
  BY <1>3, <1>4, PcmInRange

(* A number is encoded as the value nearest to it. *)
LEMMA PcmOfNumber ==
  ASSUME NEW v \in Int
  PROVE  /\ -32767 <= ReadI16(Pcm(v)) /\ ReadI16(Pcm(v)) <= 32767
         /\ Nearest(v, ReadI16(Pcm(v)))
<1>1. One \in Int /\ -One \in Int
  BY BackendAssumption
<1>2. PICK c : c = Clamp(v)
  OBVIOUS
<1>3. PICK s : s = Scaled(v)
  OBVIOUS
<1>4. /\ c \in Int /\ -One <= c /\ c <= One
      /\ v > One => c = One
      /\ v < -One => c = -One
      /\ v <= One /\ v >= -One => c = v
  BY <1>2, ClampBounds
<1>5. /\ s \in Int /\ -32767 <= s /\ s <= 32767
      /\ 1 - One <= c * 32767 - s * One /\ c * 32767 - s * One <= One - 1
      /\ c = One => s = 32767
      /\ c = -One => s = -32767
  BY <1>2, <1>3, <1>4, ScaledInverse
<1>6. ReadI16(Pcm(v)) = s /\ -32767 <= ReadI16(Pcm(v)) /\ ReadI16(Pcm(v)) <= 32767
  BY <1>3, <1>5, PcmInRange
<1>7. ASSUME v \in -One .. One PROVE v * 32767 - s * One \in 1 - One .. One - 1
  <2>1. c = v
    BY <1>1, <1>4, <1>7
  <2>2. v * 32767 - s * One \in Int
    BY <1>1, <1>5
  <2>3. 1 - One <= v * 32767 - s * One /\ v * 32767 - s * One <= One - 1
    BY <1>5, <2>1
  <2>4. QED
    BY <1>1, <2>2, <2>3
<1>8. (v > One => s = 32767) /\ (v < -One => s = -32767)
  BY <1>4, <1>5
<1>9. QED
  BY <1>6, <1>7, <1>8 DEF Nearest

(* Both kinds of sample. *)
LEMMA PcmDecodes ==
  ASSUME NEW v \in Int \cup {NaN}
  PROVE  /\ -32767 <= ReadI16(Pcm(v)) /\ ReadI16(Pcm(v)) <= 32767
         /\ v # NaN => Nearest(v, ReadI16(Pcm(v)))
<1>1. CASE v = NaN
  BY <1>1, PcmOfNaN
<1>2. CASE v \in Int
  BY <1>2, PcmOfNumber
<1>3. QED
  BY <1>1, <1>2

(* There is no file, or one of an int's worth of samples. *)
WavInv ==
  wav = NoWav \/ \E n \in Nat \ {0}, v \in Int \cup {NaN} :
                    2 * n < Word /\ wav = BuildWav(n, v)

(* The sizes of a file, and where its samples end. *)
LEMMA HeaderSizes ==
  ASSUME NEW n \in Nat \ {0}, NEW v, 2 * n < Word, NEW f, f = BuildWav(n, v)
  PROVE  /\ ReadU32(f.header.data_size) = 2 * n
         /\ 44 + 2 * n < Word => f.size = 44 + 2 * n /\ ReadU32(f.header.file_size) = f.size - 8
         /\ f.ends = f.size <=> 44 + 2 * n < Word
<1>1. /\ (2 * n) % Word = 2 * n
      /\ (2 * (n - 1)) % Word = 2 * (n - 1)
  BY BackendAssumption
<1>2. /\ f.header = [file_size |-> WriteU32((36 + 2 * n) % Word),
                     data_size |-> WriteU32(2 * n)]
      /\ f.size = (44 + 2 * n) % Word
      /\ f.ends = 44 + 2 * (n - 1) + 2
  BY <1>1 DEF BuildWav, BuildWavHeader
<1>3. ReadU32(f.header.data_size) = 2 * n
  BY <1>2, U32RoundTrip
<1>4. CASE 44 + 2 * n < Word
  <2>1. (36 + 2 * n) % Word = 36 + 2 * n /\ (44 + 2 * n) % Word = 44 + 2 * n
    BY <1>4, BackendAssumption
  <2>2. 36 + 2 * n \in Nat /\ 36 + 2 * n < Word
    BY <1>4, BackendAssumption
  <2>3. ReadU32(f.header.file_size) = 36 + 2 * n
    BY <1>2, <2>1, <2>2, U32RoundTrip
  <2>4. QED
    BY <1>2, <1>3, <1>4, <2>1, <2>3
<1>5. CASE ~(44 + 2 * n < Word)
  <2>1. (44 + 2 * n) % Word < Word
    BY BackendAssumption
  <2>2. f.ends # f.size
    BY <1>2, <1>5, <2>1, BackendAssumption
  <2>3. QED
    BY <1>3, <1>5, <2>2
<1>6. QED
  BY <1>4, <1>5

(* A file is what its header says, as far as its size fields go. *)
LEMMA BuildWavConsistent ==
  ASSUME NEW n \in Nat \ {0}, NEW v \in Int \cup {NaN}, 2 * n < Word
  PROVE  FileConsistent(BuildWav(n, v))
<1>1. PICK f : f = BuildWav(n, v)
  OBVIOUS
<1>2. f.count = n /\ f.sample = v /\ f.pcm = Pcm(v)
  BY <1>1 DEF BuildWav
<1>3. /\ ReadU32(f.header.data_size) = 2 * n
      /\ 44 + 2 * n < Word => f.size = 44 + 2 * n /\ ReadU32(f.header.file_size) = f.size - 8
      /\ f.ends = f.size <=> 44 + 2 * n < Word
  BY <1>1, HeaderSizes
<1>4. /\ -32767 <= ReadI16(f.pcm) /\ ReadI16(f.pcm) <= 32767
      /\ f.sample # NaN => Nearest(f.sample, ReadI16(f.pcm))
  BY <1>2, PcmDecodes
<1>5. QED
  BY <1>1, <1>2, <1>3, <1>4 DEF FileConsistent, Fits

(* The invariant of the file implies the property. *)
LEMMA WavInvConsistent == WavInv => WavConsistent
BY BuildWavConsistent DEF WavInv, WavConsistent

-----------------------------------------------------------------------------
(* The places of main() up to the end of sigaction; while the adapter       *)
(* exists; while g_adapter points to it; while the pool is surely open; and *)
(* once the worker has been joined.                                         *)
Unhandled == {"create", "install", "failed", "killed"}
Published == {"announce", "starting", "listen", "accepting", "returned", "refused",
              "unbound", "unpublish"}
Built     == Published \cup {"publish", "stopping", "closing", "join", "closed", "stopped"}
Open      == Published \cup {"install", "construct", "publish", "stopping", "closing"}
Joined    == {"create", "failed", "closed", "stopped", "unwind", "exited"}

(* Where main() is tells what exists. *)
PhaseInv ==
  /\ installed <=> mpc \notin Unhandled
  /\ gAdapter <=> mpc \in Published
  /\ adapterAlive <=> mpc \in Built
  /\ mpc \in Open => poolOpen
  /\ mpc \in Joined => worker = "absent"
  /\ \A h \in HttpPool : http[h] # "absent" => mpc = "accepting"

(* The signal handler runs on a thread that lives, and has seen the adapter. *)
HandlerInv ==
  /\ handlerOn = Nobody <=> handler = "none"
  /\ handlerOn \in HttpPool => http[handlerOn] # "absent"
  /\ handlerOn = Worker => worker \in {"idle", "busy", "logging"}
  /\ handler \in {"running", "log", "stop"} => adapterAlive

(* The engine lives until main() returns, and only the worker enters it. *)
EngineInv ==
  /\ engine /\ mpc # "exited" => ctx = "live"
  /\ spc # "out" => worker \in {"busy", "logging"}

(* What has become of the buffer at each place of synthesize(). *)
BufferInv ==
  /\ spc \in {"out", "generate"} => buffer = "null"
  /\ spc = "stub" => buffer = "null" /\ ~engine
  /\ spc \in {"check", "no memory"} => buffer \in {"null", "held"}
  /\ spc \in {"release", "crashed"} => buffer = "held"
  /\ spc = "returned" => buffer = IF engine THEN "freed" ELSE "null"
  /\ spc = "threw" => buffer \in {"null", "freed"}
  /\ spc \in {"generate", "check", "release"} => engine

(* The inductive invariant of the process. *)
LifeInv ==
  /\ ProcessTypeOK /\ BackendTypeOK /\ RunningInStart
  /\ PhaseInv
  /\ HandlerInv
  /\ EngineInv
  /\ BufferInv
  /\ WavInv

-----------------------------------------------------------------------------
(* What the life cycle does to the backend. *)
BackendNext ==
  BackendInitialize \/ BackendDestroy \/ CallSynthesize \/ Synthesize \/ SynthesizeOver

(* Every step of the process is one of the backend, or leaves it alone. *)
LEMMA BackendSteps == [LifeNext]_lifeVars => [BackendNext]_backendVars
<1> SUFFICES ASSUME [LifeNext]_lifeVars PROVE [BackendNext]_backendVars
  OBVIOUS
<1>1. CASE MainStep
  BY <1>1 DEF BackendNext, MainStep, Initialize, InitializeFails, InstallHandlers,
     ConstructAdapter, PublishAdapter, MainLock, StartAdapter, CallListen, ListenBinds,
     ListenFails, ListenReturns, LeaveStart, BindFailed, UnpublishAdapter, EnterShutdown,
     ClosePool, JoinWorker, LeaveShutdown, DestroyAdapter, DestroyBackend
<1>2. CASE \E h \in HttpPool : Serve(h) \/ ServeLock(h) \/ Served(h)
  BY <1>2 DEF Serve, ServeLock, Served
<1>3. CASE WorkerBegins \/ WorkerOn
  BY <1>3 DEF BackendNext, WorkerBegins, WorkerOn, WorkerSynthesizes, WorkerLogs,
     WorkerEnds,
     WorkerLeaves
<1>4. CASE SignalKills \/ SignalArrives \/ HandlerStep
  BY <1>4 DEF SignalKills, SignalArrives, HandlerStep, HandlerReadsAdapter,
     HandlerReadsRunning, HandlerLogs, HandlerStops
<1>5. CASE UNCHANGED lifeVars
  BY <1>5 DEF lifeVars, backendVars
<1>6. QED
  BY <1>1, <1>2, <1>3, <1>4, <1>5 DEF LifeNext

(* Every step of the backend keeps its types. *)
LEMMA BackendTypeNext ==
  BackendTypeOK /\ [BackendNext]_backendVars => BackendTypeOK'
<1> SUFFICES ASSUME BackendTypeOK, [BackendNext]_backendVars PROVE BackendTypeOK'
  OBVIOUS
<1> USE DEF BackendTypeOK
<1>1. CASE BackendInitialize
  BY <1>1 DEF BackendInitialize
<1>2. CASE BackendDestroy
  BY <1>2 DEF BackendDestroy
<1>3. CASE CallSynthesize
  BY <1>3 DEF CallSynthesize
<1>4. CASE GenerateReturns
  BY <1>4 DEF GenerateReturns
<1>5. CASE GenerateFailed \/ Release
  BY <1>5 DEF GenerateFailed, Release
<1>6. CASE Encode \/ EncodeThrows \/ Stub
  BY <1>6 DEF Encode, EncodeThrows, Stub
<1>7. CASE SynthesizeOver
  BY <1>7 DEF SynthesizeOver, Nothing
<1>8. CASE UNCHANGED backendVars
  BY <1>8 DEF backendVars
<1>9. QED
  BY <1>1, <1>2, <1>3, <1>4, <1>5, <1>6, <1>7, <1>8 DEF BackendNext, Synthesize

(* Only files that fit their size fields are built. *)
LEMMA WavNext ==
  BackendTypeOK /\ WavInv /\ [BackendNext]_backendVars => WavInv'
<1> SUFFICES ASSUME BackendTypeOK, WavInv, [BackendNext]_backendVars PROVE WavInv'
  OBVIOUS
<1>1. CASE UNCHANGED wav
  BY <1>1 DEF WavInv
<1>2. CASE SynthesizeOver
  BY <1>2 DEF SynthesizeOver, WavInv, NoWav
<1>3. CASE Encode
  <2>1. PICK n, v : n = got.count /\ v = got.sample
    OBVIOUS
  <2>2. n \in SampleCounts \cup {0} /\ v \in Samples \cup {0}
    BY <2>1 DEF BackendTypeOK
  <2>3. n > 0 /\ wav' = BuildWav(n, v)
    BY <1>3, <2>1 DEF Encode, Usable
  <2>4. n \in Int
    BY <2>2, BackendAssumption
  <2>5. n \in SampleCounts /\ n \in Nat \ {0}
    BY <2>2, <2>3, <2>4
  <2>6. v \in Int \cup {NaN} /\ 2 * n < Word
    BY <2>2, <2>5, BackendAssumption
  <2>7. QED
    BY <2>3, <2>5, <2>6 DEF WavInv
<1>4. CASE Stub
  <2>1. wav' = BuildWav(StubSamples, 0)
    BY <1>4 DEF Stub
  <2>2. StubSamples \in Nat \ {0} /\ 2 * StubSamples < Word /\ 0 \in Int \cup {NaN}
    BY BackendAssumption
  <2>3. QED
    BY <2>1, <2>2 DEF WavInv
<1>5. QED
  BY <1>1, <1>2, <1>3, <1>4 DEF BackendNext, BackendInitialize, BackendDestroy,
     CallSynthesize, Synthesize, GenerateReturns, GenerateFailed, Release, EncodeThrows,
     backendVars

(* Every step of the backend keeps the books of the buffer, if the engine   *)
(* does not come or go under synthesize().                                  *)
LEMMA BufferNext ==
  ASSUME BackendTypeOK, BufferInv, [BackendNext]_backendVars,
  spc = "out" \/ UNCHANGED engine
  PROVE  BufferInv'
<1> USE DEF BufferInv, BackendTypeOK
<1>1. CASE BackendInitialize
  <2>1. UNCHANGED <<spc, buffer>>
    BY <1>1 DEF BackendInitialize
  <2>2. CASE spc = "out"
    BY <2>1, <2>2
  <2>3. CASE UNCHANGED engine
    BY <2>1, <2>3
  <2>4. QED
    BY <2>2, <2>3
<1>2. CASE BackendDestroy
  BY <1>2 DEF BackendDestroy
<1>3. CASE CallSynthesize
  BY <1>3 DEF CallSynthesize
<1>4. CASE GenerateReturns
  <2>1. spc = "generate" /\ spc' = "check" /\ buffer' \in {"null",
      "held"} /\ UNCHANGED engine
    BY <1>4 DEF GenerateReturns
  <2>2. engine
    BY <2>1
  <2>3. QED
    BY <2>1, <2>2
<1>5. CASE GenerateFailed
  BY <1>5 DEF GenerateFailed
<1>6. CASE Encode
  BY <1>6 DEF Encode, Usable
<1>7. CASE Release
  BY <1>7 DEF Release
<1>8. CASE EncodeThrows
  BY <1>8 DEF EncodeThrows
<1>9. CASE Stub
  BY <1>9 DEF Stub
<1>10. CASE SynthesizeOver
  BY <1>10 DEF SynthesizeOver
<1>11. CASE UNCHANGED backendVars
  BY <1>11 DEF backendVars
<1>12. QED
  BY <1>1, <1>2, <1>3, <1>4, <1>5, <1>6, <1>7, <1>8, <1>9, <1>10, <1>11
     DEF BackendNext, Synthesize

(* Every step keeps the types of the process. *)
LEMMA ProcessTypeNext ==
  ProcessTypeOK /\ [LifeNext]_lifeVars => ProcessTypeOK'
<1> SUFFICES ASSUME ProcessTypeOK, [LifeNext]_lifeVars PROVE ProcessTypeOK'
  OBVIOUS
<1> USE LifecycleAssumption DEF ProcessTypeOK, FlagTypesOK, ThreadTypesOK, Places,
    LogPoints, Ended, MainAt, Logged, serverVars, signalVars, backendVars
<1>1. CASE Initialize
  BY <1>1 DEF Initialize, BackendInitialize
<1>2. CASE InitializeFails
  BY <1>2 DEF InitializeFails
<1>3. CASE InstallHandlers
  BY <1>3 DEF InstallHandlers
<1>4. CASE ConstructAdapter
  BY <1>4 DEF ConstructAdapter
<1>5. CASE PublishAdapter
  BY <1>5 DEF PublishAdapter
<1>6. CASE MainLock
  BY <1>6 DEF MainLock, LogPoints
<1>7. CASE StartAdapter
  BY <1>7 DEF StartAdapter
<1>8. CASE CallListen
  BY <1>8 DEF CallListen
<1>9. CASE ListenBinds
  BY <1>9 DEF ListenBinds
<1>10. CASE ListenFails
  BY <1>10 DEF ListenFails
<1>11. CASE ListenReturns
  <2>1. FlagTypesOK'
    BY <1>11 DEF ListenReturns
  <2>2. ThreadTypesOK'
    BY <1>11 DEF ListenReturns
  <2>3. QED
    BY <2>1, <2>2
<1>12. CASE LeaveStart
  <2>1. FlagTypesOK'
    BY <1>12 DEF LeaveStart
  <2>2. ThreadTypesOK'
    BY <1>12 DEF LeaveStart
  <2>3. QED
    BY <2>1, <2>2
<1>13. CASE BindFailed
  BY <1>13 DEF BindFailed
<1>14. CASE UnpublishAdapter
  <2>1. FlagTypesOK'
    BY <1>14 DEF UnpublishAdapter
  <2>2. ThreadTypesOK'
    BY <1>14 DEF UnpublishAdapter
  <2>3. QED
    BY <2>1, <2>2
<1>15. CASE EnterShutdown
  BY <1>15 DEF EnterShutdown
<1>16. CASE ClosePool
  <2>1. FlagTypesOK'
    BY <1>16 DEF ClosePool
  <2>2. ThreadTypesOK'
    BY <1>16 DEF ClosePool
  <2>3. QED
    BY <2>1, <2>2
<1>17. CASE JoinWorker
  BY <1>17 DEF JoinWorker
<1>18. CASE LeaveShutdown
  BY <1>18 DEF LeaveShutdown
<1>19. CASE DestroyAdapter
  <2>1. FlagTypesOK'
    BY <1>19 DEF DestroyAdapter
  <2>2. ThreadTypesOK'
    BY <1>19 DEF DestroyAdapter
  <2>3. QED
    BY <2>1, <2>2
<1>20. CASE DestroyBackend
  BY <1>20 DEF DestroyBackend, BackendDestroy
<1>21. CASE \E h \in HttpPool : Serve(h)
  BY <1>21 DEF Serve
<1>22. CASE \E h \in HttpPool : ServeLock(h)
  BY <1>22 DEF ServeLock
<1>23. CASE \E h \in HttpPool : Served(h)
  BY <1>23 DEF Served
<1>24. CASE WorkerBegins
  BY <1>24 DEF WorkerBegins, CallSynthesize
<1>25. CASE WorkerSynthesizes
  BY <1>25 DEF WorkerSynthesizes
<1>26. CASE WorkerLogs
  <2>1. FlagTypesOK'
    BY <1>26 DEF WorkerLogs, SynthesizeEnded
  <2>2. ThreadTypesOK'
    BY <1>26 DEF WorkerLogs, SynthesizeEnded
  <2>3. QED
    BY <2>1, <2>2
<1>27. CASE WorkerEnds
  BY <1>27 DEF WorkerEnds, SynthesizeOver
<1>28. CASE WorkerLeaves
  BY <1>28 DEF WorkerLeaves
<1>29. CASE SignalKills
  BY <1>29 DEF SignalKills, Ended
<1>30. CASE SignalArrives
  BY <1>30 DEF SignalArrives, LiveThreads, Ended
<1>31. CASE HandlerReadsAdapter
  BY <1>31 DEF HandlerReadsAdapter, HandlerReturns
<1>32. CASE HandlerReadsRunning
  BY <1>32 DEF HandlerReadsRunning, HandlerReturns
<1>33. CASE HandlerLogs
  BY <1>33 DEF HandlerLogs
<1>34. CASE HandlerStops
  BY <1>34 DEF HandlerStops, HandlerReturns
<1>35. CASE UNCHANGED lifeVars
  BY <1>35 DEF lifeVars
<1>36. QED
  BY <1>1, <1>2, <1>3, <1>4, <1>5, <1>6, <1>7, <1>8, <1>9, <1>10, <1>11, <1>12, <1>13,
     <1>14, <1>15, <1>16, <1>17, <1>18, <1>19, <1>20, <1>21, <1>22, <1>23, <1>24, <1>25,
         <1>26, <1>27, <1>28, <1>29, <1>30, <1>31, <1>32, <1>33, <1>34, <1>35
     DEF LifeNext, MainStep, HandlerStep, WorkerOn

(* start() clears running_ on every way out. *)
LEMMA RunningNext ==
  LifeInv /\ [LifeNext]_lifeVars => RunningInStart'
<1> SUFFICES ASSUME LifeInv, [LifeNext]_lifeVars PROVE RunningInStart'
  OBVIOUS
<1> USE LifecycleAssumption DEF LifeInv, PhaseInv, Unhandled, RunningInStart, MainAt,
    Logged, serverVars, signalVars, backendVars
<1>1. CASE Initialize
  BY <1>1 DEF Initialize, BackendInitialize
<1>2. CASE InitializeFails
  BY <1>2 DEF InitializeFails
<1>3. CASE InstallHandlers
  BY <1>3 DEF InstallHandlers
<1>4. CASE ConstructAdapter
  BY <1>4 DEF ConstructAdapter
<1>5. CASE PublishAdapter
  BY <1>5 DEF PublishAdapter
<1>6. CASE MainLock
  BY <1>6 DEF MainLock, LogPoints
<1>7. CASE StartAdapter
  BY <1>7 DEF StartAdapter
<1>8. CASE CallListen
  BY <1>8 DEF CallListen
<1>9. CASE ListenBinds
  BY <1>9 DEF ListenBinds
<1>10. CASE ListenFails
  BY <1>10 DEF ListenFails
<1>11. CASE ListenReturns
  BY <1>11 DEF ListenReturns
<1>12. CASE LeaveStart
  BY <1>12 DEF LeaveStart
<1>13. CASE BindFailed
  BY <1>13 DEF BindFailed
<1>14. CASE UnpublishAdapter
  BY <1>14 DEF UnpublishAdapter
<1>15. CASE EnterShutdown
  BY <1>15 DEF EnterShutdown
<1>16. CASE ClosePool
  BY <1>16 DEF ClosePool
<1>17. CASE JoinWorker
  BY <1>17 DEF JoinWorker
<1>18. CASE LeaveShutdown
  BY <1>18 DEF LeaveShutdown
<1>19. CASE DestroyAdapter
  BY <1>19 DEF DestroyAdapter
<1>20. CASE DestroyBackend
  BY <1>20 DEF DestroyBackend, BackendDestroy
<1>21. CASE \E h \in HttpPool : Serve(h)
  BY <1>21 DEF Serve
<1>22. CASE \E h \in HttpPool : ServeLock(h)
  BY <1>22 DEF ServeLock
<1>23. CASE \E h \in HttpPool : Served(h)
  BY <1>23 DEF Served
<1>24. CASE WorkerBegins
  BY <1>24 DEF WorkerBegins, CallSynthesize
<1>25. CASE WorkerSynthesizes
  BY <1>25 DEF WorkerSynthesizes
<1>26. CASE WorkerLogs
  BY <1>26 DEF WorkerLogs, SynthesizeEnded
<1>27. CASE WorkerEnds
  BY <1>27 DEF WorkerEnds, SynthesizeOver
<1>28. CASE WorkerLeaves
  BY <1>28 DEF WorkerLeaves
<1>29. CASE SignalKills
  BY <1>29 DEF SignalKills, Ended
<1>30. CASE SignalArrives
  BY <1>30 DEF SignalArrives, LiveThreads, Ended
<1>31. CASE HandlerReadsAdapter
  BY <1>31 DEF HandlerReadsAdapter, HandlerReturns
<1>32. CASE HandlerReadsRunning
  BY <1>32 DEF HandlerReadsRunning, HandlerReturns
<1>33. CASE HandlerLogs
  BY <1>33 DEF HandlerLogs
<1>34. CASE HandlerStops
  BY <1>34 DEF HandlerStops, HandlerReturns
<1>35. CASE UNCHANGED lifeVars
  BY <1>35 DEF lifeVars
<1>36. QED
  BY <1>1, <1>2, <1>3, <1>4, <1>5, <1>6, <1>7, <1>8, <1>9, <1>10, <1>11, <1>12, <1>13,
     <1>14, <1>15, <1>16, <1>17, <1>18, <1>19, <1>20, <1>21, <1>22, <1>23, <1>24, <1>25,
         <1>26, <1>27, <1>28, <1>29, <1>30, <1>31, <1>32, <1>33, <1>34, <1>35
     DEF LifeNext, MainStep, HandlerStep, WorkerOn

(* Every step keeps what main()'s place tells. *)
LEMMA PhaseNext ==
  LifeInv /\ [LifeNext]_lifeVars => PhaseInv'
<1> SUFFICES ASSUME LifeInv, [LifeNext]_lifeVars PROVE PhaseInv'
  OBVIOUS
<1> USE LifecycleAssumption DEF LifeInv, ProcessTypeOK, FlagTypesOK, ThreadTypesOK,
    PhaseInv, HandlerInv, EngineInv, Unhandled, Published, Built, Open, Joined, MainAt,
    Logged, serverVars, signalVars, backendVars
<1>1. CASE Initialize
  BY <1>1 DEF Initialize, BackendInitialize
<1>2. CASE InitializeFails
  BY <1>2 DEF InitializeFails
<1>3. CASE InstallHandlers
  BY <1>3 DEF InstallHandlers
<1>4. CASE ConstructAdapter
  BY <1>4 DEF ConstructAdapter
<1>5. CASE PublishAdapter
  BY <1>5 DEF PublishAdapter
<1>6. CASE MainLock
  BY <1>6 DEF MainLock, LogPoints
<1>7. CASE StartAdapter
  BY <1>7 DEF StartAdapter
<1>8. CASE CallListen
  BY <1>8 DEF CallListen
<1>9. CASE ListenBinds
  BY <1>9 DEF ListenBinds
<1>10. CASE ListenFails
  BY <1>10 DEF ListenFails
<1>11. CASE ListenReturns
  BY <1>11 DEF ListenReturns
<1>12. CASE LeaveStart
  BY <1>12 DEF LeaveStart
<1>13. CASE BindFailed
  BY <1>13 DEF BindFailed
<1>14. CASE UnpublishAdapter
  BY <1>14 DEF UnpublishAdapter
<1>15. CASE EnterShutdown
  BY <1>15 DEF EnterShutdown
<1>16. CASE ClosePool
  BY <1>16 DEF ClosePool
<1>17. CASE JoinWorker
  BY <1>17 DEF JoinWorker
<1>18. CASE LeaveShutdown
  BY <1>18 DEF LeaveShutdown
<1>19. CASE DestroyAdapter
  BY <1>19 DEF DestroyAdapter
<1>20. CASE DestroyBackend
  BY <1>20 DEF DestroyBackend, BackendDestroy
<1>21. CASE \E h \in HttpPool : Serve(h)
  BY <1>21 DEF Serve
<1>22. CASE \E h \in HttpPool : ServeLock(h)
  BY <1>22 DEF ServeLock
<1>23. CASE \E h \in HttpPool : Served(h)
  BY <1>23 DEF Served
<1>24. CASE WorkerBegins
  BY <1>24 DEF WorkerBegins, CallSynthesize
<1>25. CASE WorkerSynthesizes
  BY <1>25 DEF WorkerSynthesizes
<1>26. CASE WorkerLogs
  BY <1>26 DEF WorkerLogs, SynthesizeEnded
<1>27. CASE WorkerEnds
  BY <1>27 DEF WorkerEnds, SynthesizeOver
<1>28. CASE WorkerLeaves
  BY <1>28 DEF WorkerLeaves
<1>29. CASE SignalKills
  BY <1>29 DEF SignalKills, Ended
<1>30. CASE SignalArrives
  BY <1>30 DEF SignalArrives, LiveThreads, Ended
<1>31. CASE HandlerReadsAdapter
  BY <1>31 DEF HandlerReadsAdapter, HandlerReturns
<1>32. CASE HandlerReadsRunning
  BY <1>32 DEF HandlerReadsRunning, HandlerReturns
<1>33. CASE HandlerLogs
  BY <1>33 DEF HandlerLogs
<1>34. CASE HandlerStops
  BY <1>34 DEF HandlerStops, HandlerReturns
<1>35. CASE UNCHANGED lifeVars
  BY <1>35 DEF lifeVars
<1>36. QED
  BY <1>1, <1>2, <1>3, <1>4, <1>5, <1>6, <1>7, <1>8, <1>9, <1>10, <1>11, <1>12, <1>13,
     <1>14, <1>15, <1>16, <1>17, <1>18, <1>19, <1>20, <1>21, <1>22, <1>23, <1>24, <1>25,
         <1>26, <1>27, <1>28, <1>29, <1>30, <1>31, <1>32, <1>33, <1>34, <1>35
     DEF LifeNext, MainStep, HandlerStep, WorkerOn

(* main() joins every thread the handler may be running on, and is suspended *)
(* itself when it runs the handler, before it destroys the adapter.        *)
LEMMA HandlerNext ==
  LifeInv /\ [LifeNext]_lifeVars => HandlerInv'
<1> SUFFICES ASSUME LifeInv, [LifeNext]_lifeVars PROVE HandlerInv'
  OBVIOUS
<1> USE LifecycleAssumption DEF LifeInv, ProcessTypeOK, FlagTypesOK, ThreadTypesOK,
    PhaseInv, HandlerInv, Published, Built, Open, Joined, MainAt, Logged, serverVars,
    signalVars, backendVars
<1>1. CASE Initialize
  BY <1>1 DEF Initialize, BackendInitialize
<1>2. CASE InitializeFails
  BY <1>2 DEF InitializeFails
<1>3. CASE InstallHandlers
  BY <1>3 DEF InstallHandlers
<1>4. CASE ConstructAdapter
  BY <1>4 DEF ConstructAdapter
<1>5. CASE PublishAdapter
  BY <1>5 DEF PublishAdapter
<1>6. CASE MainLock
  BY <1>6 DEF MainLock, LogPoints
<1>7. CASE StartAdapter
  BY <1>7 DEF StartAdapter
<1>8. CASE CallListen
  BY <1>8 DEF CallListen
<1>9. CASE ListenBinds
  BY <1>9 DEF ListenBinds
<1>10. CASE ListenFails
  BY <1>10 DEF ListenFails
<1>11. CASE ListenReturns
  BY <1>11 DEF ListenReturns
<1>12. CASE LeaveStart
  BY <1>12 DEF LeaveStart
<1>13. CASE BindFailed
  BY <1>13 DEF BindFailed
<1>14. CASE UnpublishAdapter
  BY <1>14 DEF UnpublishAdapter
<1>15. CASE EnterShutdown
  BY <1>15 DEF EnterShutdown
<1>16. CASE ClosePool
  BY <1>16 DEF ClosePool
<1>17. CASE JoinWorker
  BY <1>17 DEF JoinWorker
<1>18. CASE LeaveShutdown
  BY <1>18 DEF LeaveShutdown
<1>19. CASE DestroyAdapter
  BY <1>19 DEF DestroyAdapter
<1>20. CASE DestroyBackend
  BY <1>20 DEF DestroyBackend, BackendDestroy
<1>21. CASE \E h \in HttpPool : Serve(h)
  BY <1>21 DEF Serve
<1>22. CASE \E h \in HttpPool : ServeLock(h)
  BY <1>22 DEF ServeLock
<1>23. CASE \E h \in HttpPool : Served(h)
  BY <1>23 DEF Served
<1>24. CASE WorkerBegins
  BY <1>24 DEF WorkerBegins, CallSynthesize
<1>25. CASE WorkerSynthesizes
  BY <1>25 DEF WorkerSynthesizes
<1>26. CASE WorkerLogs
  BY <1>26 DEF WorkerLogs, SynthesizeEnded
<1>27. CASE WorkerEnds
  BY <1>27 DEF WorkerEnds, SynthesizeOver
<1>28. CASE WorkerLeaves
  BY <1>28 DEF WorkerLeaves
<1>29. CASE SignalKills
  BY <1>29 DEF SignalKills, Ended
<1>30. CASE SignalArrives
  BY <1>30 DEF SignalArrives, LiveThreads, Ended
<1>31. CASE HandlerReadsAdapter
  BY <1>31 DEF HandlerReadsAdapter, HandlerReturns
<1>32. CASE HandlerReadsRunning
  BY <1>32 DEF HandlerReadsRunning, HandlerReturns
<1>33. CASE HandlerLogs
  BY <1>33 DEF HandlerLogs
<1>34. CASE HandlerStops
  BY <1>34 DEF HandlerStops, HandlerReturns
<1>35. CASE UNCHANGED lifeVars
  BY <1>35 DEF lifeVars
<1>36. QED
  BY <1>1, <1>2, <1>3, <1>4, <1>5, <1>6, <1>7, <1>8, <1>9, <1>10, <1>11, <1>12, <1>13,
     <1>14, <1>15, <1>16, <1>17, <1>18, <1>19, <1>20, <1>21, <1>22, <1>23, <1>24, <1>25,
         <1>26, <1>27, <1>28, <1>29, <1>30, <1>31, <1>32, <1>33, <1>34, <1>35
     DEF LifeNext, MainStep, HandlerStep, WorkerOn

(* Every step keeps the engine alive under the worker. *)
LEMMA EngineNext ==
  LifeInv /\ [LifeNext]_lifeVars => EngineInv'
<1> SUFFICES ASSUME LifeInv, [LifeNext]_lifeVars PROVE EngineInv'
  OBVIOUS
<1> USE LifecycleAssumption DEF LifeInv, ProcessTypeOK, FlagTypesOK, ThreadTypesOK,
    PhaseInv, EngineInv, Joined, MainAt, Logged, serverVars, signalVars, backendVars
<1>1. CASE Initialize
  BY <1>1 DEF Initialize, BackendInitialize
<1>2. CASE InitializeFails
  BY <1>2 DEF InitializeFails
<1>3. CASE InstallHandlers
  BY <1>3 DEF InstallHandlers
<1>4. CASE ConstructAdapter
  BY <1>4 DEF ConstructAdapter
<1>5. CASE PublishAdapter
  BY <1>5 DEF PublishAdapter
<1>6. CASE MainLock
  BY <1>6 DEF MainLock, LogPoints
<1>7. CASE StartAdapter
  BY <1>7 DEF StartAdapter
<1>8. CASE CallListen
  BY <1>8 DEF CallListen
<1>9. CASE ListenBinds
  BY <1>9 DEF ListenBinds
<1>10. CASE ListenFails
  BY <1>10 DEF ListenFails
<1>11. CASE ListenReturns
  BY <1>11 DEF ListenReturns
<1>12. CASE LeaveStart
  BY <1>12 DEF LeaveStart
<1>13. CASE BindFailed
  BY <1>13 DEF BindFailed
<1>14. CASE UnpublishAdapter
  BY <1>14 DEF UnpublishAdapter
<1>15. CASE EnterShutdown
  BY <1>15 DEF EnterShutdown
<1>16. CASE ClosePool
  BY <1>16 DEF ClosePool
<1>17. CASE JoinWorker
  BY <1>17 DEF JoinWorker
<1>18. CASE LeaveShutdown
  BY <1>18 DEF LeaveShutdown
<1>19. CASE DestroyAdapter
  BY <1>19 DEF DestroyAdapter
<1>20. CASE DestroyBackend
  BY <1>20 DEF DestroyBackend, BackendDestroy
<1>21. CASE \E h \in HttpPool : Serve(h)
  BY <1>21 DEF Serve
<1>22. CASE \E h \in HttpPool : ServeLock(h)
  BY <1>22 DEF ServeLock
<1>23. CASE \E h \in HttpPool : Served(h)
  BY <1>23 DEF Served
<1>24. CASE WorkerBegins
  BY <1>24 DEF WorkerBegins, CallSynthesize
<1>25. CASE WorkerSynthesizes
  <2>1. UNCHANGED <<engine, ctx, mpc, worker>> /\ spc # "out"
    BY <1>25 DEF WorkerSynthesizes, Synthesize, GenerateReturns, GenerateFailed, Encode,
       Release, EncodeThrows, Stub
  <2>2. QED
    BY <2>1
<1>26. CASE WorkerLogs
  BY <1>26 DEF WorkerLogs, SynthesizeEnded
<1>27. CASE WorkerEnds
  BY <1>27 DEF WorkerEnds, SynthesizeOver
<1>28. CASE WorkerLeaves
  BY <1>28 DEF WorkerLeaves
<1>29. CASE SignalKills
  BY <1>29 DEF SignalKills, Ended
<1>30. CASE SignalArrives
  BY <1>30 DEF SignalArrives, LiveThreads, Ended
<1>31. CASE HandlerReadsAdapter
  BY <1>31 DEF HandlerReadsAdapter, HandlerReturns
<1>32. CASE HandlerReadsRunning
  BY <1>32 DEF HandlerReadsRunning, HandlerReturns
<1>33. CASE HandlerLogs
  BY <1>33 DEF HandlerLogs
<1>34. CASE HandlerStops
  BY <1>34 DEF HandlerStops, HandlerReturns
<1>35. CASE UNCHANGED lifeVars
  BY <1>35 DEF lifeVars
<1>36. QED
  BY <1>1, <1>2, <1>3, <1>4, <1>5, <1>6, <1>7, <1>8, <1>9, <1>10, <1>11, <1>12, <1>13,
     <1>14, <1>15, <1>16, <1>17, <1>18, <1>19, <1>20, <1>21, <1>22, <1>23, <1>24, <1>25,
         <1>26, <1>27, <1>28, <1>29, <1>30, <1>31, <1>32, <1>33, <1>34, <1>35
     DEF LifeNext, MainStep, HandlerStep, WorkerOn

-----------------------------------------------------------------------------
(* The initial state satisfies the invariant. *)
LEMMA LifeInitInv == LifeInit => LifeInv
<1> SUFFICES ASSUME LifeInit PROVE LifeInv
  OBVIOUS
<1> USE DEF LifeInit, BackendInit
<1>1. FlagTypesOK /\ RunningInStart
  BY DEF FlagTypesOK, RunningInStart
<1>2. ThreadTypesOK
  BY DEF ThreadTypesOK, Places
<1>3. BackendTypeOK
  BY DEF BackendTypeOK, Nothing
<1>4. PhaseInv
  BY DEF PhaseInv, Unhandled, Published, Built, Open, Joined
<1>5. HandlerInv
  BY LifecycleAssumption DEF HandlerInv
<1>6. EngineInv /\ BufferInv /\ WavInv
  BY DEF EngineInv, BufferInv, WavInv
<1>7. QED
  BY <1>1, <1>2, <1>3, <1>4, <1>5, <1>6 DEF LifeInv, ProcessTypeOK

(* The engine comes only while nobody is in synthesize(). *)
LEMMA EngineComesFirst ==
  LifeInv /\ [LifeNext]_lifeVars => spc = "out" \/ UNCHANGED engine
<1> SUFFICES ASSUME LifeInv, [LifeNext]_lifeVars PROVE spc = "out" \/ UNCHANGED engine
  OBVIOUS
<1>1. CASE Initialize
  BY <1>1 DEF Initialize, MainAt, LifeInv, PhaseInv, EngineInv, Joined
<1>2. CASE ~Initialize
  BY <1>2 DEF LifeNext, MainStep, InitializeFails, InstallHandlers, ConstructAdapter,
     PublishAdapter, MainLock, StartAdapter, CallListen, ListenBinds, ListenFails,
     ListenReturns, LeaveStart, BindFailed, UnpublishAdapter, EnterShutdown, ClosePool,
     JoinWorker, LeaveShutdown, DestroyAdapter, DestroyBackend, BackendDestroy, Serve,
     ServeLock, Served, WorkerBegins, CallSynthesize, WorkerOn, WorkerSynthesizes,
     Synthesize, GenerateReturns, GenerateFailed, Encode, Release, EncodeThrows, Stub,
     WorkerLogs, WorkerEnds, SynthesizeOver, WorkerLeaves, SignalKills, SignalArrives,
     HandlerStep, HandlerReadsAdapter, HandlerReadsRunning, HandlerLogs, HandlerStops,
     backendVars, lifeVars
<1>3. QED
  BY <1>1, <1>2

(* The invariant of the process. *)
LEMMA LifeInvHolds == LifeSpec => []LifeInv
<1>1. LifeInv /\ [LifeNext]_lifeVars => LifeInv'
  <2> SUFFICES ASSUME LifeInv, [LifeNext]_lifeVars PROVE LifeInv'
    OBVIOUS
  <2>1. ProcessTypeOK' /\ RunningInStart'
    BY ProcessTypeNext, RunningNext DEF LifeInv
  <2>2. PhaseInv' /\ HandlerInv' /\ EngineInv'
    BY PhaseNext, HandlerNext, EngineNext
  <2>3. BackendTypeOK' /\ WavInv'
    BY BackendSteps, BackendTypeNext, WavNext DEF LifeInv
  <2>4. BufferInv'
    BY BackendSteps, EngineComesFirst, BufferNext DEF LifeInv
  <2>5. QED
    BY <2>1, <2>2, <2>3, <2>4 DEF LifeInv
<1>2. QED
  BY <1>1, LifeInitInv, PTL DEF LifeSpec

(* Every variable of the process keeps its type, and running_ is set only   *)
(* while start() runs.                                                      *)
THEOREM LifeTypeCorrect == LifeSpec => []LifeTypeOK
<1>1. LifeInv => LifeTypeOK
  BY DEF LifeInv, LifeTypeOK
<1>2. QED
  BY <1>1, LifeInvHolds, PTL

(* The signal handler never uses a destroyed HttpAdapter, however many HTTP *)
(* threads there are and whichever thread it runs on.                       *)
THEOREM HandlerNeverDangles == LifeSpec => []HandlerAdapterAlive
<1>1. LifeInv => HandlerAdapterAlive
  BY DEF LifeInv, HandlerInv, HandlerAdapterAlive
<1>2. QED
  BY <1>1, LifeInvHolds, PTL

(* The pool is open while any request is being served. *)
THEOREM PoolOutlivesRequests == LifeSpec => []PoolOutlivesHttp
<1>1. LifeInv => PoolOutlivesHttp
  BY DEF LifeInv, PhaseInv, Open, Published, PoolOutlivesHttp
<1>2. QED
  BY <1>1, LifeInvHolds, PTL

(* The engine is not freed under a running tts_generate(). *)
THEOREM EngineNeverFreedInUse == LifeSpec => []EngineAlive
<1>1. LifeInv => EngineAlive
  BY DEF LifeInv, PhaseInv, Joined, EngineInv, BufferInv, EngineAlive
<1>2. QED
  BY <1>1, LifeInvHolds, PTL

(* Every buffer of samples is freed exactly once, unless there was no memory *)
(* for the file.                                                             *)
THEOREM BuffersFreedOnce == LifeSpec => []SamplesReleased
<1>1. LifeInv => SamplesReleased
  <2> SUFFICES ASSUME LifeInv PROVE SamplesReleased
    OBVIOUS
  <2>1. spc \in {"returned", "threw"} => buffer \in {"null", "freed"}
    BY DEF LifeInv, BackendTypeOK, BufferInv
  <2>2. buffer # "freed twice"
    BY DEF LifeInv, BackendTypeOK, BufferInv
  <2>3. spc = "returned" /\ engine => buffer = "freed"
    BY DEF LifeInv, BufferInv
  <2>4. QED
    BY <2>1, <2>2, <2>3 DEF SamplesReleased
<1>2. QED
  BY <1>1, LifeInvHolds, PTL

(* Every WAV file is what its header says if and only if a uint32_t can     *)
(* count its bytes, and its samples decode to the floats they came from,    *)
(* for every scale, sample and count.                                       *)
THEOREM WavFilesConsistent == LifeSpec => []WavConsistent
<1>1. LifeInv => WavConsistent
  BY WavInvConsistent DEF LifeInv
<1>2. QED
  BY <1>1, LifeInvHolds, PTL

=============================================================================
