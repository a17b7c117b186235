---------------------------- MODULE VoxtralBackend ----------------------------
(***************************************************************************)
(* VoxtralBackend: the engine context it owns, and synthesize(), which gets  *)
(* a buffer of float samples from tts_generate() (external), encodes it as  *)
(* a WAV file and frees it; without an engine it makes a second of silence. *)
(*                                                                          *)
(* All samples of a buffer are alike here.  A sample counts in fractions of *)
(* One, its full scale.  The sizes are uint32_t, with Word values.          *)
(***************************************************************************)
EXTENDS Integers, FiniteSets, FiniteSetsExt

CONSTANTS
  Word,          \* how many values a uint32_t has
  One,           \* the float 1.0
  NaN,           \* the float that is no number
  Samples,       \* the samples the engine may produce
  SampleCounts,  \* and the counts it may report, an int: half as many values
  StubSamples    \* the samples in a second of silence

(* The second of silence fits a WAV file's size fields; what the engine     *)
(* returns need not.                                                        *)
ASSUME BackendAssumption ==
  /\ Word \in Nat \ {0} /\ (Word - 1) \div 65536 < 65536
  /\ One \in Nat \ {0}
  /\ NaN \notin Int
  /\ Samples \subseteq Int \cup {NaN}
  /\ SampleCounts \subseteq Int /\ \A n \in SampleCounts : 2 * n < Word
  /\ StubSamples \in Nat \ {0} /\ 44 + 2 * StubSamples < Word

VARIABLES
  ready,    \* initialized_
  engine,   \* use_real_engine_
  ctx,      \* what ctx_ points to: nothing, a context, or a freed one
  spc,      \* where the worker is in synthesize()
  buffer,   \* what has become of the buffer of samples
  got,      \* what tts_generate() returned: success, count, sample
  wav       \* the file that has been built

backendVars == <<ready, engine, ctx, spc, buffer, got, wav>>

Nothing == [ok |-> FALSE, count |-> 0, sample |-> 0]
NoWav   == [size |-> 0]

BackendInit ==
  /\ ready = FALSE
  /\ engine = FALSE
  /\ ctx = "none"
  /\ spc = "out"
  /\ buffer = "null"
  /\ got = Nothing
  /\ wav = NoWav

-----------------------------------------------------------------------------
(***************************************************************************)
(* The encoding                                                            *)
(***************************************************************************)
(* Little-endian bytes. *)
WriteU16(val) == <<val % 256, (val \div 256) % 256>>
WriteU32(val) == <<val % 256, (val \div 256) % 256, (val \div 65536) % 256,
                   (val \div 16777216) % 256>>

(* Variant: the RIFF size counts the whole file. *)
BuildWavHeaderWhole(n) ==
  LET data_size == (2 * n) % Word
  IN  [file_size |-> WriteU32((44 + data_size) % Word), data_size |-> WriteU32(data_size)]

BuildWavHeader(n) ==
  LET data_size == (2 * n) % Word
  IN  [file_size |-> WriteU32((36 + data_size) % Word), data_size |-> WriteU32(data_size)]

(* fmin() prefers 1.0 to a NaN. *)
Clamp(v) == IF v = NaN THEN One ELSE Max({-One, Min({One, v})})

(* The conversion to int16_t drops the fraction, the one to uint16_t wraps. *)
Pcm(v) ==
  LET scaled == IF Clamp(v) >= 0 THEN (Clamp(v) * 32767) \div One
                                 ELSE -((-Clamp(v) * 32767) \div One)
  IN  WriteU16(scaled % 65536)

(* build_wav_from_float_samples and build_silent_wav: the header, the size  *)
(* the vector is given, the bytes of each sample and where they end.        *)
BuildWav(n, v) ==
  [header |-> BuildWavHeader(n),
   size   |-> (44 + ((2 * n) % Word)) % Word,
   pcm    |-> Pcm(v),
   ends   |-> 44 + ((2 * (n - 1)) % Word) + 2,
   count  |-> n, sample |-> v]

-----------------------------------------------------------------------------
(***************************************************************************)
(* The object                                                              *)
(***************************************************************************)
(* initialize(): tts_load() returns a context or null, in which case, as in *)
(* a build without the engine, the stub serves.                             *)
BackendInitialize ==
  /\ engine' \in BOOLEAN
  /\ ctx' = IF engine' THEN "live" ELSE ctx
  /\ ready' = TRUE
  /\ UNCHANGED <<spc, buffer, got, wav>>

(* The destructor. *)
BackendDestroy ==
  /\ ctx' = IF ctx = "live" THEN "freed" ELSE ctx
  /\ UNCHANGED <<ready, engine, spc, buffer, got, wav>>

CallSynthesize ==
  /\ spc = "out"
  /\ spc' = IF ~ready THEN "threw" ELSE IF engine THEN "generate" ELSE "stub"
  /\ UNCHANGED <<ready, engine, ctx, buffer, got, wav>>

(* tts_generate() may fail with or without a buffer, and succeed without. *)
GenerateReturns ==
  /\ spc = "generate"
  /\ buffer' \in {"null", "held"}
  /\ got' \in [ok : BOOLEAN, count : SampleCounts, sample : Samples]
  /\ spc' = "check"
  /\ UNCHANGED <<ready, engine, ctx, wav>>

Usable == got.ok /\ buffer # "null" /\ got.count > 0

(* Variant: a failure is reported, and that is all. *)
GenerateFailedLeaks ==
  /\ spc = "check"
  /\ ~Usable
  /\ spc' = "threw"
  /\ UNCHANGED <<ready, engine, ctx, buffer, got, wav>>

GenerateFailed ==
  /\ spc = "check"
  /\ ~Usable
  /\ buffer' = IF buffer = "held" THEN "freed" ELSE buffer
  /\ spc' = "threw"
  /\ UNCHANGED <<ready, engine, ctx, got, wav>>

(* The file is built, then the buffer is freed.  If the samples end beyond  *)
(* the vector they are written all the same, which may end the process.     *)
Encode ==
  /\ spc = "check"
  /\ Usable
  /\ wav' = BuildWav(got.count, got.sample)
  /\ spc' \in {"release"} \cup (IF wav'.ends > wav'.size THEN {"crashed"} ELSE {})
  /\ UNCHANGED <<ready, engine, ctx, buffer, got>>

Release ==
  /\ spc = "release"
  /\ buffer' = IF buffer = "held" THEN "freed" ELSE "freed twice"
  /\ spc' = "returned"
  /\ UNCHANGED <<ready, engine, ctx, got, wav>>

(* No memory for the file: bad_alloc passes the free() by. *)
EncodeThrows ==
  /\ spc = "stub" \/ (spc = "check" /\ Usable)
  /\ spc' = "no memory"
  /\ UNCHANGED <<ready, engine, ctx, buffer, got, wav>>

Stub ==
  /\ spc = "stub"
  /\ wav' = BuildWav(StubSamples, 0)
  /\ spc' = "returned"
  /\ UNCHANGED <<ready, engine, ctx, buffer, got>>

Synthesize ==
  GenerateReturns \/ GenerateFailed \/ Encode \/ Release \/ EncodeThrows \/ Stub

SynthesizeEnded == spc \in {"returned", "threw", "no memory"}

Crashed == spc = "crashed"

(* The worker has passed the result on. *)
SynthesizeOver ==
  /\ spc' = "out"
  /\ buffer' = "null"
  /\ got' = Nothing
  /\ wav' = NoWav
  /\ UNCHANGED <<ready, engine, ctx>>

-----------------------------------------------------------------------------
BackendTypeOK ==
  /\ ready \in BOOLEAN /\ engine \in BOOLEAN
  /\ ctx \in {"none", "live", "freed"}
  /\ spc \in {"out", "generate", "check", "release", "stub", "returned", "threw",
             "no memory", "crashed"}
  /\ buffer \in {"null", "held", "freed", "freed twice"}
  /\ got \in [ok : BOOLEAN, count : SampleCounts \cup {0}, sample : Samples \cup {0}]

(* The engine is not freed under a running tts_generate(). *)
EngineAlive == spc = "generate" => ctx = "live"

(* Every buffer tts_generate() hands out is freed, and once: on success, on *)
(* a failure that comes with a buffer, and not on one that comes without.   *)
(* Only a file for which there is no memory leaves it behind.               *)
SamplesReleased ==
  /\ spc \in {"returned", "threw"} => buffer \in {"null", "freed"}
  /\ buffer # "freed twice"
  /\ wav # NoWav /\ spc = "returned" /\ engine => buffer = "freed"

ReadU16(bytes) == bytes[1] + 256 * bytes[2]
ReadU32(bytes) == bytes[1] + 256 * bytes[2] + 65536 * bytes[3] + 16777216 * bytes[4]

ReadI16(bytes) == IF ReadU16(bytes) >= 32768 THEN ReadU16(bytes) - 65536 ELSE ReadU16(bytes)

(* d is the float v to within one step of the scale, or the end of the      *)
(* scale on its side.                                                       *)
Nearest(v, d) ==
  /\ v > One => d = 32767
  /\ v < -One => d = -32767
  /\ v \in -One .. One => v * 32767 - d * One \in 1 - One .. One - 1

(* A file has as many bytes as a uint32_t can count. *)
Fits(f) == 44 + 2 * f.count < Word

FileConsistent(f) ==
  /\ ReadU32(f.header.data_size) = 2 * f.count
  /\ Fits(f) => f.size = 44 + 2 * f.count /\ ReadU32(f.header.file_size) = f.size - 8
  /\ f.ends = f.size <=> Fits(f)
  /\ -32767 <= ReadI16(f.pcm) /\ ReadI16(f.pcm) <= 32767
  /\ f.sample # NaN => Nearest(f.sample, ReadI16(f.pcm))

(* The WAV file is what its header says: both sizes fit the vector and the  *)
(* samples fill it exactly, if and only if a uint32_t can count its bytes;  *)
(* and each sample decodes to the float it came from, to within one step of *)
(* the scale, or to the end of the scale on its side.                       *)
WavConsistent == wav # NoWav => FileConsistent(wav)

=============================================================================
