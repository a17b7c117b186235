------------------------------ MODULE Validation ------------------------------
(***************************************************************************)
(* validation.cpp and the part of handle_speech that calls it: the checks a *)
(* request passes before it gets to the pool, in their order.               *)
(*                                                                          *)
(* A request is a record: its media type ("json" or another), the size of   *)
(* its body, what the JSON parser makes of it ("malformed", "array" for any *)
(* JSON that is no object, "object"), and its five fields, each of which    *)
(* may be Absent or of the WrongType.  The input is a sequence of bytes, of *)
(* which some continue a character; speed counts quarters.                  *)
(***************************************************************************)
EXTENDS Integers, Sequences, FiniteSets, FiniteSetsExt

CONSTANTS
  Bodies,         \* the requests that may come
  Catalog,        \* the ids of VoiceCatalog
  MaxInputChars,  \* config: max_input_chars
  MaxBodyBytes,   \* max_body_bytes of validate_body_size
  Absent,         \* the value of a field that is not there
  WrongType       \* the value of a field of another JSON type

Space        == " "
Continuation == "10xxxxxx"   \* a byte that continues a character of UTF-8

ASSUME ValidationAssumption ==
  /\ MaxInputChars \in Nat
  /\ MaxBodyBytes \in Nat
  /\ "" \notin Catalog
  /\ Absent # WrongType
  /\ \A v \in {Absent, WrongType} :
       v \notin Catalog /\ v \notin {"voxtral-4b", "", "wav"} /\ v \notin Int
  /\ \A b \in Bodies :
       /\ b.bytes \in Nat
       /\ b.input \in {Absent, WrongType} \/ b.input \in Seq(STRING)
       /\ b.speed \in {Absent, WrongType} \/ b.speed \in Int

Ok     == 0     \* ValidationResult::valid
Throws == 500   \* an exception leaves the handler; the HTTP library answers 500

-----------------------------------------------------------------------------
ValidateContentType(b) == IF b.type = "json" THEN Ok ELSE 400

ValidateBodySize(b) == IF b.bytes > MaxBodyBytes THEN 413 ELSE Ok

(* json::parse_error is the only exception that is caught. *)
Parse(b) == IF b.text = "malformed" THEN 400 ELSE Ok

(* parsed.value(field, default): it throws if the body is no object or the *)
(* field has the wrong type, and returns the default for an absent field.   *)
ValueThrows(b, given) == b.text # "object" \/ given = WrongType

ValueOf(given, default) == IF given = Absent THEN default ELSE given

ValidateModel(model) == IF model = "voxtral-4b" THEN Ok ELSE 400

(* The length is one of bytes; a limit of 0 is no limit. *)
ValidateInput(input) ==
  IF \/ \A i \in DOMAIN input : input[i] = Space
     \/ MaxInputChars > 0 /\ Len(input) > MaxInputChars
  THEN 400 ELSE Ok

(* Variant: only an empty voice is refused. *)
ValidateVoiceNonEmpty(voice) == IF voice = "" THEN 400 ELSE Ok

(* VoiceCatalog::is_valid, by find(). *)
IsValidVoice(id) == \E preset \in Catalog : preset = id

ValidateVoice(voice) == IF voice # "" /\ IsValidVoice(voice) THEN Ok ELSE 400

ValidateResponseFormat(format) == IF format \in {"", "wav"} THEN Ok ELSE 400

(* 0.25 to 4.0, in quarters. *)
ValidateSpeed(speed) == IF speed < 1 \/ speed > 16 THEN 400 ELSE Ok

(* The checks of handle_speech in their order, and the first that fails.    *)
Checks(b) ==
  <<ValidateContentType(b),
    ValidateBodySize(b),
    Parse(b),
    IF ValueThrows(b, b.model) THEN Throws
      ELSE ValidateModel(ValueOf(b.model, "")),
    IF ValueThrows(b, b.input) THEN Throws
      ELSE ValidateInput(ValueOf(b.input, <<>>)),
    IF ValueThrows(b, b.voice) THEN Throws
      ELSE ValidateVoice(ValueOf(b.voice, "")),
    IF ValueThrows(b, b.response_format) THEN Throws
      ELSE ValidateResponseFormat(ValueOf(b.response_format, "wav")),
    IF ValueThrows(b, b.speed) THEN Throws
      ELSE ValidateSpeed(ValueOf(b.speed, 4))>>

Verdict(b) ==
  LET results == Checks(b)
      failed  == {i \in DOMAIN results : results[i] # Ok}
  IN  IF failed = {} THEN Ok ELSE results[Min(failed)]

(* What handle_speech may make of the requests that come. *)
Verdicts == {Verdict(b) : b \in Bodies}

=============================================================================
