-------------------------- MODULE HttpAdapterProofs --------------------------
(***************************************************************************)
(* What holds of the routes for every number of HTTP threads, key, header   *)
(* and body.  The first part is about operators alone: what the verdict on  *)
(* a body and the comparison of keys tell.  The second shows that the       *)
(* routes use the middleware as its specification says, so that all its     *)
(* theorems hold here too.  The third is the inductive invariant: one       *)
(* predicate on a thread's request, its place in the middleware and its     *)
(* thread-local id.                                                         *)
(***************************************************************************)
EXTENDS HttpAdapter, MiddlewareProofs

-----------------------------------------------------------------------------
(***************************************************************************)
(* The verdict on a body                                                   *)
(***************************************************************************)
(* A set of some of the numbers from 1 to 8 has a least one. *)
LEMMA LeastOfEight ==
  ASSUME NEW S, S \subseteq 1 .. 8, S # {}
  PROVE  Min(S) \in S
<1>1. \E x \in S : \A y \in S : x <= y
  <2>1. CASE 1 \in S
    BY <2>1
  <2>2. CASE 1 \notin S /\ 2 \in S
    BY <2>2
  <2>3. CASE 1 \notin S /\ 2 \notin S /\ 3 \in S
    BY <2>3
  <2>4. CASE 1 \notin S /\ 2 \notin S /\ 3 \notin S /\ 4 \in S
    BY <2>4
  <2>5. CASE S \subseteq 5 .. 8 /\ 5 \in S
    BY <2>5
  <2>6. CASE S \subseteq 6 .. 8 /\ 6 \in S
    BY <2>6
  <2>7. CASE S \subseteq 7 .. 8 /\ 7 \in S
    BY <2>7
  <2>8. CASE S \subseteq {8}
    <3>1. 8 \in S /\ \A y \in S : y = 8
      BY <2>8
    <3>2. QED
      BY <3>1
  <2>9. \/ 1 \in S
        \/ 1 \notin S /\ 2 \in S
        \/ 1 \notin S /\ 2 \notin S /\ 3 \in S
        \/ 1 \notin S /\ 2 \notin S /\ 3 \notin S /\ 4 \in S
        \/ S \subseteq 5 .. 8
    OBVIOUS
  <2>10. S \subseteq 5 .. 8 => 5 \in S \/ S \subseteq 6 .. 8
    OBVIOUS
  <2>11. S \subseteq 6 .. 8 => 6 \in S \/ S \subseteq 7 .. 8
    OBVIOUS
  <2>12. S \subseteq 7 .. 8 => 7 \in S \/ S \subseteq {8}
    OBVIOUS
  <2>13. QED
    BY <2>1, <2>2, <2>3, <2>4, <2>5, <2>6, <2>7, <2>8, <2>9, <2>10, <2>11, <2>12
<1>2. QED
  BY <1>1 DEF Min

(* A field that is absent or of the wrong type has none of the values the   *)
(* checks know.                                                             *)
LEMMA NoValue ==
  /\ Absent \notin Catalog /\ WrongType \notin Catalog
  /\ Absent # WrongType
  /\ Absent # "voxtral-4b" /\ WrongType # "voxtral-4b"
BY ValidationAssumption, Zenon

(* The same of the formats, of which one is empty. *)
LEMMA NoFormat ==
  ASSUME NEW v \in {Absent, WrongType}
  PROVE  v \notin {"", "wav"}
BY ValidationAssumption, Zenon

(* A voice is valid exactly if the catalog has it. *)
LEMMA VoiceChecked ==
  ASSUME NEW voice
  PROVE  ValidateVoice(voice) = Ok <=> voice \in Catalog
<1>1. "" \notin Catalog
  BY ValidationAssumption, Zenon
<1>2. (voice # "" /\ IsValidVoice(voice)) <=> voice \in Catalog
  BY <1>1, Zenon DEF IsValidVoice
<1>3. ValidateVoice(voice) = Ok <=> (voice # "" /\ IsValidVoice(voice))
  <2>1. Ok # 400
    BY DEF Ok
  <2>2. QED
    BY <2>1, Zenon DEF ValidateVoice
<1>4. QED
  BY <1>2, <1>3

(* A format is valid exactly if it is empty or the one there is. *)
LEMMA FormatChecked ==
  ASSUME NEW format
  PROVE  ValidateResponseFormat(format) = Ok <=> format \in {"", "wav"}
<1>1. Ok # 400
  BY DEF Ok
<1>2. QED
  BY <1>1, Zenon DEF ValidateResponseFormat

(* Nor is it a speed. *)
LEMMA NoSpeed ==
  ASSUME NEW v \in {Absent, WrongType}
  PROVE  v \notin Int
BY ValidationAssumption, Zenon

(* The size of a body is a number, its input text and its speed a number,   *)
(* if they are there.                                                       *)
LEMMA FieldTypes ==
  ASSUME NEW b \in Bodies
  PROVE  /\ b.bytes \in Nat
         /\ b.input \notin {Absent, WrongType} => b.input \in Seq(STRING)
         /\ b.speed \notin {Absent, WrongType} => b.speed \in Int
BY ValidationAssumption, Zenon

(* The limits are numbers. *)
LEMMA LimitTypes == MaxInputChars \in Nat /\ MaxBodyBytes \in Nat
BY ValidationAssumption, Zenon

(* The eight checks and the values they have. *)
LEMMA EightChecks ==
  ASSUME NEW b
  PROVE  /\ DOMAIN Checks(b) = 1 .. 8
         /\ Checks(b)[1] \in {0, 400} /\ Checks(b)[2] \in {0, 413}
         /\ Checks(b)[3] \in {0, 400}
         /\ \A i \in 4 .. 8 : Checks(b)[i] \in {0, 400, 500}
BY DEF Checks, ValidateContentType, ValidateBodySize, Parse, ValidateModel, ValidateInput,
       ValidateVoice, ValidateResponseFormat, ValidateSpeed, Ok, Throws

(* The verdict is that of a check that fails, if one does. *)
LEMMA VerdictIsACheck ==
  ASSUME NEW b
  PROVE  /\ Verdict(b) = Ok <=> \A i \in 1 .. 8 : Checks(b)[i] = Ok
         /\ Verdict(b) \in {0, 400, 413, 500}
         /\ Verdict(b) # Ok => \E i \in 1 .. 8 : Verdict(b) = Checks(b)[i]
<1> DEFINE results == Checks(b)
           failed  == {i \in DOMAIN results : results[i] # Ok}
<1>1. DOMAIN results = 1 .. 8 /\ \A i \in 1 .. 8 : results[i] \in {0, 400, 413, 500}
  BY EightChecks
<1>2. Verdict(b) = IF failed = {} THEN Ok ELSE results[Min(failed)]
  BY DEF Verdict
<1> HIDE DEF results
<1>3. CASE failed = {}
  <2>1. Verdict(b) = Ok
    BY <1>2, <1>3
  <2>2. \A i \in 1 .. 8 : results[i] = Ok
    BY <1>1, <1>3
  <2>3. QED
    BY <2>1, <2>2 DEF Ok, results
<1>4. CASE failed # {}
  <2>1. failed \subseteq 1 .. 8
    BY <1>1
  <2>2. Min(failed) \in failed
    BY <1>4, <2>1, LeastOfEight
  <2>3. Verdict(b) = results[Min(failed)]
    BY <1>2, <1>4
  <2>4. Verdict(b) # Ok /\ Verdict(b) \in {0, 400, 413, 500}
    BY <1>1, <2>1, <2>2, <2>3
  <2>5. ~ \A i \in 1 .. 8 : results[i] = Ok
    BY <2>1, <1>4
  <2>6. QED
    BY <2>1, <2>2, <2>3, <2>4, <2>5 DEF results
<1>5. QED
  BY <1>3, <1>4

(* A text has at most as many characters as bytes. *)
LEMMA NoMoreCharacters ==
  ASSUME NEW S, NEW text \in Seq(S)
  PROVE  Len(text) \in Nat /\ Characters(text) \in Nat /\ Characters(text) <= Len(text)
<1>1. PICK n \in Nat : n = Len(text) /\ DOMAIN text = 1 .. n
  OBVIOUS
<1>2. PICK begins : begins = {i \in DOMAIN text : text[i] # Continuation}
  OBVIOUS
<1>3. IsFiniteSet(1 .. n) /\ Cardinality(1 .. n) = n
  <2>1. 1 \in Int /\ n \in Int
    BY <1>1
  <2>2. QED
    BY <2>1, FS_Interval
<1>4. begins \subseteq 1 .. n
  BY <1>1, <1>2
<1>5. IsFiniteSet(begins) /\ Cardinality(begins) <= n
  BY <1>3, <1>4, FS_Subset
<1>6. Cardinality(begins) \in Nat
  BY <1>5, FS_CardinalityType
<1>7. QED
  BY <1>1, <1>2, <1>5, <1>6 DEF Characters

(* A body passes all checks exactly if the API accepts it and the input has *)
(* no more bytes than it may have characters: no default of an absent field *)
(* and no order of the checks makes a difference.                           *)
LEMMA PassesIfWellFormed ==
  ASSUME NEW b \in Bodies
  PROVE  Verdict(b) = Ok <=>
           WellFormed(b) /\ (Len(b.input) <= MaxInputChars \/ MaxInputChars = 0)
<1>1. Verdict(b) = Ok <=>
        /\ Checks(b)[1] = Ok /\ Checks(b)[2] = Ok /\ Checks(b)[3] = Ok /\ Checks(b)[4] = Ok
        /\ Checks(b)[5] = Ok /\ Checks(b)[6] = Ok /\ Checks(b)[7] = Ok /\ Checks(b)[8] = Ok
  <2>1. (\A i \in 1 .. 8 : Checks(b)[i] = Ok) <=>
        /\ Checks(b)[1] = Ok /\ Checks(b)[2] = Ok /\ Checks(b)[3] = Ok /\ Checks(b)[4] = Ok
        /\ Checks(b)[5] = Ok /\ Checks(b)[6] = Ok /\ Checks(b)[7] = Ok /\ Checks(b)[8] = Ok
    OBVIOUS
  <2>2. QED
    BY <2>1, VerdictIsACheck
<1>2. /\ Checks(b)[1] = Ok <=> b.type = "json"
      /\ Checks(b)[3] = Ok <=> b.text # "malformed"
  BY DEF Checks, ValidateContentType, Parse, Ok
<1>3. Checks(b)[2] = Ok <=> b.bytes <= MaxBodyBytes
  <2>1. b.bytes \in Nat /\ MaxBodyBytes \in Nat
    BY FieldTypes, LimitTypes
  <2>2. QED
    BY <2>1 DEF Checks, ValidateBodySize, Ok
<1>4. Checks(b)[4] = Ok <=> b.text = "object" /\ b.model = "voxtral-4b"
  <2>1. Checks(b)[4] = IF ValueThrows(b, b.model) THEN Throws
                       ELSE ValidateModel(ValueOf(b.model, ""))
    BY DEF Checks
  <2>2. QED
    BY <2>1, NoValue DEF ValueThrows, ValueOf, ValidateModel, Ok, Throws
<1>5. Checks(b)[5] = Ok <=>
        /\ b.text = "object" /\ b.input \notin {Absent, WrongType}
        /\ \E i \in DOMAIN b.input : b.input[i] # Space
        /\ Len(b.input) <= MaxInputChars \/ MaxInputChars = 0
  <2>1. Checks(b)[5] = IF ValueThrows(b, b.input) THEN Throws
                       ELSE ValidateInput(ValueOf(b.input, <<>>))
    BY DEF Checks
  <2>2. CASE b.input = Absent
    <3>1. ValidateInput(<<>>) = 400
      BY DEF ValidateInput
    <3>2. QED
      BY <2>1, <2>2, <3>1 DEF ValueThrows, ValueOf, Ok, Throws
  <2>3. CASE b.input = WrongType
    BY <2>1, <2>3 DEF ValueThrows, Ok, Throws
  <2>4. CASE b.input \notin {Absent, WrongType}
    <3>1. b.input \in Seq(STRING) /\ Len(b.input) \in Nat /\ MaxInputChars \in Nat
      BY <2>4, FieldTypes, LimitTypes
    <3>2. Checks(b)[5] = IF b.text # "object" THEN Throws ELSE ValidateInput(b.input)
      BY <2>1, <2>4 DEF ValueThrows, ValueOf
    <3>3. ValidateInput(b.input) = Ok <=>
            /\ \E i \in DOMAIN b.input : b.input[i] # Space
            /\ Len(b.input) <= MaxInputChars \/ MaxInputChars = 0
      BY <3>1 DEF ValidateInput, Ok
    <3>4. QED
      BY <2>4, <3>2, <3>3 DEF Ok, Throws
  <2>5. QED
    BY <2>2, <2>3, <2>4
<1>6. Checks(b)[6] = Ok <=> b.text = "object" /\ b.voice \in Catalog
  <2>1. PICK empty : empty = ""
    BY Zenon
  <2>2. Checks(b)[6] = IF ValueThrows(b, b.voice) THEN Throws
                       ELSE ValidateVoice(ValueOf(b.voice, empty))
    BY <2>1 DEF Checks
  <2>3. empty \notin Catalog
    BY <2>1, ValidationAssumption, Zenon
  <2>4. ValidateVoice(ValueOf(b.voice, empty)) = Ok <=> ValueOf(b.voice, empty) \in Catalog
    BY VoiceChecked
  <2>5. QED
    BY <2>2, <2>3, <2>4, NoValue DEF ValueThrows, ValueOf, Ok, Throws
<1>7. Checks(b)[7] = Ok <=> b.text = "object" /\ b.response_format \in {Absent, "", "wav"}
  <2>1. PICK formats : formats = {"", "wav"}
    BY Zenon
  <2>2. Checks(b)[7] = IF ValueThrows(b, b.response_format) THEN Throws
                       ELSE ValidateResponseFormat(ValueOf(b.response_format, "wav"))
    BY DEF Checks
  <2>3. "wav" \in formats /\ Absent \notin formats /\ WrongType \notin formats
    BY <2>1, NoFormat, Zenon
  <2>4. ValidateResponseFormat(ValueOf(b.response_format, "wav")) = Ok <=>
          ValueOf(b.response_format, "wav") \in formats
    BY <2>1, FormatChecked, Zenon
  <2>5. Checks(b)[7] = Ok <=>
          b.text = "object" /\ (b.response_format = Absent \/ b.response_format \in formats)
    BY <2>2, <2>3, <2>4, NoValue DEF ValueThrows, ValueOf, Ok, Throws
  <2>6. (b.response_format = Absent \/ b.response_format \in formats) <=>
          b.response_format \in {Absent, "", "wav"}
    BY <2>1, Zenon
  <2>7. QED
    BY <2>5, <2>6, Zenon
<1>8. Checks(b)[8] = Ok <=> b.text = "object" /\ b.speed \in {Absent} \cup 1 .. 16
  <2>1. Checks(b)[8] = IF ValueThrows(b, b.speed) THEN Throws
                       ELSE ValidateSpeed(ValueOf(b.speed, 4))
    BY DEF Checks
  <2>2. CASE b.speed = Absent
    BY <2>1, <2>2, NoValue
       DEF ValueThrows, ValueOf, ValidateSpeed, Ok, Throws
  <2>3. CASE b.speed = WrongType
    <3>1. b.speed \notin {Absent} \cup 1 .. 16
      BY <2>3, NoSpeed, NoValue
    <3>2. QED
      BY <2>1, <2>3, <3>1 DEF ValueThrows, Ok, Throws
  <2>4. CASE b.speed \notin {Absent, WrongType}
    <3>1. b.speed \in Int
      BY <2>4, FieldTypes
    <3>2. ValidateSpeed(b.speed) = Ok <=> b.speed \in 1 .. 16
      BY <3>1 DEF ValidateSpeed, Ok
    <3>3. QED
      BY <2>1, <2>4, <3>2 DEF ValueThrows, ValueOf, Ok, Throws
  <2>5. QED
    BY <2>2, <2>3, <2>4
<1>9. b.input \notin {Absent, WrongType} =>
        /\ Len(b.input) \in Nat /\ Characters(b.input) \in Nat
        /\ Characters(b.input) <= Len(b.input)
  BY FieldTypes, NoMoreCharacters, Zenon
<1>10. b.input \notin {Absent, WrongType} =>
         (Len(b.input) <= MaxInputChars \/ MaxInputChars = 0 <=>
            /\ Characters(b.input) <= MaxInputChars \/ MaxInputChars = 0
            /\ Len(b.input) <= MaxInputChars \/ MaxInputChars = 0)
  BY <1>9, LimitTypes
<1>11. QED
  BY <1>1, <1>2, <1>3, <1>4, <1>5, <1>6, <1>7, <1>8, <1>10 DEF WellFormed

(* An exception leaves handle_speech only over a body that is no object or  *)
(* a field of the wrong type: never over a request the API accepts.         *)
LEMMA ThrowsIfIllFormed ==
  ASSUME NEW b \in Bodies, Verdict(b) = Throws
  PROVE  ~WellFormed(b)
<1> SUFFICES ASSUME WellFormed(b) PROVE FALSE
  OBVIOUS
<1>1. /\ b.text = "object" /\ b.model # WrongType /\ b.input # WrongType
      /\ b.voice # WrongType
  BY NoValue DEF WellFormed
<1>2. b.response_format # WrongType
  <2>1. b.response_format = Absent \/ b.response_format \in {"", "wav"}
    BY Zenon DEF WellFormed
  <2>2. QED
    BY <2>1, NoFormat, NoValue, Zenon
<1>3. b.speed # WrongType
  <2>1. b.speed \in {Absent} \cup 1 .. 16
    BY Zenon DEF WellFormed
  <2>2. QED
    BY <2>1, NoSpeed, NoValue
<1>4. PICK i \in 1 .. 8 : Checks(b)[i] = 500
  <2>1. Verdict(b) # Ok /\ Throws = 500
    BY DEF Ok, Throws
  <2>2. QED
    BY <2>1, VerdictIsACheck
<1>5. i \in 4 .. 8
  <2>1. i # 1 /\ i # 2 /\ i # 3
    BY <1>4, EightChecks
  <2>2. QED
    BY <2>1
<1>6. \A j \in 4 .. 8 : Checks(b)[j] \in {0, 400}
  <2>1. \A v : /\ ValidateModel(v) \in {0, 400} /\ ValidateInput(v) \in {0, 400}
               /\ ValidateVoice(v) \in {0, 400} /\ ValidateSpeed(v) \in {0, 400}
               /\ ValidateResponseFormat(v) \in {0, 400}
    BY Zenon DEF ValidateModel, ValidateInput, ValidateVoice, ValidateResponseFormat,
                 ValidateSpeed, Ok
  <2>2. \E v : Checks(b)[4] = IF ValueThrows(b, b.model) THEN Throws ELSE ValidateModel(v)
    BY DEF Checks
  <2>3. \E v : Checks(b)[5] = IF ValueThrows(b, b.input) THEN Throws ELSE ValidateInput(v)
    BY DEF Checks
  <2>4. \E v : Checks(b)[6] = IF ValueThrows(b, b.voice) THEN Throws ELSE ValidateVoice(v)
    BY DEF Checks
  <2>5. \E v : Checks(b)[7] = IF ValueThrows(b, b.response_format) THEN Throws
                              ELSE ValidateResponseFormat(v)
    BY DEF Checks
  <2>6. \E v : Checks(b)[8] = IF ValueThrows(b, b.speed) THEN Throws ELSE ValidateSpeed(v)
    BY DEF Checks
  <2>7. QED
    BY <1>1, <1>2, <1>3, <2>1, <2>2, <2>3, <2>4, <2>5, <2>6 DEF ValueThrows
<1>7. QED
  BY <1>4, <1>5, <1>6

-----------------------------------------------------------------------------
(***************************************************************************)
(* The comparison of keys                                                  *)
(***************************************************************************)
(* The lesser of two integers. *)
LEMMA LesserOfTwo ==
  ASSUME NEW a \in Int, NEW b \in Int
  PROVE  Min({a, b}) = IF a <= b THEN a ELSE b
BY DEF Min

(* Two sizes with the same low byte are equal or at least a byte's range    *)
(* apart.                                                                   *)
LEMMA SameLowByte ==
  ASSUME NEW n \in Nat, NEW k \in Nat, NEW bytes \in Nat, bytes > 0,
         n % bytes = k % bytes, n - k < bytes, k - n < bytes
  PROVE  n = k
<1>1. PICK p \in Int, q \in Int, r \in Int : n = bytes * p + r /\ k = bytes * q + r
  <2>1. /\ n = bytes * (n \div bytes) + (n % bytes)
        /\ k = bytes * (k \div bytes) + (k % bytes)
    OBVIOUS
  <2>2. n \div bytes \in Int /\ k \div bytes \in Int /\ n % bytes \in Int
    OBVIOUS
  <2>3. QED
    BY <2>1, <2>2
<1>2. PICK d \in Int : d = p - q /\ n - k = bytes * d
  BY <1>1
<1>3. d < 1
  <2>1. d >= 1 => bytes * d >= bytes
    OBVIOUS
  <2>2. QED
    BY <1>2, <2>1
<1>4. d > -1
  <2>1. d <= -1 => bytes * d <= -bytes
    OBVIOUS
  <2>2. QED
    BY <1>2, <2>1
<1>5. d = 0
  BY <1>3, <1>4
<1>6. QED
  BY <1>2, <1>5

(* A sequence of one. *)
LEMMA Singleton ==
  ASSUME NEW S, NEW a \in S
  PROVE  <<a>> \in Seq(S) /\ Len(<<a>>) = 1 /\ <<a>>[1] = a
OBVIOUS

(* What headers and the key are made of. *)
Texts == STRING \cup {Bearer}

(* A sequence of strings is one of these. *)
LEMMA TextsAreStrings == Seq(STRING) \subseteq Seq(Texts)
<1>1. PICK S : S = STRING
  OBVIOUS
<1>2. S \subseteq Texts
  BY <1>1, Zenon DEF Texts
<1>3. Seq(S) \subseteq Seq(Texts)
  BY <1>2
<1>4. QED
  BY <1>1, <1>3, Zenon

(* The key is made of them. *)
LEMMA ApiKeyType == ApiKey \in Seq(Texts) /\ Len(ApiKey) \in Nat
<1>1. ApiKey \in Seq(Texts)
  BY ClientAuthAssumption, TextsAreStrings, Zenon
<1>2. QED
  BY <1>1

(* The key with its scheme, element by element. *)
LEMMA KeyElements ==
  /\ Key \in Seq(Texts) /\ Len(Key) = Len(ApiKey) + 1 /\ Key[1] = Bearer
  /\ \A i \in 1 .. Len(ApiKey) : Key[i + 1] = ApiKey[i]
<1>1. ApiKey \in Seq(Texts) /\ <<Bearer>> \in Seq(Texts) /\ Len(<<Bearer>>) = 1
  <2>1. Bearer \in Texts
    BY Zenon DEF Texts
  <2>2. <<Bearer>> \in Seq(Texts) /\ Len(<<Bearer>>) = 1
    BY <2>1, Singleton, Zenon
  <2>3. QED
    BY <2>2, ApiKeyType, Zenon
<1>2. /\ Key \in Seq(Texts) /\ Len(Key) = 1 + Len(ApiKey)
      /\ \A i \in 1 .. 1 + Len(ApiKey) :
           Key[i] = IF i <= 1 THEN <<Bearer>>[i] ELSE ApiKey[i - 1]
  BY <1>1, ConcatProperties DEF Key
<1>3. Len(ApiKey) \in Nat /\ <<Bearer>>[1] = Bearer
  BY <1>1
<1>4. QED
  BY <1>2, <1>3

(* The head and the tail of a header that is not empty. *)
LEMMA HeaderElements ==
  ASSUME NEW h \in Seq(Texts), Len(h) > 1
  PROVE  /\ Head(h) = h[1] /\ Tail(h) \in Seq(Texts) /\ Len(Tail(h)) = Len(h) - 1
         /\ \A i \in 1 .. Len(h) - 1 : Tail(h)[i] = h[i + 1]
BY HeadTailProperties

(* A header that check_bearer_auth accepts agrees with the key as far as    *)
(* both go, and is the key unless their sizes are a byte's range apart.     *)
LEMMA KeyNeeded ==
  ASSUME NEW h \in Seq(Texts), CheckBearerAuth(h)
  PROVE  /\ \A i \in DOMAIN h \cap DOMAIN Key : h[i] = Key[i]
         /\ Len(h) - Len(Key) \in 1 - ByteValues .. ByteValues - 1 => h = Key
<1>1. /\ Len(h) \in Nat /\ Len(h) > 1 /\ h[1] = Bearer
      /\ ConstantTimeEquals(Tail(h), ApiKey)
  BY HeaderElements DEF CheckBearerAuth
<1>2. PICK n \in Nat, k \in Nat : n = Len(Tail(h)) /\ n = Len(h) - 1 /\ k = Len(ApiKey)
  BY <1>1, HeaderElements, ApiKeyType
<1>3. Len(Key) = k + 1 /\ Len(h) = n + 1
  BY <1>1, <1>2, KeyElements
<1>4. DOMAIN h = 1 .. n + 1 /\ DOMAIN Key = 1 .. k + 1
  BY <1>3, KeyElements
<1>5. \A i \in 1 .. Min({n, k}) : Tail(h)[i] = ApiKey[i]
  BY <1>1, <1>2 DEF ConstantTimeEquals
<1>6. ASSUME NEW i \in DOMAIN h \cap DOMAIN Key
      PROVE  h[i] = Key[i]
  <2>1. CASE i = 1
    BY <1>1, <2>1, KeyElements
  <2>2. CASE i # 1
    <3>1. PICK j \in Nat : i = j + 1 /\ 1 <= j /\ j <= n /\ j <= k
      <4>1. i \in Nat /\ i >= 1 /\ i <= n + 1 /\ i <= k + 1
        BY <1>4
      <4>2. i - 1 \in Nat /\ i = (i - 1) + 1
        BY <4>1
      <4>3. QED
        BY <2>2, <4>1, <4>2
    <3>2. j \in 1 .. Min({n, k})
      BY <3>1, LesserOfTwo
    <3>3. h[j + 1] = Tail(h)[j] /\ Key[j + 1] = ApiKey[j]
      BY <1>1, <1>2, <3>1, HeaderElements, KeyElements
    <3>4. QED
      BY <1>5, <3>1, <3>2, <3>3
  <2>3. QED
    BY <2>1, <2>2
<1>7. ASSUME Len(h) - Len(Key) \in 1 - ByteValues .. ByteValues - 1
      PROVE  h = Key
  <2>1. ByteValues \in Nat /\ ByteValues > 0
    BY ClientAuthAssumption
  <2>2. n % ByteValues = k % ByteValues
    BY <1>1, <1>2 DEF ConstantTimeEquals
  <2>3. n - k < ByteValues /\ k - n < ByteValues
    BY <1>3, <1>7, <2>1
  <2>4. n = k
    BY <2>1, <2>2, <2>3, SameLowByte
  <2>5. Len(h) = Len(Key) /\ \A i \in 1 .. Len(h) : h[i] = Key[i]
    BY <1>3, <1>4, <1>6, <2>4
  <2>6. QED
    BY <2>5, KeyElements, SeqEqual
<1>8. QED
  BY <1>6, <1>7

(* check_bearer_auth accepts the key. *)
LEMMA KeySuffices ==
  ASSUME RequireAuth
  PROVE  CheckBearerAuth(Key)
<1>1. ApiKey \in Seq(Texts) /\ Len(ApiKey) \in Nat /\ Len(ApiKey) > 0
  BY ApiKeyType, MiddlewareAssumption, EmptySeq
<1>2. Key \in Seq(Texts) /\ Len(Key) > 1 /\ Len(Key) = Len(ApiKey) + 1
  BY <1>1, KeyElements
<1>3. Head(Key) = Bearer /\ Tail(Key) \in Seq(Texts) /\ Len(Tail(Key)) = Len(ApiKey)
  BY <1>1, <1>2, HeaderElements, KeyElements
<1>4. \A i \in 1 .. Len(ApiKey) : Tail(Key)[i] = ApiKey[i]
  BY <1>1, <1>2, HeaderElements, KeyElements
<1>5. Tail(Key) = ApiKey
  BY <1>1, <1>3, <1>4, SeqEqual
<1>6. ConstantTimeEquals(ApiKey, ApiKey)
  BY <1>1, LesserOfTwo DEF ConstantTimeEquals
<1>7. QED
  BY <1>2, <1>3, <1>5, <1>6 DEF CheckBearerAuth

-----------------------------------------------------------------------------
(***************************************************************************)
(* The routes and the middleware                                           *)
(***************************************************************************)
(* Every step of a route is a step of the middleware or does not concern it. *)
LEMMA RoutesStepMiddleware ==
  ASSUME [AdapterNext]_allRouteVars
  PROVE  [MiddlewareNext]_middleVars
<1>1. CASE UNCHANGED middleVars
  BY <1>1
<1>2. ASSUME NEW t \in Threads, NEW route, NEW client \in Clients,
    NEW entry \in EntryPoints,
             NEW prefix \in Prefixes, NEW header \in AuthHeaders,
             EnterProtected(t, route, client, entry, prefix, header)
      PROVE  MiddlewareNext
  BY <1>2 DEF EnterProtected, MiddlewareNext
<1>3. ASSUME NEW t \in Threads, RunMiddleware(t)
      PROVE  MiddlewareNext
  BY <1>3 DEF RunMiddleware, MiddlewareNext, Check
<1>4. CASE TimePasses
  BY <1>4 DEF TimePasses, MiddlewareNext
<1>5. ASSUME NEW t \in Threads,
             \/ \E route \in Probes : EnterProbe(t, route)
             \/ ServeMetrics(t) \/ NotFound(t) \/ PayloadTooLarge(t) \/ HandleRead(t)
             \/ \E body \in Delivered : HandleSpeech(t, body) \/ HandleThrows(t, body)
             \/ Reply(t)
      PROVE  UNCHANGED middleVars
  BY <1>5 DEF EnterProbe, ServeMetrics, NotFound, PayloadTooLarge, HandleRead, HandleSpeech,
              HandleThrows, Reply
<1>6. CASE ClosePool
  BY <1>6 DEF ClosePool
<1>7. CASE UNCHANGED allRouteVars
  BY <1>7 DEF allRouteVars
<1>8. QED
  BY <1>1, <1>2, <1>3, <1>4, <1>5, <1>6, <1>7 DEF AdapterNext

(* The routes use the middleware as its specification says: what is proved  *)
(* of the limiters holds of the server's routes.                            *)
THEOREM RoutesImplementMiddleware == AdapterSpec => MiddlewareSpec
<1>1. AdapterInit => MiddlewareInit
  BY DEF AdapterInit
<1>2. QED
  BY <1>1, RoutesStepMiddleware, PTL DEF AdapterSpec, MiddlewareSpec

-----------------------------------------------------------------------------
(***************************************************************************)
(* The inductive invariant                                                 *)
(***************************************************************************)
Routes == Probes \cup Protected \cup {"metrics", "unknown", "refused"}

Requests ==
  [route : Routes, at : {"checks", "handle", "reply", "done"}, id : Nat,
   logged : SUBSET Nat, status : Statuses \cup {0}, replyId : Nat,
   header : AuthHeaders \cup {<<>>}, body : Bodies \cup {Absent}]

(* The request r of a thread is of its type and in the middleware exactly   *)
(* while it waits for its answer; h is the thread's place there, and n the  *)
(* number of ids given away.                                                *)
Placed(r, h, n) ==
  /\ r # None => r \in Requests
  /\ h # Idle <=> r.at = "checks"
  /\ r # None => r.id <= n /\ r.replyId <= n /\ \A i \in r.logged : i <= n

(* Until the response is there, the thread-local id is the request's.  What *)
(* is logged is the request's, and so is what the response tells, if it     *)
(* tells one.                                                               *)
Named(r, id) ==
  r # None =>
    /\ r.at # "done" => r.id # 0 /\ r.id = id /\ r.replyId = 0
    /\ r.id # 0 => /\ \A i \in r.logged : i = r.id
                   /\ r.at = "done" =>
                        r.replyId = r.id \/ (r.replyId = 0 /\ r.status = 500)

(* What the middleware computed when the request came is about the header   *)
(* of this request; past it, the status and the verdict on the key agree.   *)
Entitled(r, h) ==
  r # None =>
    /\ r.at = "checks" =>
         r.route \in Protected /\ r.status = 0 /\ h.good = CheckBearerAuth(r.header)
    /\ r.at = "handle" => r.status = 0
    /\ RequireAuth /\ r.route \in Protected /\ r.at # "checks" =>
         /\ r.status \notin {401, 429} => CheckBearerAuth(r.header)
         /\ r.status = 401 => ~CheckBearerAuth(r.header)

(* The body is looked at once, by handle_speech, and the status tells what  *)
(* the checks made of it; a response without an id, that they threw.        *)
Judged(r) ==
  r # None =>
    /\ r.at \in {"checks", "handle"} => r.body = Absent
    /\ r.body # Absent =>
         /\ r.status \in {200, 503} => Verdict(r.body) = Ok
         /\ r.status = 400 => Verdict(r.body) # Ok
         /\ r.at = "done" /\ r.replyId = 0 => Verdict(r.body) = Throws

RequestOk(r, h, id, n) == Placed(r, h, n) /\ Named(r, id) /\ Entitled(r, h) /\ Judged(r)

AdapterInv ==
  /\ serving \in [Threads -> {None} \cup Requests]
  /\ tid \in [Threads -> Nat] /\ \A t \in Threads : tid[t] <= ids
  /\ ids \in Nat /\ ids <= MaxIds
  /\ poolOpen \in BOOLEAN
  /\ \A t \in Threads : RequestOk(serving[t], handling[t], tid[t], ids)

-----------------------------------------------------------------------------
(***************************************************************************)
(* One step of one thread                                                  *)
(***************************************************************************)
(* A thread changes its own request; ids only grow. *)
LEMMA Turn ==
  ASSUME AdapterInv, NEW t \in Threads, NEW r, Update(t, r),
         \A u \in Threads \ {t} : handling'[u] = handling[u] /\ tid'[u] = tid[u],
         tid' \in [Threads -> Nat], tid'[t] <= ids',
         ids' \in Nat, ids <= ids', ids' <= MaxIds, poolOpen' \in BOOLEAN,
         RequestOk(r, handling'[t], tid'[t], ids')
  PROVE  AdapterInv'
<1>1. serving \in [Threads -> {None} \cup Requests] /\ ids \in Nat
  BY DEF AdapterInv
<1>2. r \in {None} \cup Requests
  BY DEF RequestOk, Placed
<1>3. /\ serving' \in [Threads -> {None} \cup Requests] /\ serving'[t] = r
      /\ \A u \in Threads \ {t} : serving'[u] = serving[u]
  BY <1>1, <1>2 DEF Update
<1>4. ASSUME NEW u \in Threads \ {t}
      PROVE  RequestOk(serving'[u], handling'[u], tid'[u], ids') /\ tid'[u] <= ids'
  <2>1. RequestOk(serving[u], handling[u], tid[u], ids) /\ tid[u] <= ids /\ tid[u] \in Nat
    BY DEF AdapterInv
  <2>2. serving[u] # None => /\ serving[u].id \in Nat /\ serving[u].replyId \in Nat
                             /\ serving[u].logged \subseteq Nat
    BY <1>1 DEF Requests
  <2>3. Placed(serving[u], handling[u], ids')
    BY <1>1, <2>1, <2>2 DEF RequestOk, Placed
  <2>4. QED
    BY <1>1, <1>3, <2>1, <2>3 DEF RequestOk
<1>5. \A u \in Threads :
        RequestOk(serving'[u], handling'[u], tid'[u], ids') /\ tid'[u] <= ids'
  BY <1>3, <1>4
<1>6. QED
  BY <1>3, <1>5 DEF AdapterInv

(* The same, if the middleware, the ids and the pool stay as they are. *)
LEMMA QuietTurn ==
  ASSUME AdapterInv, NEW t \in Threads, NEW r, Update(t, r),
         UNCHANGED <<handling, tid, ids, poolOpen>>,
         RequestOk(r, handling[t], tid[t], ids)
  PROVE  AdapterInv'
<1>1. /\ tid' \in [Threads -> Nat] /\ tid'[t] <= ids' /\ ids' \in Nat /\ ids <= ids'
      /\ ids' <= MaxIds /\ poolOpen' \in BOOLEAN
  BY DEF AdapterInv
<1>2. QED
  BY <1>1, Turn

(* A request that has just come in. *)
LEMMA FreshRequest ==
  ASSUME NEW route \in Routes, NEW at \in {"checks", "handle", "reply", "done"},
         NEW id \in Nat
  PROVE  /\ Request(route, at, id) \in Requests /\ Request(route, at, id) # None
         /\ Request(route, at, id).route = route /\ Request(route, at, id).at = at
         /\ Request(route, at, id).id = id /\ Request(route, at, id).logged = {}
         /\ Request(route, at, id).status = 0 /\ Request(route, at, id).replyId = 0
         /\ Request(route, at, id).body = Absent
BY DEF Request, Requests, None, Statuses

(* An answer is decided: the place in the route and the status change, and  *)
(* nothing else.                                                            *)
Decided(q, at, code) == [q EXCEPT !.at = at, !.status = code]

(* What a request is once an answer is decided. *)
LEMMA Answered ==
  ASSUME NEW q \in Requests, NEW at \in {"reply", "done"}, NEW code \in Statuses
  PROVE  /\ Decided(q, at, code) \in Requests /\ Decided(q, at, code) # None
         /\ Decided(q, at, code).at = at /\ Decided(q, at, code).status = code
         /\ Decided(q, at, code).route = q.route /\ Decided(q, at, code).id = q.id
         /\ Decided(q, at, code).logged = q.logged
         /\ Decided(q, at, code).replyId = q.replyId
         /\ Decided(q, at, code).header = q.header /\ Decided(q, at, code).body = q.body
<1>1. PICK p : p = [q EXCEPT !.at = at]
  OBVIOUS
<1>2. /\ p \in Requests /\ p.at = at
      /\ p.route = q.route /\ p.id = q.id /\ p.logged = q.logged
      /\ p.replyId = q.replyId /\ p.header = q.header /\ p.body = q.body
  BY <1>1 DEF Requests
<1>3. PICK r : r = [p EXCEPT !.status = code]
  OBVIOUS
<1>4. Decided(q, at, code) = r
  BY <1>1, <1>3 DEF Decided
<1>5. /\ r \in Requests /\ r # None /\ r.at = at /\ r.status = code
      /\ r.route = q.route /\ r.id = q.id /\ r.logged = q.logged
      /\ r.replyId = q.replyId /\ r.header = q.header /\ r.body = q.body
  BY <1>2, <1>3 DEF Requests, None
<1>6. QED
  BY <1>4, <1>5

(* A thread that serves nothing is not in the middleware. *)
LEMMA FreeIsIdle ==
  ASSUME AdapterInv, NEW t \in Threads, Free(t)
  PROVE  handling[t] = Idle
BY DEF AdapterInv, RequestOk, Placed, Free

(* An id is generated, and becomes the thread's. *)
LEMMA NewId ==
  ASSUME AdapterInv, NEW t \in Threads, GenerateRequestId, SetRequestId(t, ids')
  PROVE  /\ ids' \in Nat /\ ids' > 0 /\ ids <= ids' /\ ids' <= MaxIds
         /\ tid' \in [Threads -> Nat] /\ tid'[t] = ids'
         /\ \A u \in Threads \ {t} : tid'[u] = tid[u]
<1>1. ids' \in Nat /\ ids' > 0 /\ ids <= ids' /\ ids' <= MaxIds
  BY AdapterAssumption DEF AdapterInv, GenerateRequestId
<1>2. QED
  BY <1>1 DEF AdapterInv, SetRequestId

(* A probe comes in. *)
LEMMA EnterProbeStep ==
  ASSUME AdapterInv, NEW t \in Threads, NEW route \in Probes, EnterProbe(t, route)
  PROVE  AdapterInv'
<1>1. /\ Free(t) /\ GenerateRequestId /\ SetRequestId(t, ids')
      /\ UNCHANGED <<handling, poolOpen>>
  BY DEF EnterProbe, middleVars
<1>2. PICK n : n = ids'
  OBVIOUS
<1>3. PICK r : r = Request(route, "handle", n)
  OBVIOUS
<1>4. Update(t, r)
  BY <1>2, <1>3 DEF EnterProbe
<1>5. n \in Nat /\ n > 0
  BY <1>1, <1>2, NewId
<1>6. /\ r \in Requests /\ r # None /\ r.route = route /\ r.at = "handle" /\ r.id = n
      /\ r.logged = {} /\ r.status = 0 /\ r.replyId = 0 /\ r.body = Absent
  BY <1>3, <1>5, FreshRequest DEF Routes
<1>7. RequestOk(r, Idle, n, n)
  <2>1. route \notin Protected
    BY DEF Probes, Protected
  <2>2. QED
    BY <1>5, <1>6, <2>1 DEF RequestOk, Placed, Named, Entitled, Judged
<1>8. poolOpen' \in BOOLEAN /\ handling'[t] = Idle
  BY <1>1, FreeIsIdle DEF AdapterInv
<1>9. QED
  BY <1>1, <1>2, <1>4, <1>7, <1>8, NewId, Turn

(* A request for a protected route comes in and goes to the middleware. *)
LEMMA EnterProtectedStep ==
  ASSUME AdapterInv, HandlingOk, NEW t \in Threads, NEW route \in Protected,
         NEW client, NEW entry, NEW prefix, NEW header \in AuthHeaders,
         EnterProtected(t, route, client, entry, prefix, header)
  PROVE  AdapterInv'
<1>1. /\ GenerateRequestId /\ SetRequestId(t, ids') /\ UNCHANGED poolOpen
      /\ Begin(t, client, entry, prefix, header)
  BY DEF EnterProtected
<1>2. PICK n : n = ids'
  OBVIOUS
<1>3. n \in Nat /\ n > 0 /\ tid'[t] = n
  BY <1>1, <1>2, NewId
<1>4. PICK new : new = Request(route, "checks", n)
  OBVIOUS
<1>5. /\ new \in Requests /\ new # None /\ new.route = route /\ new.at = "checks"
      /\ new.id = n /\ new.logged = {} /\ new.status = 0 /\ new.replyId = 0
      /\ new.body = Absent
  BY <1>3, <1>4, FreshRequest DEF Routes
<1>6. PICK headed : headed = [new EXCEPT !.header = header]
  OBVIOUS
<1>7. /\ headed \in Requests /\ headed # None /\ headed.route = route /\ headed.at = "checks"
      /\ headed.id = n /\ headed.logged = {} /\ headed.status = 0 /\ headed.replyId = 0
      /\ headed.body = Absent /\ headed.header = header
  BY <1>5, <1>6 DEF Requests, None
<1>8. PICK r : r = IF route = "speech" THEN LogLine(headed, n) ELSE headed
  OBVIOUS
<1>9. Update(t, r)
  BY <1>2, <1>3, <1>4, <1>6, <1>8 DEF EnterProtected
<1>10. /\ r \in Requests /\ r # None /\ r.route = route /\ r.at = "checks" /\ r.id = n
       /\ r.logged \subseteq {n} /\ r.status = 0 /\ r.replyId = 0 /\ r.body = Absent
       /\ r.header = header
  <2>1. CASE route = "speech"
    <3>1. r = [headed EXCEPT !.logged = {n}]
      BY <1>3, <1>7, <1>8, <2>1 DEF LogLine
    <3>2. QED
      BY <1>3, <1>7, <3>1 DEF Requests, None
  <2>2. CASE route # "speech"
    BY <1>7, <1>8, <2>2
  <2>3. QED
    BY <2>1, <2>2
<1>11. /\ handling'[t] # Idle /\ handling'[t].good = CheckBearerAuth(header)
       /\ \A u \in Threads \ {t} : handling'[u] = handling[u]
  <2>1. PICK h : h = [at   |-> IF RequireAuth THEN "blocked" ELSE "rate",
                      ip   |-> ExtractClientIp(Forwarded(client, entry, prefix),
                                               Remote(client, entry)),
                      good |-> CheckBearerAuth(header),
                      way  |-> <<client, entry, prefix>>]
    BY Zenon
  <2>2. h.at \in {"blocked", "rate"} /\ h.good = CheckBearerAuth(header)
    BY <2>1
  <2>3. h # Idle
    BY <2>2 DEF Idle
  <2>4. handling' = [handling EXCEPT ![t] = h]
    BY <1>1, <2>1, Zenon DEF Begin
  <2>5. QED
    BY <2>2, <2>3, <2>4 DEF HandlingOk
<1>12. RequestOk(r, handling'[t], n, n)
  BY <1>3, <1>10, <1>11 DEF RequestOk, Placed, Named, Entitled, Judged
<1>13. poolOpen' \in BOOLEAN
  BY <1>1 DEF AdapterInv
<1>14. QED
  BY <1>1, <1>2, <1>3, <1>9, <1>11, <1>12, <1>13, NewId, Turn

(* /metrics is served at once. *)
LEMMA ServeMetricsStep ==
  ASSUME AdapterInv, NEW t \in Threads, ServeMetrics(t)
  PROVE  AdapterInv'
<1>1. PICK new : new = Request("metrics", "done", 0)
  OBVIOUS
<1>2. PICK r : r = [new EXCEPT !.status = 200]
  OBVIOUS
<1>3. /\ Update(t, r) /\ UNCHANGED <<handling, tid, ids, poolOpen>> /\ handling[t] = Idle
  BY <1>1, <1>2, FreeIsIdle DEF ServeMetrics, middleVars
<1>4. /\ r \in Requests /\ r # None /\ r.route = "metrics" /\ r.at = "done" /\ r.id = 0
      /\ r.logged = {} /\ r.status = 200 /\ r.replyId = 0 /\ r.body = Absent
  BY <1>1, <1>2 DEF Request, Requests, None, Statuses, Routes
<1>5. RequestOk(r, Idle, tid[t], ids)
  BY <1>4 DEF AdapterInv, RequestOk, Placed, Named, Entitled, Judged, Protected
<1>6. QED
  BY <1>3, <1>5, QuietTurn

(* The library refuses a body that is too large. *)
LEMMA PayloadTooLargeStep ==
  ASSUME AdapterInv, NEW t \in Threads, PayloadTooLarge(t)
  PROVE  AdapterInv'
<1>1. PICK new : new = Request("refused", "done", 0)
  OBVIOUS
<1>2. PICK r : r = [new EXCEPT !.status = 413]
  OBVIOUS
<1>3. /\ Update(t, r) /\ UNCHANGED <<handling, tid, ids, poolOpen>> /\ handling[t] = Idle
  BY <1>1, <1>2, FreeIsIdle DEF PayloadTooLarge, middleVars
<1>4. /\ r \in Requests /\ r # None /\ r.route = "refused" /\ r.at = "done" /\ r.id = 0
      /\ r.logged = {} /\ r.status = 413 /\ r.replyId = 0 /\ r.body = Absent
  BY <1>1, <1>2 DEF Request, Requests, None, Statuses, Routes
<1>5. RequestOk(r, Idle, tid[t], ids)
  BY <1>4 DEF AdapterInv, RequestOk, Placed, Named, Entitled, Judged, Protected
<1>6. QED
  BY <1>3, <1>5, QuietTurn

(* The error handler gives its response an id. *)
LEMMA NotFoundStep ==
  ASSUME AdapterInv, NEW t \in Threads, NotFound(t)
  PROVE  AdapterInv'
<1>1. PICK n : n = ids'
  OBVIOUS
<1>2. PICK new : new = Request("unknown", "done", n)
  OBVIOUS
<1>3. PICK missing, r : /\ missing = [new EXCEPT !.status = 404]
                      /\ r = ApplySecurityHeaders(missing)
  OBVIOUS
<1>4. /\ Update(t, r) /\ UNCHANGED <<handling, tid, poolOpen>> /\ handling[t] = Idle
  BY <1>1, <1>2, <1>3, FreeIsIdle DEF NotFound, middleVars
<1>5. n \in Nat /\ n > 0 /\ ids \in Nat /\ ids <= n /\ n <= MaxIds
  BY <1>1, AdapterAssumption DEF AdapterInv, NotFound, GenerateRequestId
<1>6. /\ r \in Requests /\ r # None /\ r.route = "unknown" /\ r.at = "done" /\ r.id = n
      /\ r.logged = {} /\ r.status = 404 /\ r.replyId = n /\ r.body = Absent
  <2>1. /\ missing \in Requests /\ missing.route = "unknown" /\ missing.at = "done"
        /\ missing.id = n /\ missing.logged = {} /\ missing.status = 404
        /\ missing.body = Absent
    BY <1>2, <1>3, <1>5 DEF Request, Requests, Statuses, Routes
  <2>2. QED
    <3>1. r = [missing EXCEPT !.replyId = n]
      BY <1>3, <2>1 DEF ApplySecurityHeaders
    <3>2. QED
      BY <1>5, <2>1, <3>1 DEF Requests, None
<1>7. RequestOk(r, Idle, tid[t], n)
  BY <1>5, <1>6 DEF RequestOk, Placed, Named, Entitled, Judged, Protected
<1>8. tid' \in [Threads -> Nat] /\ tid'[t] <= n /\ poolOpen' \in BOOLEAN
  BY <1>4, <1>5 DEF AdapterInv
<1>9. QED
  BY <1>1, <1>4, <1>5, <1>7, <1>8, Turn

(* The middleware is not done with the request. *)
LEMMA StillChecking ==
  ASSUME AdapterInv, HandlingOk, NEW t \in Threads, handling[t] \in Handled,
         serving[t].at = "checks", NEW check \in {"rate", "bearer"}, Continue(t, check),
         UNCHANGED <<serving, tid, ids, poolOpen>>
  PROVE  AdapterInv'
<1>1. /\ handling'[t] # Idle /\ handling'[t].good = handling[t].good
      /\ \A u \in Threads \ {t} : handling'[u] = handling[u]
  <2>1. PICK h : h = [handling[t] EXCEPT !.at = check]
    OBVIOUS
  <2>2. h.at = check /\ h.good = handling[t].good /\ h # Idle
    BY <2>1 DEF Handled, Idle
  <2>3. handling' = [handling EXCEPT ![t] = h]
    BY <2>1 DEF Continue
  <2>4. QED
    BY <2>2, <2>3 DEF HandlingOk
<1>2. serving' = [serving EXCEPT ![t] = serving[t]]
  BY DEF AdapterInv
<1>3. RequestOk(serving[t], handling'[t], tid[t], ids)
  BY <1>1 DEF AdapterInv, RequestOk, Placed, Named, Entitled, Judged
<1>4. /\ tid' \in [Threads -> Nat] /\ tid'[t] <= ids' /\ ids' \in Nat /\ ids <= ids'
      /\ ids' <= MaxIds /\ poolOpen' \in BOOLEAN
  BY DEF AdapterInv
<1>5. QED
  BY <1>1, <1>2, <1>3, <1>4, Turn DEF Update

(* The middleware refuses the request: 401 only if the key is wrong. *)
LEMMA Refused ==
  ASSUME AdapterInv, HandlingOk, NEW t \in Threads, serving[t].at = "checks",
         Return(t), NEW code \in {401, 429}, Answers(t, code),
         code = 401 => ~CheckBearerAuth(serving[t].header), UNCHANGED <<tid, ids, poolOpen>>
  PROVE  AdapterInv'
<1>1. handling'[t] = Idle /\ \A u \in Threads \ {t} : handling'[u] = handling[u]
  BY DEF HandlingOk, Return
<1>2. PICK r : r = Decided(serving[t], "reply", code)
  OBVIOUS
<1>3. Update(t, r)
  BY <1>2 DEF Answers, Decided
<1>4. /\ serving[t] \in Requests /\ serving[t] # None
      /\ RequestOk(serving[t], handling[t], tid[t], ids)
  BY DEF AdapterInv, None
<1>5. /\ r \in Requests /\ r # None /\ r.at = "reply" /\ r.status = code
      /\ r.route = serving[t].route /\ r.id = serving[t].id /\ r.logged = serving[t].logged
      /\ r.replyId = serving[t].replyId /\ r.header = serving[t].header
      /\ r.body = serving[t].body
  <2>1. code \in Statuses
    BY DEF Statuses
  <2>2. QED
    BY <1>2, <1>4, <2>1, Answered
<1>6. RequestOk(r, Idle, tid[t], ids)
  BY <1>4, <1>5 DEF RequestOk, Placed, Named, Entitled, Judged
<1>7. /\ tid' \in [Threads -> Nat] /\ tid'[t] <= ids' /\ ids' \in Nat /\ ids <= ids'
      /\ ids' <= MaxIds /\ poolOpen' \in BOOLEAN
  BY DEF AdapterInv
<1>8. QED
  BY <1>1, <1>3, <1>6, <1>7, Turn

(* The middleware lets the request pass: only with the key, if one is needed. *)
LEMMA Passed ==
  ASSUME AdapterInv, HandlingOk, NEW t \in Threads, serving[t].at = "checks",
         Return(t), Passes(t), RequireAuth => CheckBearerAuth(serving[t].header),
         UNCHANGED <<tid, ids, poolOpen>>
  PROVE  AdapterInv'
<1>1. handling'[t] = Idle /\ \A u \in Threads \ {t} : handling'[u] = handling[u]
  BY DEF HandlingOk, Return
<1>2. PICK r : r = [serving[t] EXCEPT !.at = "handle"]
  OBVIOUS
<1>3. Update(t, r)
  BY <1>2 DEF Passes, Update
<1>4. /\ serving[t] \in Requests /\ serving[t] # None
      /\ RequestOk(serving[t], handling[t], tid[t], ids)
  BY DEF AdapterInv, None
<1>5. /\ r \in Requests /\ r # None /\ r.at = "handle" /\ r.status = serving[t].status
      /\ r.route = serving[t].route /\ r.id = serving[t].id /\ r.logged = serving[t].logged
      /\ r.replyId = serving[t].replyId /\ r.header = serving[t].header
      /\ r.body = serving[t].body
  BY <1>2, <1>4 DEF Requests, None
<1>6. RequestOk(r, Idle, tid[t], ids)
  BY <1>4, <1>5 DEF RequestOk, Placed, Named, Entitled, Judged
<1>7. /\ tid' \in [Threads -> Nat] /\ tid'[t] <= ids' /\ ids' \in Nat /\ ids <= ids'
      /\ ids' <= MaxIds /\ poolOpen' \in BOOLEAN
  BY DEF AdapterInv
<1>8. QED
  BY <1>1, <1>3, <1>6, <1>7, Turn

(* A step of the middleware on behalf of a request. *)
LEMMA RunMiddlewareStep ==
  ASSUME AdapterInv, HandlingOk, NEW t \in Threads, RunMiddleware(t)
  PROVE  AdapterInv'
<1>1. serving[t].at = "checks" /\ UNCHANGED <<tid, ids, poolOpen>>
  BY DEF RunMiddleware
<1>2. /\ handling[t] # Idle /\ handling[t] \in Handled /\ handling[t].good \in BOOLEAN
      /\ handling[t].good = CheckBearerAuth(serving[t].header)
  BY <1>1 DEF AdapterInv, RequestOk, Placed, Entitled, HandlingOk, Handled, None
<1>3. Return(t) => handling'[t] = Idle
  BY DEF Return, HandlingOk
<1>4. ASSUME NEW check \in {"rate", "bearer"}, Continue(t, check)
      PROVE  handling'[t] # Idle
  <2>1. PICK h : h = [handling[t] EXCEPT !.at = check]
    OBVIOUS
  <2>2. h # Idle
    BY <1>2, <2>1 DEF Handled, Idle
  <2>3. QED
    BY <1>4, <2>1, <2>2 DEF Continue, HandlingOk
<1>5. CASE /\ CheckBlocked(t)
           /\ IF handling'[t] = Idle THEN Answers(t, 429) ELSE UNCHANGED serving
  <2>1. Return(t) \/ Continue(t, "rate")
    BY <1>5 DEF CheckBlocked
  <2>2. CASE Return(t)
    BY <1>1, <1>3, <1>5, <2>2, Refused
  <2>3. CASE Continue(t, "rate")
    BY <1>1, <1>2, <1>4, <1>5, <2>3, StillChecking
  <2>4. QED
    BY <2>1, <2>2, <2>3
<1>6. CASE RateLimited(t) /\ Answers(t, 429)
  <2>1. Return(t)
    BY <1>6 DEF RateLimited
  <2>2. QED
    BY <1>1, <1>6, <2>1, Refused
<1>7. CASE RateOk(t) /\ IF handling'[t] = Idle THEN Passes(t) ELSE UNCHANGED serving
  <2>1. CASE RequireAuth
    <3>1. Continue(t, "bearer")
      BY <1>7, <2>1 DEF RateOk
    <3>2. QED
      BY <1>1, <1>2, <1>4, <1>7, <3>1, StillChecking
  <2>2. CASE ~RequireAuth
    <3>1. Return(t)
      BY <1>7, <2>2 DEF RateOk
    <3>2. QED
      BY <1>1, <1>3, <1>7, <2>2, <3>1, Passed
  <2>3. QED
    BY <2>1, <2>2
<1>8. CASE BearerOk(t) /\ Passes(t)
  <2>1. Return(t) /\ handling[t].good
    BY <1>8 DEF BearerOk
  <2>2. CheckBearerAuth(serving[t].header)
    BY <1>2, <2>1
  <2>3. QED
    BY <1>1, <1>8, <2>1, <2>2, Passed
<1>9. CASE BearerFails(t) /\ Answers(t, 401)
  <2>1. Return(t) /\ ~handling[t].good
    BY <1>9 DEF BearerFails
  <2>2. ~CheckBearerAuth(serving[t].header)
    BY <1>2, <2>1
  <2>3. QED
    BY <1>1, <1>9, <2>1, <2>2, Refused
<1>10. QED
  BY <1>5, <1>6, <1>7, <1>8, <1>9 DEF RunMiddleware

(* What a thread that is at a stretch of its route knows of its request. *)
LEMMA AtRequest ==
  ASSUME AdapterInv, NEW t \in Threads, serving[t].at \in {"handle", "reply"}
  PROVE  /\ serving[t] \in Requests /\ serving[t] # None /\ handling[t] = Idle
         /\ RequestOk(serving[t], Idle, tid[t], ids)
<1>1. serving[t] \in Requests /\ serving[t] # None
  BY DEF AdapterInv, None
<1>2. RequestOk(serving[t], handling[t], tid[t], ids)
  BY DEF AdapterInv
<1>3. handling[t] = Idle
  BY <1>2 DEF RequestOk, Placed
<1>4. QED
  BY <1>1, <1>2, <1>3

(* A handler that reads answers. *)
LEMMA HandleReadStep ==
  ASSUME AdapterInv, NEW t \in Threads, HandleRead(t)
  PROVE  AdapterInv'
<1>1. PICK code \in {200, 503} : Answers(t, code)
  BY DEF HandleRead
<1>2. serving[t].at = "handle" /\ UNCHANGED <<handling, tid, ids, poolOpen>>
  BY DEF HandleRead, middleVars
<1>3. PICK q, r : q = serving[t] /\ r = Decided(q, "reply", code)
  OBVIOUS
<1>4. Update(t, r)
  BY <1>1, <1>3 DEF Answers, Decided
<1>5. /\ q \in Requests /\ q # None /\ q.at = "handle" /\ RequestOk(q, Idle, tid[t], ids)
      /\ handling[t] = Idle
  BY <1>2, <1>3, AtRequest
<1>6. /\ r \in Requests /\ r # None /\ r.at = "reply" /\ r.status = code
      /\ r.route = q.route /\ r.id = q.id /\ r.logged = q.logged
      /\ r.replyId = q.replyId /\ r.header = q.header /\ r.body = q.body
  <2>1. code \in Statuses
    BY DEF Statuses
  <2>2. QED
    BY <1>3, <1>5, <2>1, Answered
<1>7. RequestOk(r, Idle, tid[t], ids)
  BY <1>5, <1>6 DEF RequestOk, Placed, Named, Entitled, Judged
<1>8. QED
  BY <1>2, <1>4, <1>5, <1>7, QuietTurn

(* A request whose body has been looked at. *)
Carrying(p, body) == [p EXCEPT !.body = body]

(* handle_speech answers, or throws and the library answers. *)
LEMMA HandleBodyStep ==
  ASSUME AdapterInv, NEW t \in Threads, NEW body \in Bodies,
         HandleSpeech(t, body) \/ HandleThrows(t, body)
  PROVE  AdapterInv'
<1>1. PICK at \in {"reply", "done"}, code \in {200, 400, 413, 500, 503} :
        /\ Update(t, Carrying(Decided(serving[t], at, code), body))
        /\ at = "done" => code = 500
        /\ code \in {200, 503} => Verdict(body) = Ok
        /\ code = 400 => Verdict(body) # Ok
        /\ at = "done" => Verdict(body) = Throws
  <2>1. CASE HandleThrows(t, body)
    <3>1. Update(t, Carrying(Decided(serving[t], "done", 500), body))
      BY <2>1 DEF HandleThrows, Decided, Carrying
    <3>2. Verdict(body) = Throws
      BY <2>1 DEF HandleThrows
    <3>3. QED
      BY <3>1, <3>2
  <2>2. CASE HandleSpeech(t, body)
    <3>1. PICK code \in IF Verdict(body) # Ok THEN {Verdict(body)}
                        ELSE IF poolOpen THEN {200, 500, 503} ELSE {503} :
            Update(t, Carrying(Decided(serving[t], "reply", code), body))
      BY <2>2 DEF HandleSpeech, Decided, Carrying
    <3>2. Verdict(body) \in {0, 400, 413}
      <4>1. Verdict(body) # 500
        BY <2>2, Zenon DEF HandleSpeech, Throws
      <4>2. Verdict(body) \in {0, 400, 413, 500}
        BY VerdictIsACheck
      <4>3. QED
        BY <4>1, <4>2
    <3>3. /\ code \in {200, 400, 413, 500, 503}
          /\ code = 400 => Verdict(body) # Ok
          /\ code \in {200, 503} => Verdict(body) = Ok
      BY <3>1, <3>2 DEF Ok
    <3>4. QED
      BY <3>1, <3>3
  <2>3. QED
    BY <2>1, <2>2
<1>2. serving[t].at = "handle" /\ UNCHANGED <<handling, tid, ids, poolOpen>>
  BY DEF HandleSpeech, HandleThrows, middleVars
<1>3. PICK q, p, r : /\ q = serving[t] /\ p = Decided(q, at, code)
                     /\ r = Carrying(p, body)
  OBVIOUS
<1>4. Update(t, r)
  BY <1>1, <1>3
<1>5. /\ q \in Requests /\ q # None /\ q.at = "handle" /\ RequestOk(q, Idle, tid[t], ids)
      /\ handling[t] = Idle
  BY <1>2, <1>3, AtRequest
<1>6. /\ p \in Requests /\ p # None /\ p.at = at /\ p.status = code
      /\ p.route = q.route /\ p.id = q.id /\ p.logged = q.logged
      /\ p.replyId = q.replyId /\ p.header = q.header
  <2>1. code \in Statuses
    BY DEF Statuses
  <2>2. QED
    BY <1>3, <1>5, <2>1, Answered
<1>7. /\ r \in Requests /\ r # None /\ r.at = at /\ r.status = code
      /\ r.route = q.route /\ r.id = q.id /\ r.logged = q.logged
      /\ r.replyId = q.replyId /\ r.header = q.header /\ r.body = body
  BY <1>3, <1>6 DEF Carrying, Requests, None
<1>8. RequestOk(r, Idle, tid[t], ids)
  <2>1. Placed(r, Idle, ids) /\ Named(r, tid[t])
    BY <1>1, <1>5, <1>7 DEF RequestOk, Placed, Named
  <2>2. Entitled(r, Idle)
    BY <1>5, <1>7 DEF RequestOk, Entitled
  <2>3. Judged(r)
    BY <1>1, <1>7 DEF Judged
  <2>4. QED
    BY <2>1, <2>2, <2>3 DEF RequestOk
<1>9. QED
  BY <1>2, <1>4, <1>5, <1>8, QuietTurn

(* The response goes out: with the id, which the route logs and resets. *)
LEMMA ReplyStep ==
  ASSUME AdapterInv, NEW t \in Threads, Reply(t)
  PROVE  AdapterInv'
<1>1. /\ serving[t].at = "reply" /\ SetRequestId(t, 0)
      /\ UNCHANGED <<handling, ids, poolOpen>>
  BY DEF Reply, middleVars
<1>2. PICK q, p, a : /\ q = serving[t] /\ p = ApplySecurityHeaders(q) /\ a = AdaptResponse(p)
  OBVIOUS
<1>3. PICK id : id = tid[t]
  OBVIOUS
<1>4. PICK r : r = IF a.route = "speech" /\ a.status \notin {401, 429}
                   THEN LogLine(a, id) ELSE a
  OBVIOUS
<1>5. Update(t, r)
  BY <1>2, <1>3, <1>4 DEF Reply
<1>6. /\ q \in Requests /\ q # None /\ q.at = "reply" /\ RequestOk(q, Idle, id, ids)
      /\ handling[t] = Idle
  BY <1>1, <1>2, <1>3, AtRequest
<1>7. /\ a \in Requests /\ a # None /\ a.at = "done" /\ a.status = q.status
      /\ a.route = q.route /\ a.id = q.id /\ a.logged = q.logged
      /\ a.replyId = q.id /\ a.header = q.header /\ a.body = q.body
  <2>1. /\ p \in Requests /\ p.status = q.status
        /\ p.route = q.route /\ p.id = q.id /\ p.logged = q.logged
        /\ p.replyId = q.id /\ p.header = q.header /\ p.body = q.body
    BY <1>2, <1>6 DEF ApplySecurityHeaders, Requests
  <2>2. QED
    BY <1>2, <2>1 DEF AdaptResponse, Requests, None
<1>8. q.id = id /\ id # 0 /\ id \in Nat /\ id <= ids
  BY <1>3, <1>6 DEF RequestOk, Named, AdapterInv
<1>9. /\ r \in Requests /\ r # None /\ r.at = "done" /\ r.status = q.status
      /\ r.route = q.route /\ r.id = q.id /\ r.logged \subseteq q.logged \cup {id}
      /\ r.replyId = q.id /\ r.header = q.header /\ r.body = q.body
  <2>1. CASE r = a
    BY <1>7, <2>1
  <2>2. CASE r = LogLine(a, id)
    <3>1. r = [a EXCEPT !.logged = a.logged \cup {id}]
      BY <1>7, <1>8, <2>2 DEF LogLine, Requests
    <3>2. a.logged \cup {id} \in SUBSET Nat
      BY <1>7, <1>8 DEF Requests
    <3>3. QED
      BY <1>7, <3>1, <3>2 DEF Requests, None
  <2>3. QED
    BY <1>4, <2>1, <2>2
<1>10. RequestOk(r, Idle, 0, ids)
  <2>1. Placed(r, Idle, ids) /\ Named(r, 0)
    BY <1>6, <1>8, <1>9 DEF RequestOk, Placed, Named
  <2>2. Entitled(r, Idle)
    BY <1>6, <1>9 DEF RequestOk, Entitled
  <2>3. Judged(r)
    BY <1>6, <1>8, <1>9 DEF RequestOk, Judged
  <2>4. QED
    BY <2>1, <2>2, <2>3 DEF RequestOk
<1>11. /\ tid' \in [Threads -> Nat] /\ tid'[t] = 0
       /\ \A u \in Threads \ {t} : tid'[u] = tid[u]
  BY <1>1 DEF AdapterInv, SetRequestId
<1>12. ids' \in Nat /\ ids <= ids' /\ 0 <= ids' /\ ids' <= MaxIds /\ poolOpen' \in BOOLEAN
  BY <1>1 DEF AdapterInv
<1>13. QED
  BY <1>1, <1>5, <1>6, <1>10, <1>11, <1>12, Turn

-----------------------------------------------------------------------------
(***************************************************************************)
(* The theorems                                                            *)
(***************************************************************************)
(* Nobody is served at first. *)
LEMMA AdapterInitInv == AdapterInit => AdapterInv
<1> SUFFICES ASSUME AdapterInit PROVE AdapterInv
  OBVIOUS
<1>1. /\ serving = [t \in Threads |-> None] /\ tid = [t \in Threads |-> 0]
      /\ ids = 0 /\ poolOpen = TRUE /\ handling = [t \in Threads |-> Idle]
  BY DEF AdapterInit, MiddlewareInit
<1>2. None.at # "checks"
  BY DEF None
<1>3. \A t \in Threads : RequestOk(serving[t], handling[t], tid[t], ids)
  BY <1>1, <1>2 DEF RequestOk, Placed, Named, Entitled, Judged
<1>4. QED
  BY <1>1, <1>3, AdapterAssumption DEF AdapterInv

(* Every step keeps the invariant. *)
LEMMA AdapterNextInv ==
  AdapterInv /\ HandlingOk /\ [AdapterNext]_allRouteVars => AdapterInv'
<1> SUFFICES ASSUME AdapterInv, HandlingOk, [AdapterNext]_allRouteVars PROVE AdapterInv'
  OBVIOUS
<1>1. ASSUME NEW t \in Threads, NEW route \in Probes, EnterProbe(t, route)
      PROVE  AdapterInv'
  BY <1>1, EnterProbeStep
<1>2. ASSUME NEW t \in Threads, NEW route \in Protected, NEW client \in Clients,
             NEW entry \in EntryPoints, NEW prefix \in Prefixes, NEW header \in AuthHeaders,
             EnterProtected(t, route, client, entry, prefix, header)
      PROVE  AdapterInv'
  BY <1>2, EnterProtectedStep
<1>3. ASSUME NEW t \in Threads, ServeMetrics(t) \/ NotFound(t) \/ PayloadTooLarge(t)
      PROVE  AdapterInv'
  BY <1>3, ServeMetricsStep, NotFoundStep, PayloadTooLargeStep
<1>4. ASSUME NEW t \in Threads, RunMiddleware(t) \/ HandleRead(t) \/ Reply(t)
      PROVE  AdapterInv'
  BY <1>4, RunMiddlewareStep, HandleReadStep, ReplyStep
<1>5. ASSUME NEW t \in Threads, NEW body \in Delivered,
             HandleSpeech(t, body) \/ HandleThrows(t, body)
      PROVE  AdapterInv'
  BY <1>5, HandleBodyStep DEF Delivered
<1>6. ASSUME UNCHANGED <<handling, serving, tid, ids>>, poolOpen' \in BOOLEAN
      PROVE  AdapterInv'
  BY <1>6 DEF AdapterInv
<1>7. CASE ClosePool
  BY <1>6, <1>7 DEF ClosePool, middleVars
<1>8. CASE TimePasses
  BY <1>6, <1>8 DEF TimePasses, ClockTick, adapterVars, AdapterInv
<1>9. CASE UNCHANGED allRouteVars
  BY <1>6, <1>9 DEF allRouteVars, middleVars, adapterVars, AdapterInv
<1>10. QED
  BY <1>1, <1>2, <1>3, <1>4, <1>5, <1>7, <1>8, <1>9 DEF AdapterNext

(* The invariant holds, with that of the middleware. *)
LEMMA AdapterInvHolds == AdapterSpec => []AdapterInv /\ []MiddlewareInv
<1>1. AdapterSpec => []MiddlewareInv
  BY RoutesImplementMiddleware, MiddlewareInvHolds, PTL
<1>2. MiddlewareInv => HandlingOk
  BY DEF MiddlewareInv
<1>3. QED
  BY <1>1, <1>2, AdapterInitInv, AdapterNextInv, PTL DEF AdapterSpec

(* Every variable of the routes keeps its type, and a request is in the     *)
(* middleware exactly while it waits for its answer.                        *)
THEOREM AdapterTypeCorrect == AdapterSpec => []AdapterTypeOK
<1>1. AdapterInv /\ MiddlewareInv => AdapterTypeOK
  <2> SUFFICES ASSUME AdapterInv, MiddlewareInv PROVE AdapterTypeOK
    OBVIOUS
  <2>1. ASSUME NEW t \in Threads
        PROVE  /\ handling[t] # Idle <=> serving[t].at = "checks"
               /\ serving[t] # None =>
                    /\ serving[t].route \in Routes
                    /\ serving[t].at \in {"checks", "handle", "reply", "done"}
                    /\ {serving[t].id, serving[t].replyId} \cup serving[t].logged
                         \subseteq 0 .. ids
                    /\ serving[t].status \in Statuses \cup {0}
    BY DEF AdapterInv, RequestOk, Placed, Requests
  <2>2. tid \in [Threads -> 0 .. ids] /\ ids \in 0 .. MaxIds /\ poolOpen \in BOOLEAN
    BY AdapterAssumption DEF AdapterInv
  <2>3. MiddlewareTypeOK
    BY InvTypes
  <2>4. QED
    BY <2>1, <2>2, <2>3 DEF AdapterTypeOK, Routes
<1>2. QED
  BY <1>1, AdapterInvHolds, PTL

(* The limiters charge the client behind all trusted proxies, whatever its  *)
(* X-Forwarded-For claims; a caller that gets round some of them, the peer  *)
(* or, with claims enough, an address among those.                          *)
THEOREM ClientsAreIdentified == AdapterSpec => []ClientIdentified
<1>1. AdapterInv /\ MiddlewareInv => ClientIdentified
  BY DEF AdapterInv, RequestOk, Placed, MiddlewareInv, HandlingOk, ClientIdentified
<1>2. QED
  BY <1>1, AdapterInvHolds, PTL

(* The log and the response of a request name this request and no other,    *)
(* although threads are reused and an exception skips the reset.            *)
THEOREM RequestsKeepTheirId == AdapterSpec => []OneIdPerRequest
<1>1. AdapterInv => OneIdPerRequest
  BY DEF AdapterInv, RequestOk, Named, OneIdPerRequest
<1>2. QED
  BY <1>1, AdapterInvHolds, PTL

(* Whoever gets past the middleware of a server that requires a key sent a  *)
(* header that agrees with the key as far as both go and is the key, unless *)
(* its size is a byte's range or more away; whoever sends exactly the key   *)
(* is not refused for want of it.                                           *)
THEOREM KeyHoldersOnly == AdapterSpec => []OnlyKeyHolders
<1>1. AdapterInv => OnlyKeyHolders
  <2> SUFFICES ASSUME AdapterInv, NEW t \in Threads, RequireAuth, NEW r, r = serving[t],
                      r # None, r.at # "checks", r.route \in Protected
               PROVE  /\ r.status \notin {401, 429} =>
                           /\ \A i \in DOMAIN r.header \cap DOMAIN Key :
                                r.header[i] = Key[i]
                           /\ Len(r.header) - Len(Key) \in 1 - ByteValues .. ByteValues - 1
                                => r.header = Key
                      /\ r.status = 401 => r.header # Key
    <3>1. ASSUME AdapterInv, NEW t \in Threads, serving[t] # None, serving[t].at = "checks"
          PROVE  serving[t].status = 0
      BY <3>1 DEF AdapterInv, RequestOk, Entitled
    <3>2. QED
      BY <3>1 DEF OnlyKeyHolders, Admitted, None
  <2>1. r \in Requests /\ Entitled(r, handling[t])
    BY DEF AdapterInv, RequestOk
  <2>2. /\ r.status \notin {401, 429} => CheckBearerAuth(r.header)
        /\ r.status = 401 => ~CheckBearerAuth(r.header)
    BY <2>1 DEF Entitled
  <2>3. r.header \in Seq(Texts)
    <3>1. r.header \in AuthHeaders \/ r.header = <<>>
      BY <2>1 DEF Requests
    <3>2. AuthHeaders \subseteq Seq(Texts)
      BY MiddlewareAssumption, TextsAreStrings, Zenon
    <3>3. <<>> \in Seq(Texts)
      BY EmptySeq
    <3>4. QED
      BY <3>1, <3>2, <3>3, Zenon
  <2>4. QED
    BY <2>2, <2>3, KeyNeeded, KeySuffices
<1>2. QED
  BY <1>1, AdapterInvHolds, PTL

(* What is spoken is what the API accepts.  Nobody is turned away, by a 400 *)
(* or an exception, who sent a request it accepts, unless the input is      *)
(* within the limit in characters and beyond it in bytes.                   *)
THEOREM ValidRequestsOnly == AdapterSpec => []OnlyValidSpoken
<1>1. AdapterInv => OnlyValidSpoken
  <2> SUFFICES ASSUME AdapterInv, NEW t \in Threads, NEW r, r = serving[t], r # None,
                      r.body # Absent
               PROVE  /\ r.status \in {200, 503} => WellFormed(r.body)
                      /\ r.status = 400 /\ WellFormed(r.body) =>
                           Len(r.body.input) > MaxInputChars
                      /\ r.at = "done" /\ r.replyId = 0 => ~WellFormed(r.body)
    BY DEF OnlyValidSpoken
  <2>1. Judged(r) /\ r.body \in Bodies
    BY DEF AdapterInv, RequestOk, Requests
  <2>2. r.status \in {200, 503} => WellFormed(r.body)
    BY <2>1, PassesIfWellFormed DEF Judged
  <2>3. ASSUME r.status = 400, WellFormed(r.body)
        PROVE  Len(r.body.input) > MaxInputChars
    <3>1. ~(Len(r.body.input) <= MaxInputChars)
      BY <2>1, <2>3, PassesIfWellFormed DEF Judged
    <3>2. r.body.input \notin {Absent, WrongType}
      BY <2>3 DEF WellFormed
    <3>3. Len(r.body.input) \in Nat /\ MaxInputChars \in Nat
      BY <2>1, <3>2, FieldTypes, NoMoreCharacters, LimitTypes, Zenon
    <3>4. QED
      BY <3>1, <3>3
  <2>4. r.at = "done" /\ r.replyId = 0 => ~WellFormed(r.body)
    BY <2>1, ThrowsIfIllFormed DEF Judged
  <2>5. QED
    BY <2>2, <2>3, <2>4
<1>2. QED
  BY <1>1, AdapterInvHolds, PTL

=============================================================================
