---------------------------- MODULE StartupProofs ----------------------------
(***************************************************************************)
(* What holds of the start of the server for every set of settings, width   *)
(* of int, file and environment.  The inductive invariant says, for every   *)
(* place main() can be at, what the ServerConfig has taken from where.      *)
(***************************************************************************)
EXTENDS Startup, TLAPS

(* What is absent, and what is no number, is no int. *)
LEMMA NoInt == Absent \notin Fits /\ Garbage \notin Fits /\ EnvInts \subseteq Fits
<1>1. Fits \subseteq Int
  BY StartupAssumption DEF Fits
<1>2. Absent \notin Int /\ Garbage \notin Int /\ EnvInts \subseteq Fits
  BY StartupAssumption, Zenon
<1>3. QED
  BY <1>1, <1>2, Zenon

(* The built-in defaults are ints. *)
LEMMA DefaultFits == Default \in [Ints -> Fits]
<1>1. IntMax \in Nat /\ Default \in [Ints -> 1 .. IntMax]
  BY StartupAssumption
<1>2. 1 .. IntMax \subseteq Fits
  BY <1>1 DEF Fits
<1>3. QED
  BY <1>1, <1>2

(* What is absent is no name. *)
LEMMA NoName == Absent # "good" /\ Absent # "bad" /\ Absent # "true" /\ Absent # "other"
BY StartupAssumption, Zenon

(* What is absent is no truth value. *)
LEMMA NoTruth == Absent # TRUE /\ Absent # FALSE
BY StartupAssumption, Zenon

(* The strongest of three offers. *)
LEMMA StrongestOffer ==
  ASSUME NEW s \in Ints
  PROVE  Strongest(s) = IF env.ints[s] \in Fits THEN env.ints[s]
                        ELSE IF toml.ints[s] \in Fits THEN toml.ints[s] ELSE Default[s]
<1> DEFINE usable == {i \in 1 .. 3 : Offers(s)[i] \in Fits}
<1>1. Offers(s)[1] = Default[s] /\ Offers(s)[2] = toml.ints[s] /\ Offers(s)[3] = env.ints[s]
  BY DEF Offers
<1>2. Default[s] \in Fits
  BY DefaultFits
<1>3. 1 \in usable /\ (2 \in usable <=> toml.ints[s] \in Fits)
      /\ (3 \in usable <=> env.ints[s] \in Fits) /\ usable \subseteq 1 .. 3
  BY <1>1, <1>2
<1>4. Strongest(s) = Offers(s)[Max(usable)]
  BY DEF Strongest
<1> HIDE DEF usable
<1>5. Max(usable) = IF 3 \in usable THEN 3 ELSE IF 2 \in usable THEN 2 ELSE 1
  <2>1. PICK m \in 1 .. 3 : m = IF 3 \in usable THEN 3 ELSE IF 2 \in usable THEN 2 ELSE 1
    OBVIOUS
  <2>2. m \in usable /\ \A y \in usable : m >= y
    BY <1>3, <2>1
  <2>3. \A x \in usable : (\A y \in usable : x >= y) => x = m
    BY <1>3, <2>2
  <2>4. Max(usable) = m
    BY <2>2, <2>3 DEF Max
  <2>5. QED
    BY <2>1, <2>4
<1>6. QED
  BY <1>1, <1>3, <1>4, <1>5, Zenon

-----------------------------------------------------------------------------
(***************************************************************************)
(* The inductive invariant                                                 *)
(***************************************************************************)
Configs ==
  [ints : [Ints -> Fits], require_auth : BOOLEAN, strings : [Strings -> {"good", "bad"}]]

(* What main() finds does not change, and a file that cannot be read says   *)
(* nothing.                                                                 *)
InputsOk ==
  /\ file \in {"missing", "malformed", "good"}
  /\ env \in Sources(EnvInts \cup {Garbage}, {"true", "other"}, {"good", "bad"})
  /\ toml \in Sources(TomlInts, BOOLEAN, {"good", "bad"})
  /\ file # "good" => toml = Nothing

(* Where the integer settings come from. *)
IntsFrom ==
  /\ at = "load" => cfg.ints = Default
  /\ at = "env" =>
       \A s \in Ints :
         cfg.ints[s] = IF toml.ints[s] \in Fits THEN toml.ints[s] ELSE Default[s]
  /\ at \notin {"load", "env"} =>
       \A s \in Ints :
         cfg.ints[s] = IF env.ints[s] \in Fits THEN env.ints[s]
                       ELSE IF toml.ints[s] \in Fits THEN toml.ints[s] ELSE Default[s]

(* Where the key comes from. *)
KeyFrom ==
  /\ at \in {"load", "env"} => cfg.strings["api_key"] = "bad"
  /\ cfg.strings["api_key"] = "good" => env.strings["api_key"] = "good"

(* Where the demand for a key comes from. *)
DemandFrom ==
  /\ at = "load" => cfg.require_auth = FALSE
  /\ at = "env" => (cfg.require_auth = TRUE <=> toml.require_auth = TRUE)
  /\ at \notin {"load", "env"} =>
       (cfg.require_auth = TRUE <=>
          \/ env.require_auth = "true"
          \/ env.require_auth = Absent /\ toml.require_auth = TRUE)

(* Past validate(), its answer still holds. *)
Validated ==
  at \in {"backend", "initialize", "serving"} =>
    /\ \A s \in Counts : cfg.ints[s] >= 1
    /\ cfg.require_auth = TRUE => cfg.strings["api_key"] = "good"

StartupInv ==
  /\ at \in {"load", "env", "validate", "backend", "initialize", "serving", "refused"}
  /\ InputsOk
  /\ cfg \in Configs
  /\ IntsFrom
  /\ KeyFrom
  /\ DemandFrom
  /\ Validated

(* At first the ServerConfig has its defaults. *)
LEMMA StartupInitInv == StartupInit => StartupInv
<1> SUFFICES ASSUME StartupInit PROVE StartupInv
  OBVIOUS
<1>1. at = "load" /\ InputsOk /\ cfg = Defaults
  BY DEF StartupInit, InputsOk
<1>2. /\ cfg.ints = Default /\ cfg.require_auth = FALSE
      /\ cfg.strings \in [Strings -> {"good", "bad"}]
  BY <1>1 DEF Defaults
<1>3. cfg.strings["api_key"] = "bad"
  BY <1>1, StartupAssumption DEF Defaults
<1>4. cfg \in Configs
  <2>1. cfg = [ints |-> cfg.ints, require_auth |-> cfg.require_auth,
      strings |-> cfg.strings]
    BY <1>1 DEF Defaults
  <2>2. QED
    BY <1>2, <2>1, DefaultFits DEF Configs
<1>5. IntsFrom /\ KeyFrom /\ DemandFrom /\ Validated
  BY <1>1, <1>2, <1>3 DEF IntsFrom, KeyFrom, DemandFrom, Validated
<1>6. QED
  BY <1>1, <1>4, <1>5 DEF StartupInv

(* The file is read: what it says counts if an int can hold it, but the key *)
(* is not among what it may say.                                            *)
LEMMA LoadFileStep ==
  ASSUME StartupInv, LoadFile
  PROVE  StartupInv'
<1>1. at = "load" /\ at' = "env" /\ UNCHANGED <<file, toml, env>>
  BY DEF LoadFile
<1>2. /\ InputsOk /\ cfg \in Configs /\ cfg.ints = Default /\ cfg.require_auth = FALSE
      /\ cfg.strings["api_key"] = "bad"
  BY <1>1 DEF StartupInv, IntsFrom, KeyFrom, DemandFrom
<1>3. /\ toml.ints \in [Ints -> TomlInts \cup {Absent}]
      /\ toml.strings \in [Strings -> {"good", "bad", Absent}]
      /\ toml.require_auth = TRUE \/ toml.require_auth = FALSE \/ toml.require_auth = Absent
  BY <1>2 DEF InputsOk, Sources
<1>4. CASE file = "good"
  <2>1. cfg' = FromFile
    BY <1>4 DEF LoadFile
  <2>2. ASSUME NEW s \in Ints
        PROVE  /\ cfg'.ints[s] = IF toml.ints[s] \in Fits THEN toml.ints[s] ELSE Default[s]
               /\ cfg'.ints[s] \in Fits
    BY <1>2, <2>1, NoInt, DefaultFits DEF FromFile, SafeNarrow
  <2>3. ASSUME NEW s \in Strings
        PROVE  cfg'.strings[s] \in {"good", "bad"}
    BY <1>2, <1>3, <2>1, Zenon DEF FromFile, Or, Configs
  <2>4. cfg'.strings["api_key"] = "bad"
    BY <1>2, <2>1, StartupAssumption DEF FromFile
  <2>5. cfg'.require_auth = Or(toml.require_auth, FALSE)
    BY <1>2, <2>1 DEF FromFile
  <2>6. /\ cfg'.require_auth \in BOOLEAN
        /\ cfg'.require_auth = TRUE <=> toml.require_auth = TRUE
    BY <1>3, <2>5, NoTruth, Zenon DEF Or
  <2>7. cfg' \in Configs
    <3>1. /\ cfg' = [ints |-> cfg'.ints, require_auth |-> cfg'.require_auth,
                     strings |-> cfg'.strings]
          /\ cfg'.ints = [s \in Ints |-> cfg'.ints[s]]
          /\ cfg'.strings = [s \in Strings |-> cfg'.strings[s]]
      BY <2>1 DEF FromFile
    <3>2. cfg'.ints \in [Ints -> Fits] /\ cfg'.strings \in [Strings -> {"good", "bad"}]
      BY <2>2, <2>3, <3>1
    <3>3. QED
      BY <2>6, <3>1, <3>2 DEF Configs
  <2>8. IntsFrom' /\ KeyFrom' /\ DemandFrom' /\ Validated'
    <3>1. IntsFrom'
      BY <1>1, <2>2 DEF IntsFrom
    <3>2. KeyFrom' /\ Validated'
      BY <1>1, <2>4 DEF KeyFrom, Validated
    <3>3. DemandFrom'
      BY <1>1, <2>6 DEF DemandFrom
    <3>4. QED
      BY <3>1, <3>2, <3>3
  <2>9. QED
    BY <1>1, <1>2, <2>7, <2>8 DEF StartupInv, InputsOk
<1>5. CASE file # "good"
  <2>1. cfg' = cfg
    BY <1>5 DEF LoadFile
  <2>2. \A s \in Ints : toml.ints[s] = Absent
    BY <1>2, <1>5 DEF InputsOk, Nothing
  <2>3. toml.require_auth # TRUE
    <3>1. toml.require_auth = Absent
      BY <1>2, <1>5 DEF InputsOk, Nothing
    <3>2. QED
      BY <3>1, NoTruth, Zenon
  <2>4. IntsFrom'
    BY <1>1, <1>2, <2>1, <2>2, NoInt DEF IntsFrom
  <2>5. KeyFrom' /\ Validated'
    BY <1>1, <1>2, <2>1 DEF KeyFrom, Validated
  <2>6. DemandFrom'
    BY <1>1, <1>2, <2>1, <2>3 DEF DemandFrom
  <2>7. QED
    BY <1>1, <1>2, <2>1, <2>4, <2>5, <2>6 DEF StartupInv, InputsOk
<1>6. QED
  BY <1>4, <1>5

(* The environment is applied: it counts where it gives a number. *)
LEMMA ApplyEnvStep ==
  ASSUME StartupInv, ApplyEnv
  PROVE  StartupInv'
<1>1. at = "env" /\ at' = "validate" /\ cfg' = FromEnv /\ UNCHANGED <<file, toml, env>>
  BY DEF ApplyEnv
<1>2. /\ InputsOk /\ cfg \in Configs /\ cfg.strings["api_key"] = "bad"
      /\ \A s \in Ints :
           cfg.ints[s] = IF toml.ints[s] \in Fits THEN toml.ints[s] ELSE Default[s]
  BY <1>1 DEF StartupInv, IntsFrom, KeyFrom
<1>3. cfg.require_auth = TRUE <=> toml.require_auth = TRUE
  BY <1>1 DEF StartupInv, DemandFrom
<1>4. /\ env.ints \in [Ints -> EnvInts \cup {Garbage, Absent}]
      /\ env.strings \in [Strings -> {"good", "bad", Absent}]
      /\ env.require_auth \in {"true", "other", Absent}
  BY <1>2 DEF InputsOk, Sources
<1>5. cfg.ints \in [Ints -> Fits] /\ cfg.strings \in [Strings -> {"good", "bad"}]
  BY <1>2 DEF Configs
<1>6. ASSUME NEW s \in Ints
      PROVE  /\ cfg'.ints[s] = IF env.ints[s] \in Fits THEN env.ints[s]
                               ELSE IF toml.ints[s] \in Fits THEN toml.ints[s] ELSE Default[s]
             /\ cfg'.ints[s] \in Fits
  <2>1. cfg'.ints[s] = IF env.ints[s] = Absent \/ env.ints[s] = Garbage THEN cfg.ints[s]
                       ELSE env.ints[s]
    BY <1>1 DEF FromEnv, SafeAtoi
  <2>2. env.ints[s] \in Fits <=> ~(env.ints[s] = Absent \/ env.ints[s] = Garbage)
    BY <1>4, NoInt
  <2>3. QED
    BY <1>2, <1>5, <2>1, <2>2
<1>7. ASSUME NEW s \in Strings
      PROVE  cfg'.strings[s] = Or(env.strings[s], cfg.strings[s])
  BY <1>1 DEF FromEnv
<1>8. ASSUME NEW s \in Strings
      PROVE  cfg'.strings[s] \in {"good", "bad"}
  BY <1>4, <1>5, <1>7, Zenon DEF Or
<1>9. cfg'.strings["api_key"] = "good" => env.strings["api_key"] = "good"
  <2>1. "api_key" \in Strings
    BY StartupAssumption, Zenon
  <2>2. QED
    BY <1>2, <1>7, <2>1 DEF Or
<1>10. cfg'.require_auth = IF env.require_auth = Absent THEN cfg.require_auth
                           ELSE env.require_auth = "true"
  BY <1>1 DEF FromEnv, ParseBool
<1>11. cfg.require_auth = TRUE \/ cfg.require_auth = FALSE
  BY <1>2 DEF Configs
<1>12. /\ cfg'.require_auth \in BOOLEAN
       /\ (cfg'.require_auth = TRUE <=>
             \/ env.require_auth = "true"
             \/ env.require_auth = Absent /\ toml.require_auth = TRUE)
  <2>1. CASE env.require_auth = Absent
    BY <1>3, <1>10, <1>11, <2>1, NoName, Zenon
  <2>2. CASE env.require_auth # Absent
    BY <1>10, <2>2, Zenon
  <2>3. QED
    BY <2>1, <2>2
<1>13. cfg' \in Configs
  <2>1. /\ cfg' = [ints |-> cfg'.ints, require_auth |-> cfg'.require_auth,
                   strings |-> cfg'.strings]
        /\ cfg'.ints = [s \in Ints |-> cfg'.ints[s]]
        /\ cfg'.strings = [s \in Strings |-> cfg'.strings[s]]
    BY <1>1 DEF FromEnv
  <2>2. cfg'.ints \in [Ints -> Fits] /\ cfg'.strings \in [Strings -> {"good", "bad"}]
    BY <1>6, <1>8, <2>1
  <2>3. QED
    BY <1>12, <2>1, <2>2 DEF Configs
<1>14. IntsFrom'
  BY <1>1, <1>6 DEF IntsFrom
<1>15. KeyFrom' /\ Validated'
  BY <1>1, <1>9 DEF KeyFrom, Validated
<1>16. DemandFrom'
  BY <1>1, <1>12 DEF DemandFrom
<1>17. QED
  BY <1>1, <1>2, <1>13, <1>14, <1>15, <1>16 DEF StartupInv, InputsOk

(* From validate() on nothing but the place changes. *)
LEMMA LaterStep ==
  ASSUME StartupInv, UNCHANGED <<file, toml, env, cfg>>, at \notin {"load", "env"},
         at' \in {"validate", "backend", "initialize", "serving", "refused"}, Validated'
  PROVE  StartupInv'
<1>1. InputsOk' /\ cfg' \in Configs /\ at' \notin {"load", "env"}
  BY DEF StartupInv, InputsOk
<1>2. IntsFrom'
  BY <1>1 DEF StartupInv, IntsFrom
<1>3. KeyFrom'
  BY <1>1 DEF StartupInv, KeyFrom
<1>4. DemandFrom'
  BY <1>1 DEF StartupInv, DemandFrom
<1>5. QED
  BY <1>1, <1>2, <1>3, <1>4 DEF StartupInv

(* Every step keeps the invariant. *)
LEMMA StartupNextInv == StartupInv /\ [StartupNext]_startupVars => StartupInv'
<1> SUFFICES ASSUME StartupInv, [StartupNext]_startupVars PROVE StartupInv'
  OBVIOUS
<1>1. CASE LoadFile
  BY <1>1, LoadFileStep
<1>2. CASE ApplyEnv
  BY <1>2, ApplyEnvStep
<1>3. CASE Validate
  <2>1. /\ at = "validate" /\ at' = IF Valid THEN "backend" ELSE "refused"
        /\ UNCHANGED <<file, toml, env, cfg>>
    BY <1>3 DEF Validate
  <2>2. Validated'
    BY <2>1 DEF Validated, Valid
  <2>3. QED
    BY <2>1, <2>2, LaterStep
<1>4. CASE BackendReady \/ BackendFails
  <2>1. /\ at = "backend" /\ at' \in {"initialize", "refused"}
        /\ UNCHANGED <<file, toml, env, cfg>>
    BY <1>4 DEF BackendReady, BackendFails
  <2>2. Validated'
    BY <2>1 DEF StartupInv, Validated
  <2>3. QED
    BY <2>1, <2>2, LaterStep
<1>5. CASE InitializeServer
  <2>1. /\ at = "initialize" /\ at' = IF PoolTakes THEN "serving" ELSE "threw"
        /\ UNCHANGED <<file, toml, env, cfg>>
    BY <1>5 DEF InitializeServer
  <2>2. PoolTakes
    BY <2>1, StartupAssumption DEF StartupInv, Validated, PoolTakes
  <2>3. Validated'
    BY <2>1 DEF StartupInv, Validated
  <2>4. QED
    BY <2>1, <2>2, <2>3, LaterStep
<1>6. CASE UNCHANGED startupVars
  BY <1>6 DEF startupVars, StartupInv, InputsOk, IntsFrom, KeyFrom, DemandFrom, Validated
<1>7. QED
  BY <1>1, <1>2, <1>3, <1>4, <1>5, <1>6 DEF StartupNext

(* The invariant holds. *)
LEMMA StartupInvHolds == StartupSpec => []StartupInv
BY StartupInitInv, StartupNextInv, PTL DEF StartupSpec

(* Every integer member of the ServerConfig is one an int can hold, and     *)
(* what validate() lets through the constructor of the pool accepts.        *)
THEOREM StartupTypeCorrect == StartupSpec => []StartupTypeOK
<1>1. StartupInv => StartupTypeOK
  BY DEF StartupInv, StartupTypeOK, InputsOk, Configs
<1>2. QED
  BY <1>1, StartupInvHolds, PTL

(* The environment goes before the file and the file before the defaults,   *)
(* where a source that gives nothing usable does not count.                 *)
THEOREM SourcesKeepPrecedence == StartupSpec => []Precedence
<1>1. StartupInv => Precedence
  BY StrongestOffer DEF StartupInv, IntsFrom, Precedence
<1>2. QED
  BY <1>1, StartupInvHolds, PTL

(* No server that demands a key serves with one from its config file. *)
THEOREM KeyNeverFromFile == StartupSpec => []KeyFromEnvironment
<1>1. StartupInv => KeyFromEnvironment
  <2> SUFFICES ASSUME StartupInv, at = "serving"
               PROVE  \/ env.strings["api_key"] = "good"
                      \/ env.require_auth = "other"
                      \/ env.require_auth = Absent /\ toml.require_auth \in {Absent, FALSE}
    BY DEF KeyFromEnvironment
  <2>1. /\ cfg.require_auth = TRUE => env.strings["api_key"] = "good"
        /\ cfg.require_auth = TRUE <=>
             \/ env.require_auth = "true"
             \/ env.require_auth = Absent /\ toml.require_auth = TRUE
    BY DEF StartupInv, KeyFrom, DemandFrom, Validated
  <2>2. /\ env.require_auth \in {"true", "other", Absent}
        /\ toml.require_auth = TRUE \/ toml.require_auth = FALSE \/ toml.require_auth = Absent
    BY DEF StartupInv, InputsOk, Sources
  <2>3. QED
    BY <2>1, <2>2, Zenon
<1>2. QED
  BY <1>1, StartupInvHolds, PTL

=============================================================================
