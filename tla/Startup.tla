------------------------------- MODULE Startup -------------------------------
(***************************************************************************)
(* main() up to the listener: ServerConfig::from_file_and_env, validate(),  *)
(* the backend and TtsServer::initialize().                                 *)
(*                                                                          *)
(* A string setting is reduced to whether validate() would take it ("good") *)
(* or not ("bad": empty, or not one of the names allowed).  The integer     *)
(* settings are the port, which has an upper bound, and the others, which   *)
(* must be at least 1.  Int has a width: what TOML holds may not fit.       *)
(***************************************************************************)
EXTENDS Integers, FiniteSetsExt

CONSTANTS
  Counts,      \* integer settings that must be at least 1
  PoolCounts,  \* those that InferencePool's constructor looks at again
  Strings,     \* string settings that validate() looks at
  IntMax,      \* INT_MAX
  PortMax,     \* 65535
  Default,     \* initial value of each integer member of ServerConfig
  TomlInts,    \* integers a TOML file may hold, of any size
  EnvInts,     \* integers that std::stoi accepts
  Absent,      \* not given; in TOML also: given with another type
  Garbage      \* a string that std::stoi refuses, or does not use up

Ints    == Counts \cup {"port"}
Fits    == -IntMax - 1 .. IntMax

ASSUME StartupAssumption ==
  /\ IntMax \in Nat /\ PortMax \in 1 .. IntMax
  /\ PoolCounts \subseteq Counts
  /\ "api_key" \in Strings
  /\ "port" \notin Counts
  /\ Default \in [Ints -> 1 .. IntMax] /\ Default["port"] <= PortMax
  /\ TomlInts \subseteq Int
  /\ EnvInts \subseteq Fits
  /\ Absent # Garbage
  /\ \A v \in {Absent, Garbage} :
       v \notin Int /\ v \notin {"good", "bad", "true", "other"} /\ v \notin BOOLEAN

VARIABLES
  at,     \* where main() is
  file,   \* the config file: missing, malformed or good
  toml,   \* what it says
  env,    \* what the environment says
  cfg     \* the ServerConfig

startupVars == <<at, file, toml, env, cfg>>

Sources(ints, bools, strings) ==
  [ints : [Ints -> ints \cup {Absent}], require_auth : bools \cup {Absent},
   strings : [Strings -> strings \cup {Absent}]]

Nothing == [ints |-> [s \in Ints |-> Absent], require_auth |-> Absent,
            strings |-> [s \in Strings |-> Absent]]

(* The member initializers of ServerConfig. *)
Defaults ==
  [ints |-> Default, require_auth |-> FALSE,
   strings |-> [s \in Strings |-> IF s \in {"model_path", "api_key"} THEN "bad"
                                  ELSE "good"]]

(* Every environment and every file that main() may find. *)
StartupInit ==
  /\ at = "load"
  /\ file \in {"missing", "malformed", "good"}
  /\ env \in Sources(EnvInts \cup {Garbage}, {"true", "other"}, {"good", "bad"})
  /\ toml \in Sources(TomlInts, BOOLEAN, {"good", "bad"})
  /\ file # "good" => toml = Nothing
  /\ cfg = Defaults

-----------------------------------------------------------------------------
(* A setting is assigned only if the source gives it. *)
Or(given, old) == IF given = Absent THEN old ELSE given

(* Variant: the value is taken as wide as the file gives it. *)
SafeNarrowWide(val, old) == val

SafeNarrow(val, old) == IF val \in Fits THEN val ELSE old

(* Variant: what cannot be parsed falls back to the built-in default. *)
SafeAtoiBuiltIn(s, str) == IF str = Garbage THEN Default[s] ELSE str

(* safe_atoi(v, cfg.<member>): the value read so far is what remains. *)
SafeAtoi(s, str) == IF str = Garbage THEN cfg.ints[s] ELSE str

(* "true" and "1" are true, any other string is false. *)
ParseBool(str) == str = "true"

(* Variant: the key may come from the file as well. *)
FromFileKeyToo ==
  [ints |-> [s \in Ints |-> IF toml.ints[s] = Absent THEN cfg.ints[s]
                            ELSE SafeNarrow(toml.ints[s], cfg.ints[s])],
   require_auth |-> Or(toml.require_auth, cfg.require_auth),
   strings |-> [s \in Strings |-> Or(toml.strings[s], cfg.strings[s])]]

(* api_key is not read from the file. *)
FromFile ==
  [ints |-> [s \in Ints |-> IF toml.ints[s] = Absent THEN cfg.ints[s]
                            ELSE SafeNarrow(toml.ints[s], cfg.ints[s])],
   require_auth |-> Or(toml.require_auth, cfg.require_auth),
   strings |-> [s \in Strings |-> IF s = "api_key" THEN cfg.strings[s]
                                  ELSE Or(toml.strings[s], cfg.strings[s])]]

(* apply_env_overrides *)
FromEnv ==
  [ints |-> [s \in Ints |-> IF env.ints[s] = Absent THEN cfg.ints[s]
                            ELSE SafeAtoi(s, env.ints[s])],
   require_auth |-> IF env.require_auth = Absent THEN cfg.require_auth
                    ELSE ParseBool(env.require_auth),
   strings |-> [s \in Strings |-> Or(env.strings[s], cfg.strings[s])]]

(* from_file_and_env, first half: a file that cannot be read as TOML is     *)
(* reported and skipped as a whole.                                         *)
LoadFile ==
  /\ at = "load"
  /\ cfg' = IF file = "good" THEN FromFile ELSE cfg
  /\ at' = "env"
  /\ UNCHANGED <<file, toml, env>>

ApplyEnv ==
  /\ at = "env"
  /\ cfg' = FromEnv
  /\ at' = "validate"
  /\ UNCHANGED <<file, toml, env>>

(* validate() returns. *)
Valid ==
  /\ cfg.ints["port"] \in 1 .. PortMax
  /\ \A s \in Counts : cfg.ints[s] >= 1
  /\ cfg.require_auth => cfg.strings["api_key"] = "good"
  /\ \A s \in Strings \ {"api_key"} : cfg.strings[s] = "good"

Validate ==
  /\ at = "validate"
  /\ at' = IF Valid THEN "backend" ELSE "refused"
  /\ UNCHANGED <<file, toml, env, cfg>>

(* VoxtralBackend::initialize: with or without the real engine it is ready  *)
(* once the model path has been found.                                      *)
BackendReady ==
  /\ at = "backend"
  /\ at' = "initialize"
  /\ UNCHANGED <<file, toml, env, cfg>>

BackendFails ==
  /\ at = "backend"
  /\ at' = "refused"
  /\ UNCHANGED <<file, toml, env, cfg>>

(* What InferencePool's constructor demands. *)
PoolTakes == \A s \in PoolCounts : cfg.ints[s] >= 1

(* TtsServer::initialize, after its constructor has set the limiters. *)
InitializeServer ==
  /\ at = "initialize"
  /\ at' = IF PoolTakes THEN "serving" ELSE "threw"
  /\ UNCHANGED <<file, toml, env, cfg>>

StartupNext ==
  LoadFile \/ ApplyEnv \/ Validate \/ BackendReady \/ BackendFails \/ InitializeServer

StartupSpec == StartupInit /\ [][StartupNext]_startupVars

-----------------------------------------------------------------------------
(* The values the variables range over; every integer member of the         *)
(* ServerConfig is one that an int can hold.  What validate() accepts,      *)
(* InferencePool's constructor accepts: initialization never throws.        *)
StartupTypeOK ==
  /\ at \in {"load", "env", "validate", "backend", "initialize", "serving",
             "refused"}
  /\ file \in {"missing", "malformed", "good"}
  /\ toml \in Sources(TomlInts, BOOLEAN, {"good", "bad"})
  /\ env \in Sources(EnvInts \cup {Garbage}, {"true", "other"}, {"good", "bad"})
  /\ cfg \in [ints : [Ints -> Fits], require_auth : BOOLEAN,
              strings : [Strings -> {"good", "bad"}]]

(* What the sources offer for an integer setting, the weakest first, and    *)
(* the strongest offer an int can hold.                                     *)
Offers(s) == <<Default[s], toml.ints[s], env.ints[s]>>

Strongest(s) == Offers(s)[Max({i \in 1 .. 3 : Offers(s)[i] \in Fits})]

(* Environment over file over default ("Environment variables (TTS_* prefix) *)
(* take precedence over file values", config.hpp), where a source counts     *)
(* only if it gives a number that an int can hold: an unusable environment   *)
(* variable leaves the value of the file in force, an unusable value of the  *)
(* file the default.                                                         *)
Precedence ==
  at \notin {"load", "env"} => \A s \in Ints : cfg.ints[s] = Strongest(s)

(* A server that asks for authentication has got its key from the           *)
(* environment: "api_key is intentionally NOT loaded from TOML".            *)
KeyFromEnvironment ==
  at = "serving" =>
    \/ env.strings["api_key"] = "good"
    \/ env.require_auth = "other"
    \/ env.require_auth = Absent /\ toml.require_auth \in {Absent, FALSE}

=============================================================================
