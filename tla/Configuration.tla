---- MODULE Configuration ----
(***************************************************************************)
(* How the configuration is put together (src/infrastructure/config): the  *)
(* defaults written in Config.js, those of the schema, a file, variables   *)
(* CONFIG_..., and the variables of older versions.                        *)
(*                                                                         *)
(* Values merge leaf by leaf, so each setting is followed by itself, and   *)
(* its value is the name of where it comes from.  Of the values only one   *)
(* thing matters: whether a secret is a development one.                   *)
(***************************************************************************)
EXTENDS Naturals

CONSTANTS
  Settings,      \* the leaves of the configuration
  Secrets,       \* of these, encryption.key and hmac.secret
  WithDefault,   \* the ones with a default in the schema
  Nameable,      \* the ones CONFIG_ variables can name: paths without capitals, and maps
  WithLegacy     \* the ones an older variable sets

ASSUME SettingsAssumption ==
  /\ Secrets \subseteq Settings /\ WithDefault \subseteq Settings
  /\ Nameable \subseteq Settings /\ WithLegacy \subseteq Settings
  /\ Secrets \intersect WithDefault = {}

Layers == {"unset", "builtin", "schema", "file", "env", "legacy"}
Unset == [s \in Settings |-> "unset"]

\* What a gateway starts from: whether the schema was found; which settings the file
\* (if it can be read), the CONFIG_ variables and the older variables give; and in which
\* of these the secrets are development ones.
Source == [production : BOOLEAN, schema : BOOLEAN, readable : BOOLEAN,
           file : SUBSET Settings, env : SUBSET Nameable, legacy : SUBSET WithLegacy,
           development : SUBSET {"file", "env"}]

\* FAULT (stands in for the next definition to show a property can fail): what is not
\* given is there, and undefined.
GivenUndefined(settings, layer) == [s \in Settings |-> IF s \in settings THEN layer ELSE "undefined"]

Given(settings, layer) == [s \in Settings |-> IF s \in settings THEN layer ELSE "unset"]

\* FAULT (stands in for the next definition to show a property can fail): the target
\* wins.
mergeConfigsReversed(target, over) ==
  [s \in Settings |-> IF target[s] = "unset" THEN over[s] ELSE target[s]]

mergeConfigs(target, over) ==
  [s \in Settings |-> IF over[s] = "unset" THEN target[s] ELSE over[s]]

applyDefaults(source, config) ==
  [s \in Settings |-> IF config[s] = "unset" /\ source.schema /\ s \in WithDefault
                        THEN "schema" ELSE config[s]]

\* The validation that can fail: in production each secret must be there, and not one
\* for development.  Whatever else is wrong is only logged.
Critical(source, config) ==
  source.production /\ \E s \in Secrets : config[s] \in {"unset"} \union source.development

\* loadFromFile: a file that cannot be read, or lacks a secret in production, is
\* ignored, with a warning.
loadFromFile(source) ==
  LET config == applyDefaults(source, Given(source.file, "file"))
  IN IF source.readable /\ ~Critical(source, config) THEN config ELSE Unset

\* loadFromEnv: the defaults of the schema are applied to the variables alone.
loadFromEnv(source) == applyDefaults(source, Given(source.env, "env"))

load(source) ==
  applyDefaults(source, mergeConfigs(loadFromFile(source), loadFromEnv(source)))

\* loadFromEnv and load throw.
LoadFails(source) ==
  Critical(source, loadFromEnv(source)) \/ Critical(source, load(source))

\* Each older variable that is there sets its setting.
applyLegacyEnvironmentOverrides(source, config) ==
  [s \in Settings |-> IF s \in source.legacy THEN "legacy" ELSE config[s]]

\* The constructor of Config: its own defaults, the data, then the older variables.
mergeValues(values, data) == mergeConfigs(values, data)
Config(source, data) ==
  applyLegacyEnvironmentOverrides(source, mergeValues([s \in Settings |-> "builtin"], data))

\* setupConfig: when loading throws, a configuration of the older variables alone, with
\* a warning; a configuration that is not valid is used, with a warning.
setupConfig(source) == Config(source, IF LoadFails(source) THEN Unset ELSE load(source))

====
