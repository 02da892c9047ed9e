---------------------------- MODULE LocalModels ----------------------------
(***************************************************************************)
(* The local models of the ai-service (services/model_manager.py): a       *)
(* background thread downloads and loads a chat model and an embedding     *)
(* model while the service answers already, and /health reports how far it *)
(* got.  The process may die at any moment; the files stay.                *)
(***************************************************************************)
EXTENDS Integers, FiniteSets

CONSTANTS Settings,    \* configurations: local_ai_enabled, auto_download_models
          MaxCrashes   \* bound: restarts of the service

ASSUME ModelsAssumption ==
  /\ Settings # {} /\ Settings \subseteq [enabled : BOOLEAN, download : BOOLEAN]
  /\ MaxCrashes \in Nat

Models == {"chat", "embed"}

\* The steps of prepare().
At(step, m) == <<step, m>>
Fresh == At("start", "both")
Over == At("over", "both")

VARIABLES settings, \* the configuration of the deployment
          dest,     \* model -> its file in models_dir: none, torn or whole
          part,     \* model -> the same of the .part file beside it
          prep,     \* where the thread that runs prepare() is
          status,   \* _state["status"]
          loaded,   \* the models that get_chat_model, get_embed_model return
          crashes

modelVars == <<settings, dest, part, prep, status, loaded, crashes>>

\* The module's state when the process starts.
FirstStatus == IF settings.enabled THEN "unloaded" ELSE "disabled"

ModelsInit ==
  /\ settings \in Settings
  /\ dest \in [Models -> {"none", "whole"}]
  /\ part = [m \in Models |-> "none"]
  /\ prep = Fresh /\ status = FirstStatus /\ loaded = {} /\ crashes = 0

----------------------------------------------------------------------------

Disabled ==
  /\ prep = Fresh /\ ~settings.enabled
  /\ status' = "disabled" /\ prep' = Over
  /\ UNCHANGED <<settings, dest, part, loaded, crashes>>

\* Under the lock: the first state that readers of /health can see.
Begin ==
  /\ prep = Fresh /\ settings.enabled
  /\ status' = "downloading" /\ prep' = At("file", "chat")
  /\ UNCHANGED <<settings, dest, part, loaded, crashes>>

\* _ensure_file: m's file exists.  Whatever exists is taken for whole.
\* Once both paths are known, loading begins unless one of them is None.
FileKnown(m, files) ==
  \/ /\ m = "chat"
     /\ prep' = At("file", "embed") /\ UNCHANGED status
  \/ /\ m = "embed" /\ \A n \in Models : files[n] # "none"
     /\ prep' = At("load", "chat") /\ status' = "loading"
  \/ /\ m = "embed" /\ \E n \in Models : files[n] = "none"
     /\ prep' = Over /\ status' = "error"

HaveFile(m) ==
  /\ prep = At("file", m) /\ dest[m] # "none"
  /\ FileKnown(m, dest)
  /\ UNCHANGED <<settings, dest, part, loaded, crashes>>

NoFile(m) ==
  /\ prep = At("file", m) /\ dest[m] = "none" /\ ~settings.download
  /\ FileKnown(m, dest)
  /\ UNCHANGED <<settings, dest, part, loaded, crashes>>

\* _download: bytes arrive in the .part file, overwriting what an earlier
\* attempt left, and it replaces the file when the last one is written.
Fetch_ToDest(m) ==
  /\ prep = At("file", m) /\ dest[m] = "none" /\ settings.download
  /\ prep' = At("fetch", m)
  /\ dest' = [dest EXCEPT ![m] = "torn"]
  /\ UNCHANGED <<settings, part, status, loaded, crashes>>
Fetch(m) ==
  /\ prep = At("file", m) /\ dest[m] = "none" /\ settings.download
  /\ prep' = At("fetch", m)
  /\ part' = [part EXCEPT ![m] = "torn"]
  /\ UNCHANGED <<settings, dest, status, loaded, crashes>>

Replace(m) ==
  /\ prep = At("fetch", m)
  /\ dest' = [dest EXCEPT ![m] = "whole"]
  /\ part' = [part EXCEPT ![m] = "none"]
  /\ FileKnown(m, dest')
  /\ UNCHANGED <<settings, loaded, crashes>>

\* Llama(model_path): the global is set, then the next one is loaded.
Load(m, state) ==
  /\ prep = At("load", m)
  /\ loaded' = loaded \cup {m}
  /\ prep' = IF m = "chat" THEN At("load", "embed") ELSE At("publish", "both")
  /\ status' = state
  /\ UNCHANGED <<settings, dest, part, crashes>>

LoadModel_ReadyEarly(m) == Load(m, "ready")
LoadModel(m) == Load(m, status)

Publish ==
  /\ prep = At("publish", "both")
  /\ status' = "ready" /\ prep' = Over
  /\ UNCHANGED <<settings, dest, part, loaded, crashes>>

\* An exception while a file is fetched or a model is loaded.  What was
\* loaded stays.
PrepareFails ==
  /\ prep \in {"fetch", "load"} \X Models
  /\ status' = "error" /\ prep' = Over
  /\ UNCHANGED <<settings, dest, part, loaded, crashes>>

Prepare ==
  \/ Disabled \/ Begin \/ Publish \/ PrepareFails
  \/ \E m \in Models : \/ HaveFile(m) \/ NoFile(m)
                       \/ Fetch(m) \/ Replace(m) \/ LoadModel(m)

\* The process dies and is started again: the files are what is left.
Restart ==
  /\ crashes < MaxCrashes /\ crashes' = crashes + 1
  /\ prep' = Fresh /\ status' = FirstStatus /\ loaded' = {}
  /\ UNCHANGED <<settings, dest, part>>

----------------------------------------------------------------------------

ModelsTypeOK ==
  /\ settings \in Settings
  /\ dest \in [Models -> {"none", "torn", "whole"}]
  /\ part \in [Models -> {"none", "torn"}]
  /\ prep \in {Fresh, At("publish", "both"), Over}
                \cup {"file", "fetch", "load"} \X Models
  /\ status \in {"disabled", "unloaded", "downloading", "loading", "ready",
                 "error"}
  /\ loaded \subseteq Models /\ crashes \in 0 .. MaxCrashes

\* An interrupted download is never mistaken for a complete model, however
\* often the service dies on the way (_download's .part file).
WholeModels == \A m \in loaded : dest[m] = "whole"

\* /health: "ready" promises both models, and every other final state means
\* that jobs run without the embedding model.
HealthTruthful ==
  /\ status = "ready" => loaded = Models
  /\ status \notin {"loading", "ready"} => "embed" \notin loaded
  /\ status \in {"disabled", "unloaded", "downloading"} => loaded = {}
============================================================================
