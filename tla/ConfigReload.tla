----------------------------- MODULE ConfigReload -----------------------------
(* internal/config/config.go: Load reads the file, starts a watcher and    *)
(* sets the global instance, and the watcher sets it anew when the file    *)
(* changes.  The file is edited at any time; viper and fsnotify are        *)
(* external.                                                               *)

CONSTANTS
  Good,           \* contents of the file that Unmarshal accepts
  IllTyped,       \* YAML that it rejects
  Garbled,        \* no YAML: ReadInConfig fails
  NoConfig        \* nothing read yet

ASSUME ConfigAssumption == {IllTyped, Garbled, NoConfig} \cap Good = {}

VARIABLES
  file,           \* what config/bridge.yaml says
  viper,          \* the contents viper has read last
  loader,         \* where Load is, and its cfg
  watcher,        \* what the watcher's goroutine is doing
  notice,         \* an event of fsnotify the watcher has not seen
  instance,       \* the global configuration, which Get returns
  settled         \* history: the last edit was made after Load had returned

configVars == <<file, viper, loader, watcher, notice, instance, settled>>

Nothing ==
  /\ viper = NoConfig /\ loader = [pc |-> "start", cfg |-> NoConfig]
  /\ watcher = "off" /\ notice = FALSE /\ instance = NoConfig /\ settled = FALSE

ConfigInit == file \in Good \cup {IllTyped, Garbled} /\ Nothing

(* The process ends; the file stays.                                       *)
ConfigLost ==
  /\ viper' = NoConfig /\ loader' = [pc |-> "start", cfg |-> NoConfig]
  /\ watcher' = "off" /\ notice' = FALSE /\ instance' = NoConfig /\ settled' = FALSE
  /\ UNCHANGED file

Loaded == loader.pc = "loaded"

Edit(contents) ==
  /\ contents # file
  /\ file' = contents
  /\ notice' = (notice \/ watcher # "off")
  /\ settled' = Loaded
  /\ UNCHANGED <<viper, loader, watcher, instance>>

-----------------------------------------------------------------------------
(* Load.                                                                   *)

ReadInConfig ==
  /\ loader.pc = "start" /\ file # Garbled
  /\ viper' = file /\ loader' = [loader EXCEPT !.pc = "read"]
  /\ UNCHANGED <<file, watcher, notice, instance, settled>>

Unmarshal ==
  /\ loader.pc = "read" /\ viper \in Good
  /\ loader' = [pc |-> "parsed", cfg |-> viper]
  /\ UNCHANGED <<file, viper, watcher, notice, instance, settled>>

LoadFails ==
  \/ loader.pc = "start" /\ file = Garbled
  \/ loader.pc = "read" /\ viper \notin Good

(* Edits before this one go unseen.                                        *)
WatchConfig ==
  /\ loader.pc = "parsed"
  /\ loader' = [loader EXCEPT !.pc = "watching"] /\ watcher' = "idle"
  /\ UNCHANGED <<file, viper, notice, instance, settled>>

(* The write without the lock, over whatever the watcher has set.          *)
SetInstance ==
  /\ loader.pc = "watching"
  /\ instance' = loader.cfg /\ loader' = [loader EXCEPT !.pc = "loaded"]
  /\ UNCHANGED <<file, viper, watcher, notice, settled>>

-----------------------------------------------------------------------------
(* The watcher: viper reads the file again, keeping what it has if that    *)
(* fails, and calls OnConfigChange's function.                             *)
Reread ==
  /\ watcher = "idle" /\ notice
  /\ viper' = IF file = Garbled THEN viper ELSE file
  /\ watcher' = "reread" /\ notice' = FALSE
  /\ UNCHANGED <<file, loader, instance, settled>>

(* MISTAKE: the error of Unmarshal is logged and no more.                  *)
OnConfigChangeUnchecked ==
  /\ watcher = "reread"
  /\ watcher' = "idle" /\ instance' = viper
  /\ UNCHANGED <<file, viper, loader, notice, settled>>

(* MISTAKE: a reload that fails is the watcher's last.                     *)
OnConfigChangeOnce ==
  /\ watcher = "reread"
  /\ watcher' = IF viper \in Good THEN "idle" ELSE "given up"
  /\ instance' = IF viper \in Good THEN viper ELSE instance
  /\ UNCHANGED <<file, viper, loader, notice, settled>>

OnConfigChange ==
  /\ watcher = "reread"
  /\ watcher' = "idle"
  /\ instance' = IF viper \in Good THEN viper ELSE instance
  /\ UNCHANGED <<file, viper, loader, notice, settled>>
=============================================================================
