------------------------------- MODULE Startup -------------------------------
(***************************************************************************)
(* The start of the operator process (main.go): Go runs init before main,  *)
(* main reads the configuration file, sets the controllers up and starts   *)
(* the manager, which waits for the informer of every watched kind.  A     *)
(* process that exits is started again by the cluster.                     *)
(***************************************************************************)
EXTENDS Naturals, FiniteSets

CONSTANTS
    ConfigFile,  \* the paths that are true in the file of --config; NoFile
    NoFile,      \* without --config
    ENABLE_WEBHOOKS, \* the environment variable
    MaxFaults    \* bound on calls that fail during the start

VARIABLES
    pc,          \* where the process is
    scheme,      \* kinds registered with the scheme
    EnableShower, \* ctrlConfig.Spec.EnableShower
    controllers, \* controllers (and the webhook) set up with the manager
    synced,      \* watched kinds whose informer has synced
    faults       \* failing calls left

vars == <<pc, scheme, EnableShower, controllers, synced, faults>>

Controllers == {"Meteor", "Shower", "CRE"}

\* The kinds the SetupWithManager methods name.
Watches(controller) ==
    CASE controller = "Meteor" -> {"Meteor", "PipelineRun"}
      [] controller = "CRE" -> {"CRE", "PipelineRun", "Meteor"}
      [] controller = "Shower" -> {"Shower", "Deployment", "Service", "Route",
                                   "ServiceAccount", "Role", "RoleBinding", "Meteor"}
      [] OTHER -> {}

Exit == pc' = "exited"

\* Package initialisation and init: at this time ctrlConfig is the zero value.
InitScheme ==
    /\ pc = "init" /\ pc' = "main"
    /\ EnableShower' = FALSE /\ controllers' = {} /\ synced' = {}
    /\ scheme' = {"Deployment", "Service", "ServiceAccount", "Role", "RoleBinding",
                  "Meteor", "Shower", "CRE", "PipelineRun", "ServiceMonitor"}
                 \cup (IF EnableShower' THEN {"Route"} ELSE {})
    /\ UNCHANGED faults

\* options.AndFrom; the field's key in the file is spec.enableComa, and keys
\* that no field has are ignored.
LoadConfig ==
    /\ pc = "main"
    /\ \/ /\ EnableShower' = (ConfigFile # NoFile /\ "spec.enableComa" \in ConfigFile)
          /\ pc' = "setup" /\ UNCHANGED faults
       \/ /\ ConfigFile # NoFile /\ faults > 0 /\ faults' = faults - 1
          /\ Exit /\ UNCHANGED EnableShower
    /\ UNCHANGED <<scheme, controllers, synced>>

\* NewManager, the SetupWithManager calls, the webhook and the health checks;
\* whichever fails ends the process.
Setup ==
    /\ pc = "setup"
    /\ \/ /\ controllers' = {"Meteor", "CRE"}
                            \cup (IF EnableShower THEN {"Shower"} ELSE {})
                            \cup (IF ENABLE_WEBHOOKS # "false" THEN {"Webhook"} ELSE {})
          /\ pc' = "started" /\ UNCHANGED faults
       \/ /\ faults > 0 /\ faults' = faults - 1
          /\ Exit /\ UNCHANGED controllers
    /\ UNCHANGED <<scheme, EnableShower, synced>>

Watched == UNION {Watches(c) : c \in controllers}

\* The manager starts an informer per kind; one of a kind that is not in the
\* scheme is tried again and again.
SyncInformer(kind) ==
    /\ pc = "started" /\ kind \in (Watched \cap scheme) \ synced
    /\ synced' = synced \cup {kind}
    /\ UNCHANGED <<pc, scheme, EnableShower, controllers, faults>>

\* An informer that has not synced in time (CacheSyncTimeout) ends mgr.Start.
CacheSyncTimeout ==
    /\ pc = "started" /\ (Watched \cap scheme) \subseteq synced
    /\ ~(Watched \subseteq synced)
    /\ Exit
    /\ UNCHANGED <<scheme, EnableShower, controllers, synced, faults>>

Restart ==
    /\ pc = "exited" /\ pc' = "init"
    /\ UNCHANGED <<scheme, EnableShower, controllers, synced, faults>>

Init ==
    /\ pc = "init" /\ scheme = {} /\ EnableShower = FALSE
    /\ controllers = {} /\ synced = {} /\ faults = MaxFaults

Next ==
    \/ InitScheme \/ LoadConfig \/ Setup \/ CacheSyncTimeout \/ Restart
    \/ \E kind \in UNION {Watches(c) : c \in Controllers} : SyncInformer(kind)

FairSpec == Init /\ [][Next]_vars /\ WF_vars(Next)

\* A controller reconciles once all its kinds have synced.
Reconciles(c) ==
    pc = "started" /\ c \in controllers /\ Watches(c) \subseteq synced

\* "EnableShower is the feature flar/config to enable Shower": where it is set
\* the Shower controller comes to reconcile.
EnablesShower == EnableShower ~> Reconciles("Shower")
=============================================================================
