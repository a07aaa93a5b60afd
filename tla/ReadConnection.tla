-------------------------- MODULE ReadConnection --------------------------
(***************************************************************************)
(* What the rest of the backend may rely on about a customer's read        *)
(* connection, whatever tests and reads are under way on it: discovery is  *)
(* enabled only by a request that looked at the revision it enables, and   *)
(* every material change and every Disable switches it off.  JdeConnection *)
(* implements it; WriteSettings is built on it.                            *)
(***************************************************************************)
EXTENDS ConnectionSettings

VARIABLES
    config,     \* the saved settings
    looked,     \* a request to enable saw this revision free of blockers
    enabled,    \* enabled for these settings and this password
    disabled    \* by Disable, until a connection test succeeds

connection == <<config, looked, enabled, disabled>>

ConnectionInit ==
    /\ config = NoConfig
    /\ looked = FALSE /\ enabled = FALSE /\ disabled = FALSE

Configured == config # NoConfig

DiscoveryActive == enabled /\ ~disabled

\* save; only the contact names may change without switching discovery off
SaveProfile(new) ==
    /\ config' = new
    /\ looked' = FALSE
    /\ enabled' \in {enabled, FALSE}
    /\ new # config => ~enabled'
    /\ UNCHANGED disabled

\* save_credential
SavePassword ==
    /\ Configured
    /\ looked' = FALSE /\ enabled' = FALSE
    /\ UNCHANGED <<config, disabled>>

Look == Configured /\ looked' = TRUE /\ UNCHANGED <<config, enabled, disabled>>
Forget == looked' = FALSE /\ UNCHANGED <<config, enabled, disabled>>

EnableDiscovery ==
    /\ looked
    /\ enabled' = TRUE
    /\ looked' \in BOOLEAN
    /\ UNCHANGED <<config, disabled>>

DisableDiscovery ==
    /\ Configured
    /\ enabled' = FALSE /\ disabled' = TRUE
    /\ UNCHANGED <<config, looked>>

Retested == disabled' = FALSE /\ UNCHANGED <<config, looked, enabled>>

ConnectionNext ==
    \/ \E new \in Config : SaveProfile(new)
    \/ SavePassword
    \/ Look \/ Forget \/ EnableDiscovery \/ DisableDiscovery \/ Retested

ConnectionSpec == ConnectionInit /\ [][ConnectionNext]_connection
=============================================================================
