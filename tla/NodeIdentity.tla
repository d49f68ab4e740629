---------------------------- MODULE NodeIdentity ----------------------------
(***************************************************************************)
(* NodeIdentity (identity.py): what a client process remembers about keys, *)
(* and the identity file it shares with the set-identity and reset-pgp     *)
(* commands (scripts.py).                                                  *)
(*                                                                         *)
(* IDENTITY_FILE is a dict in memory (JsonConfigXDG, external): store()    *)
(* writes all of it, reload() and a restart read all of it.  The commands  *)
(* are processes of their own, which read the file, set fields that are    *)
(* not modelled here (key, password, host, site) and write it back.        *)
(***************************************************************************)
CONSTANTS Hubs,        \* pin ids, host:port
          HubKeys,     \* static Noise keys of hubs
          Aliases,     \* names in trusted_keys
          PublicKeys,  \* RSA keys of peers
          None

ASSUME IdentityAssumption == None \notin HubKeys \cup PublicKeys

VARIABLES identity,  \* IDENTITY_FILE of the client process
          file,      \* the file behind it
          cli,       \* IDENTITY_FILE of a command that is running, or None
          erased     \* history: hubs whose pin a command wrote out of the file

identityVars == <<identity, file, cli, erased>>

Identities ==
  [pins: [Hubs -> HubKeys \cup {None}], trusted: [Aliases -> PublicKeys \cup {None}]]

Trusted == {identity.trusted[a] : a \in Aliases} \ {None}

IdentityInit ==
  /\ identity = [pins |-> [h \in Hubs |-> None], trusted |-> [a \in Aliases |-> None]]
  /\ file = identity
  /\ cli = None
  /\ erased = {}

\* Faulty variant: the pin is kept in memory.
PinUnsaved(h, k) ==
  /\ identity.pins[h] = None
  /\ identity' = [identity EXCEPT !.pins[h] = k]
  /\ UNCHANGED file

\* pin_noise_key, called with the key of a hub that has none: it saves, and with
\* the pin everything else that is in memory.
Pin(h, k) ==
  /\ identity.pins[h] = None
  /\ identity' = [identity EXCEPT !.pins[h] = k]
  /\ file' = identity'

\* add_trusted_key refuses an alias that exists, remove_trusted_key one that does
\* not; neither saves.
AddTrustedKey(a, k) ==
  /\ identity.trusted[a] = None
  /\ identity' = [identity EXCEPT !.trusted[a] = k]
  /\ UNCHANGED file

RemoveTrustedKey(a) ==
  /\ identity.trusted[a] # None
  /\ identity' = [identity EXCEPT !.trusted[a] = None]
  /\ UNCHANGED file

\* The setter of trusted_keys replaces the mapping, and does not save either.
SetTrustedKeys(keys) ==
  /\ identity' = [identity EXCEPT !.trusted = keys]
  /\ UNCHANGED file

Save == file' = identity /\ UNCHANGED identity
Reload == identity' = file /\ UNCHANGED file

\* set-identity and reset-pgp: NodeIdentity(), and later save().
CommandReads == cli = None /\ cli' = file /\ UNCHANGED <<identity, file, erased>>
CommandSaves ==
  /\ cli # None
  /\ file' = cli /\ cli' = None
  /\ erased' = erased \cup {h \in Hubs : file.pins[h] # None /\ cli.pins[h] = None}
  /\ UNCHANGED identity

\* What the client process does with its identity.
IdentityStep ==
  /\ \/ \E h \in Hubs, k \in HubKeys : Pin(h, k)
     \/ \E a \in Aliases, k \in PublicKeys : AddTrustedKey(a, k)
     \/ \E a \in Aliases : RemoveTrustedKey(a)
     \/ \E keys \in [Aliases -> PublicKeys \cup {None}] : SetTrustedKeys(keys)
     \/ Save
     \/ Reload
  /\ UNCHANGED <<cli, erased>>

-----------------------------------------------------------------------------
\* "On the first completed handshake the learned static key is pinned; on every
\* later handshake a mismatch is fatal" (identity.py, pinned_noise_keys): a
\* client that pinned a hub keeps the pin through every save, reload and restart,
\* unless a command that had read the file before wrote it back after the pin.
PinForgottenOnlyByCommand ==
  [][\A h \in Hubs :
       identity.pins[h] # None /\ identity'.pins[h] # identity.pins[h] => h \in erased
    ]_identityVars
=============================================================================
