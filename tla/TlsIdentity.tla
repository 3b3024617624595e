---------------------------- MODULE TlsIdentity ----------------------------
(* tlsid.LoadOrCreate: the key that phones pin and the certificate issued   *)
(* for it, read from the state folder or made, with the two files written   *)
(* one after the other and every point between them a place to fail or die. *)
EXTENDS StateDir

VARIABLES
  hand,     \* the key an agent has read or generated, or None
  cert,     \* the certificate LoadOrCreate returned, or None
  drawn,    \* the keys that were ever generated
  issued,   \* how many certificates were ever issued
  aged      \* how many of them are closer to expiry than renewBefore

identityVars == <<hand, cert, drawn, issued, aged>>

Writing == {"writeKey", "writeCrt"}
Syncing == {"syncKey", "syncCrt"}

\* Both files are read, and what they hold decides what is written. The lock
\* holder alone writes them, so the two reads are one step.
NoIdentity(p) ==
  /\ key = None /\ crt = None
  /\ \E k \in Keys \ drawn : hand' = [hand EXCEPT ![p] = k] /\ drawn' = drawn \cup {k}
  /\ cert' = cert
  /\ Go(p, "writeKey")

\* Variant: a renewal draws a new key as well.
KeepsKeyRenewed(p) ==
  /\ key # None
  /\ crt # None => crt.key = key /\ crt.no <= aged
  /\ \E k \in Keys \ drawn : hand' = [hand EXCEPT ![p] = k] /\ drawn' = drawn \cup {k}
  /\ Go(p, "writeKey")
  /\ UNCHANGED cert

\* No certificate, or one close to expiry: another is issued around the key.
KeepsKey(p) ==
  /\ key # None
  /\ crt # None => crt.key = key /\ crt.no <= aged
  /\ hand' = [hand EXCEPT ![p] = key]
  /\ Go(p, "writeCrt")
  /\ UNCHANGED <<cert, drawn>>

KeepsBoth(p) ==
  /\ key # None /\ crt # None
  /\ crt.key = key /\ crt.no > aged
  /\ hand' = [hand EXCEPT ![p] = key]
  /\ cert' = [cert EXCEPT ![p] = crt]
  /\ Go(p, "tcp")
  /\ UNCHANGED drawn

\* A certificate without a key, or for another key, is an error.
DoNotMatch(p) ==
  /\ crt # None /\ crt.key # key
  /\ Go(p, "closeSock")
  /\ UNCHANGED <<hand, cert, drawn>>

ReadIdentity(p) ==
  /\ At(p, "readId")
  /\ NoIdentity(p) \/ KeepsKey(p) \/ KeepsBoth(p) \/ DoNotMatch(p)
  /\ UNCHANGED <<saw, folderVars, fileVars, issued, aged>>

WriteKey(p) ==
  /\ At(p, "writeKey")
  /\ RenameKey(hand[p])
  /\ Go(p, "syncKey")
  /\ UNCHANGED <<saw, folderVars, lockFile, sock, crtVars, list, identityVars>>

SyncKey(p) ==
  /\ At(p, "syncKey")
  /\ SyncDir
  /\ Go(p, "writeCrt")
  /\ UNCHANGED <<saw, folderVars, lockFile, sock, key, crt, list, identityVars>>

\* issue: the certificate returned is the one that is written.
WriteCrt(p) ==
  /\ At(p, "writeCrt")
  /\ issued < MaxCerts
  /\ issued' = issued + 1
  /\ LET c == [key |-> hand[p], no |-> issued']
     IN  RenameCrt(c) /\ cert' = [cert EXCEPT ![p] = c]
  /\ Go(p, "syncCrt")
  /\ UNCHANGED <<saw, folderVars, lockFile, sock, keyVars, list, hand, drawn, aged>>

SyncCrt(p) ==
  /\ At(p, "syncCrt")
  /\ SyncDir
  /\ Go(p, "tcp")
  /\ UNCHANGED <<saw, folderVars, lockFile, sock, key, crt, list, identityVars>>

\* Variant: a certificate that cannot be stored is served all the same.
IdentityFailsServed(p) ==
  /\ At(p, "writeCrt")
  /\ issued < MaxCerts
  /\ issued' = issued + 1
  /\ cert' = [cert EXCEPT ![p] = [key |-> hand[p], no |-> issued']]
  /\ Go(p, "tcp")
  /\ UNCHANGED <<saw, folderVars, fileVars, hand, drawn, aged>>

\* A read, a write or a sync fails and serve returns. A file that was not
\* renamed is removed if that works; one that was stays, durable or not.
IdentityFails(p) ==
  /\ pc[p] \in {"readId"} \cup Writing \cup Syncing
  /\ scrap' \in IF pc[p] \in Writing THEN {scrap, TRUE} ELSE {scrap}
  /\ torn' = (torn \/ At(p, "syncKey"))
  /\ Go(p, "closeSock")
  /\ UNCHANGED <<saw, mode, strange, lockFile, sock, key, keyKept, crtVars, list, identityVars>>

LoadOrCreate(p) == \/ ReadIdentity(p) \/ WriteKey(p) \/ SyncKey(p)
                   \/ WriteCrt(p) \/ SyncCrt(p) \/ IdentityFails(p)

\* ServerConfig: the one certificate the agent presents. LocalClientConfig: the
\* one its health check trusts, whatever its dates say.
Presented(p) == cert[p]
TrustedLocally == crt

\* Time passes: the certificates issued so far come close to expiry.
Age ==
  /\ aged < issued
  /\ aged' = issued
  /\ UNCHANGED <<pc, saw, folderVars, fileVars, hand, cert, drawn, issued>>

=============================================================================
