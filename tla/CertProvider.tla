---------------------------- MODULE CertProvider ----------------------------
(***************************************************************************)
(* The TLS certificate provider of the server (server/https.go): the      *)
(* choice of a Manager in Start, and GetCertificate of that Manager during *)
(* the handshakes of concurrent clients.                                   *)
(*                                                                         *)
(* Start exits when a cert and key are configured and Auto is off, tests  *)
(* the files with testKey, and picks the external manager when they hold  *)
(* a certificate valid now, else the self-signed or the ACME manager by   *)
(* CertType.  The external and the self-signed managers cache the first   *)
(* certificate in v.cert with no lock: a handshake that finds the cache   *)
(* empty loads the files (or generates a certificate valid for 180 days)  *)
(* and stores it, and every later handshake gets the cached one.  The     *)
(* files on disk may be replaced while the server runs.  The ACME manager *)
(* (autocert) is a library that renews on its own; a handshake through it *)
(* is served a certificate valid now.                                      *)
(***************************************************************************)
EXTENDS Naturals

CONSTANTS
  Client,     \* clients handshaking concurrently
  CertLife,   \* the validity of a generated or renewed certificate, in ticks
  MaxTime,    \* ticks explored
  NoCert

(* A certificate is its validity window: NotBefore <= now < NotAfter.     *)
Cert == [nb : 0..MaxTime, na : 0..MaxTime + CertLife]
CertTypes == {"self-signed", "lets-encrypt", "auto", "other"}

ValidAt(c, tm) == c # NoCert /\ c.nb <= tm /\ tm < c.na

VARIABLES
  now,
  cfg,        \* [files: cert and key set, auto: Auto, type: CertType]
  disk,       \* the certificate in the configured files, or NoCert
  phase,      \* "init", "serving", "error" (Start returned it), "exit"
  mgr,        \* s.certManager: "none", "external", "selfsign", "acme"
  cache,      \* v.cert of the manager
  hs,         \* hs[c]: "idle", or "store" after the nil check and the load
  tmp,        \* tmp[c]: the certificate c loaded or generated
  served      \* served[c]: [cert, at] of c's last handshake; cert NoCert: failed

cvars == <<now, cfg, disk, phase, mgr, cache, hs, tmp, served>>

CertInit ==
  /\ now = 0
  /\ cfg \in [files : BOOLEAN, auto : BOOLEAN, type : CertTypes]
  /\ disk \in {NoCert} \cup {c \in Cert : c.na <= MaxTime}
  /\ phase = "init" /\ mgr = "none" /\ cache = NoCert
  /\ hs = [c \in Client |-> "idle"] /\ tmp = [c \in Client |-> NoCert]
  /\ served = [c \in Client |-> [cert |-> NoCert, at |-> 0]]

(* testKey: LoadX509KeyPair fails without the files, and a certificate    *)
(* outside its window fails; with Auto the failure is not an error.       *)
TestKeyOk == cfg.files /\ ValidAt(disk, now)
TestKeyErr == ~TestKeyOk /\ ~cfg.auto

(* Start, the HTTPS branch: the exit, testKey, then the switch.           *)
StartTLS ==
  /\ phase = "init"
  /\ CASE cfg.files /\ ~cfg.auto -> phase' = "exit" /\ UNCHANGED mgr
       [] TestKeyErr -> phase' = "error" /\ UNCHANGED mgr
       [] TestKeyOk -> phase' = "serving" /\ mgr' = "external"
       [] cfg.type = "self-signed" -> phase' = "serving" /\ mgr' = "selfsign"
       [] cfg.type \in {"lets-encrypt", "auto"} -> phase' = "serving" /\ mgr' = "acme"
       [] OTHER -> phase' = "error" /\ UNCHANGED mgr
  /\ UNCHANGED <<now, cfg, disk, cache, hs, tmp, served>>

(* c's handshake ends with certificate x (NoCert: an error).             *)
Serve(c, x) == served' = [served EXCEPT ![c] = [cert |-> x, at |-> now]]

(* The ACME manager: autocert.Manager.GetCertificate, renewing itself.   *)
HsAcme(c) ==
  /\ phase = "serving" /\ hs[c] = "idle" /\ mgr = "acme"
  /\ Serve(c, [nb |-> now, na |-> now + CertLife])
  /\ UNCHANGED <<now, cfg, disk, phase, mgr, cache, hs, tmp>>

(* GetCertificate of the external or the self-signed manager with v.cert *)
(* set: return v.cert.                                                     *)
HsCached(c) ==
  /\ phase = "serving" /\ hs[c] = "idle" /\ mgr \in {"external", "selfsign"}
  /\ cache # NoCert
  /\ Serve(c, cache)
  /\ UNCHANGED <<now, cfg, disk, phase, mgr, cache, hs, tmp>>

(* The external manager with v.cert nil: LoadX509KeyPair of the files,    *)
(* with no validity check; an error when they are gone.                  *)
HsLoad(c) ==
  /\ phase = "serving" /\ hs[c] = "idle" /\ mgr = "external"
  /\ cache = NoCert
  /\ IF disk = NoCert
       THEN Serve(c, NoCert) /\ UNCHANGED <<hs, tmp>>
       ELSE /\ hs' = [hs EXCEPT ![c] = "store"]
            /\ tmp' = [tmp EXCEPT ![c] = disk]
            /\ UNCHANGED served
  /\ UNCHANGED <<now, cfg, disk, phase, mgr, cache>>

(* The self-signed manager with v.cert nil: a new key and a certificate   *)
(* from now for 180 days.                                                   *)
HsGenerate(c) ==
  /\ phase = "serving" /\ hs[c] = "idle" /\ mgr = "selfsign"
  /\ cache = NoCert
  /\ hs' = [hs EXCEPT ![c] = "store"]
  /\ tmp' = [tmp EXCEPT ![c] = [nb |-> now, na |-> now + CertLife]]
  /\ UNCHANGED <<now, cfg, disk, phase, mgr, cache, served>>

(* v.cert = &cert; return &cert.                                           *)
HsStore(c) ==
  /\ hs[c] = "store"
  /\ cache' = tmp[c]
  /\ Serve(c, tmp[c])
  /\ hs' = [hs EXCEPT ![c] = "idle"]
  /\ tmp' = [tmp EXCEPT ![c] = NoCert]
  /\ UNCHANGED <<now, cfg, disk, phase, mgr>>

(* The files are replaced by a certificate valid from now (a renewal).   *)
RenewFiles ==
  /\ IF disk = NoCert THEN TRUE ELSE disk.na <= now + 1
  /\ disk' = [nb |-> now, na |-> now + CertLife]
  /\ UNCHANGED <<now, cfg, phase, mgr, cache, hs, tmp, served>>

Tick ==
  /\ now < MaxTime
  /\ now' = now + 1
  /\ UNCHANGED <<cfg, disk, phase, mgr, cache, hs, tmp, served>>

CertNext ==
  \/ StartTLS \/ RenewFiles \/ Tick
  \/ \E c \in Client :
       HsAcme(c) \/ HsCached(c) \/ HsLoad(c) \/ HsGenerate(c) \/ HsStore(c)

CertSpec == CertInit /\ [][CertNext]_cvars

-----------------------------------------------------------------------------
(* PROPERTIES *)

(* Every certificate a handshake is served is valid at the time it is     *)
(* served.  The cache of the external and the self-signed managers is    *)
(* never refreshed: after the cached certificate's NotAfter every        *)
(* handshake gets it expired, even when the files on disk were renewed.  *)
ServedCertValid ==
  \A c \in Client : served[c].cert # NoCert => ValidAt(served[c].cert, served[c].at)
=============================================================================
