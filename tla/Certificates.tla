----------------------------- MODULE Certificates -----------------------------
(***************************************************************************)
(* The TLS certificate that nginx serves.  An administrator activates one  *)
(* of the certificates of the database; the worker that handles the        *)
(* request writes its two files to a volume that nginx shares, and a       *)
(* script beside nginx reloads it when the certificate file has another    *)
(* time of modification, in whole seconds.  The start of the backend, and  *)
(* a button, write the files of the active certificate again.  Each        *)
(* `docker compose up` runs ssl_init, for which the backend does not wait: *)
(* it makes both files when it finds one missing.  A restored backup       *)
(* brings other rows and leaves the files.                                 *)
(***************************************************************************)
EXTENDS FiniteSets

CONSTANTS
  Certs,        \* rows there may be
  SelfSigned,   \* what init-ssl.sh makes
  Missing,      \* no file, no certificate
  Installs      \* activations and synchronisations that may be under way at a time

ASSUME CertificatesAssumption ==
  SelfSigned \notin Certs /\ Missing \notin Certs \cup {SelfSigned}

VARIABLES
  uploaded, active,   \* rows of ssl_certificates, and those with is_active
  deleting,           \* delete requests that have found their row inactive
  installs,           \* [stage, op, cert, others, alone]
  crt, key,           \* current.crt, current.key
  recent,             \* current.crt was written in the second that it is now
  init,               \* ssl_init: "idle", "making" both files, or "half" with the key made
  nginx,              \* "down", "started", "polling" or "reloading"
  loaded,             \* what nginx has loaded
  seen,               \* `last` of the watcher is the time of modification of current.crt
  seenNow,            \* `last` is the second that it is now
  spoilt              \* one of the exceptions of ActiveIsServed

certVars == <<uploaded, active, deleting, installs, crt, key, recent, init, nginx, loaded, seen,
              seenNow, spoilt>>
rowVars == <<uploaded, active, deleting>>
fileVars == <<crt, key, recent>>
nginxVars == <<nginx, loaded, seen, seenNow>>

\* others: the rows found active, which are to be made inactive.  alone: no install
\* that clashes has been under way at the same time.
NoInstall ==
  [stage |-> "idle", op |-> "sync", cert |-> Missing, others |-> {}, alone |-> TRUE]
InstallRecords ==
  [ stage : {"idle", "read", "flushed", "unlinked", "half", "written"}, op : {"activate", "sync"},
    cert : Certs \cup {Missing}, others : SUBSET Certs, alone : BOOLEAN ]

\* An empty volume, and a database that may be older than it.
CertInit ==
  /\ uploaded \in SUBSET Certs /\ deleting = {}
  /\ active = {} \/ \E c \in uploaded : active = {c}
  /\ installs = [i \in Installs |-> NoInstall]
  /\ crt = Missing /\ key = Missing /\ recent = FALSE /\ init = "idle"
  /\ nginx = "down" /\ loaded = Missing /\ seen = FALSE /\ seenNow = FALSE
  /\ spoilt = FALSE

-----------------------------------------------------------------------------
\* upload_pem, upload_jks
Upload(c) ==
  /\ c \notin uploaded
  /\ uploaded' = uploaded \cup {c}
  /\ UNCHANGED <<init, active, deleting, installs, fileVars, nginxVars, spoilt>>

BeginDelete(c) ==
  /\ c \in uploaded \ (active \cup deleting)
  /\ deleting' = deleting \cup {c}
  /\ UNCHANGED <<init, uploaded, active, installs, fileVars, nginxVars, spoilt>>

\* Rows that a transaction under way has updated.
Locked(i) ==
  IF installs[i].op = "activate" /\ installs[i].stage \notin {"idle", "read"}
  THEN installs[i].others \cup {installs[i].cert} ELSE {}

CommitDelete(c) ==
  /\ c \in deleting /\ \A i \in Installs : c \notin Locked(i)
  /\ deleting' = deleting \ {c}
  /\ uploaded' = uploaded \ {c} /\ active' = active \ {c}
  /\ UNCHANGED <<init, installs, fileVars, nginxVars, spoilt>>

\* Two synchronisations, as when both workers start, write the same.
BeginInstall(i, install) ==
  LET Clashes(j) == installs[j].stage # "idle" /\ "activate" \in {install.op, installs[j].op} IN
  /\ installs[i].stage = "idle"
  /\ installs' = [j \in Installs |->
       IF j = i THEN [install EXCEPT !.alone = \A k \in Installs : ~Clashes(k)]
       ELSE [installs[j] EXCEPT !.alone = @ /\ ~Clashes(j)]]
  /\ UNCHANGED <<init, rowVars, fileVars, nginxVars, spoilt>>

\* activate_certificate
BeginActivate(i, c) ==
  /\ c \in uploaded
  /\ BeginInstall(i, [NoInstall EXCEPT !.stage = "read", !.op = "activate", !.cert = c, !.others = active])

\* sync_active_certificate: more than one active row is an error.
BeginSync(i) ==
  \E c \in active :
    active = {c} /\ BeginInstall(i, [NoInstall EXCEPT !.stage = "flushed", !.cert = c])

AtStage(i, stage, next) ==
  installs[i].stage = stage /\ installs' = [installs EXCEPT ![i].stage = next]

\* Mutant of Flush: nobody minds that a row to be updated has been deleted.
FlushUnchecked(i) ==
  /\ AtStage(i, "read", "flushed")
  /\ \A j \in Installs \ {i} :
       Locked(j) \cap (installs[i].others \cup {installs[i].cert}) = {}
  /\ UNCHANGED <<init, rowVars, fileVars, nginxVars, spoilt>>

Flush(i) ==
  /\ AtStage(i, "read", "flushed")
  /\ installs[i].others \cup {installs[i].cert} \subseteq uploaded
  /\ \A j \in Installs \ {i} :
       Locked(j) \cap (installs[i].others \cup {installs[i].cert}) = {}
  /\ UNCHANGED <<init, rowVars, fileVars, nginxVars, spoilt>>

-----------------------------------------------------------------------------
\* _write_cert_files
Unlink(i) ==
  /\ AtStage(i, "flushed", "unlinked")
  /\ crt' = Missing /\ key' = Missing
  /\ UNCHANGED <<init, rowVars, recent, nginxVars, spoilt>>

ToInstall(i) == installs[i].cert

\* The watcher will not notice a file that is written in the second it has seen already.
WriteCrt(i) ==
  /\ AtStage(i, "unlinked", "half")
  /\ crt' = ToInstall(i) /\ recent' = TRUE /\ seen' = seenNow
  /\ spoilt' = (~installs[i].alone \/ seenNow)
  /\ UNCHANGED <<init, rowVars, key, nginx, loaded, seenNow>>

WriteKey(i) ==
  /\ AtStage(i, "half", "written")
  /\ key' = ToInstall(i)
  /\ UNCHANGED <<init, rowVars, crt, recent, nginxVars, spoilt>>

CommitInstall(i) ==
  /\ installs[i].stage = "written"
  /\ active' = IF installs[i].op = "sync" THEN active
               ELSE (active \ installs[i].others) \cup {installs[i].cert}
  /\ installs' = [installs EXCEPT ![i] = NoInstall]
  /\ UNCHANGED <<init, uploaded, deleting, fileVars, nginxVars, spoilt>>

\* The request fails, as when ssl_init has made a file meanwhile, which is root's, or its
\* worker dies; what has been done to the files stays.
FailInstall(i) ==
  /\ installs[i].stage # "idle"
  /\ spoilt' = (spoilt \/ installs[i].stage \notin {"read", "flushed"})
  /\ installs' = [installs EXCEPT ![i] = NoInstall]
  /\ UNCHANGED <<init, rowVars, fileVars, nginxVars>>

-----------------------------------------------------------------------------
SecondPasses ==
  /\ recent \/ seenNow
  /\ recent' = FALSE /\ seenNow' = FALSE
  /\ UNCHANGED <<init, rowVars, installs, crt, key, nginx, loaded, seen, spoilt>>

Loadable == crt # Missing /\ crt = key

\* The container starts, and nginx with it if the files can be loaded.
StartNginx ==
  /\ nginx = "down" /\ Loadable
  /\ nginx' = "started" /\ loaded' = crt
  /\ UNCHANGED <<init, rowVars, installs, fileVars, seen, seenNow, spoilt>>

StopNginx ==
  /\ nginx # "down"
  /\ nginx' = "down" /\ loaded' = Missing /\ seen' = FALSE /\ seenNow' = FALSE
  /\ UNCHANGED <<init, rowVars, installs, fileVars, spoilt>>

\* reload-watcher.sh looks at the file, if it is there.
Looks == crt # Missing /\ seen' = TRUE /\ seenNow' = recent

\* It starts when nginx has written its pid: what happened to the file after nginx loaded
\* it is not noticed.
StartWatcher ==
  /\ nginx = "started" /\ nginx' = "polling"
  /\ Looks \/ (crt = Missing /\ UNCHANGED <<seen, seenNow>>)
  /\ spoilt' = (spoilt \/ crt \notin {loaded, Missing})
  /\ UNCHANGED <<init, rowVars, installs, fileVars, loaded>>

\* Mutant of Poll: a reload that could only fail is not tried.
PollCautiously ==
  /\ nginx = "polling" /\ ~seen
  /\ Looks /\ nginx' = IF Loadable THEN "reloading" ELSE "polling"
  /\ UNCHANGED <<init, rowVars, installs, fileVars, loaded, spoilt>>

Poll ==
  /\ nginx = "polling" /\ ~seen
  /\ Looks /\ nginx' = "reloading"
  /\ UNCHANGED <<init, rowVars, installs, fileVars, loaded, spoilt>>

\* A reload that finds no certificate with its key keeps what nginx has; it is not repeated.
Reload ==
  /\ nginx = "reloading" /\ nginx' = "polling"
  /\ IF Loadable
     THEN loaded' = crt /\ UNCHANGED spoilt
     ELSE spoilt' = TRUE /\ UNCHANGED loaded
  /\ UNCHANGED <<init, rowVars, installs, fileVars, seen, seenNow>>

-----------------------------------------------------------------------------
\* init-ssl.sh
InitCheck ==
  /\ init = "idle" /\ init' = "making"
  /\ crt = Missing \/ key = Missing
  /\ UNCHANGED <<rowVars, installs, fileVars, nginxVars, spoilt>>

InitWriteKey ==
  /\ init = "making" /\ init' = "half"
  /\ key' = SelfSigned
  /\ UNCHANGED <<rowVars, installs, crt, recent, nginxVars, spoilt>>

\* It does not look again whether the backend has written the file by now.
InitWriteCrt ==
  /\ init = "half" /\ init' = "idle"
  /\ crt' = SelfSigned /\ recent' = TRUE /\ seen' = seenNow
  /\ spoilt' = \/ spoilt \/ seenNow \/ active # {}
                \/ \E i \in Installs : installs[i].stage \in {"half", "written"}
  /\ UNCHANGED <<rowVars, installs, key, nginx, loaded, seenNow>>

InitDies ==
  /\ init # "idle" /\ init' = "idle"
  /\ UNCHANGED <<rowVars, installs, fileVars, nginxVars, spoilt>>

\* restore_backup: psql waits for the transactions that have used the table.
RestoreDatabase(rows, on) ==
  /\ deleting = {} /\ \A i \in Installs : installs[i].stage = "idle"
  /\ uploaded' = rows /\ active' = on
  /\ spoilt' = (spoilt \/ ~(on \subseteq active))
  /\ UNCHANGED <<init, deleting, installs, fileVars, nginxVars>>

CertNext ==
  \/ \E c \in Certs : Upload(c) \/ BeginDelete(c) \/ CommitDelete(c)
  \/ \E i \in Installs :
       \/ BeginSync(i) \/ Flush(i) \/ Unlink(i) \/ WriteCrt(i) \/ WriteKey(i)
       \/ CommitInstall(i) \/ FailInstall(i)
       \/ \E c \in Certs : BeginActivate(i, c)
  \/ SecondPasses \/ StartNginx \/ StopNginx \/ StartWatcher \/ Poll \/ Reload
  \/ InitCheck \/ InitWriteKey \/ InitWriteCrt \/ InitDies
  \/ \E rows \in SUBSET Certs : \E on \in SUBSET rows : RestoreDatabase(rows, on)

CertificatesSpec == CertInit /\ [][CertNext]_certVars

-----------------------------------------------------------------------------
CertificatesTypeOK ==
  /\ active \subseteq uploaded /\ uploaded \subseteq Certs /\ deleting \subseteq Certs
  /\ installs \in [Installs -> InstallRecords]
  /\ {crt, key, loaded} \subseteq Certs \cup {SelfSigned, Missing}
  /\ nginx \in {"down", "started", "polling", "reloading"} /\ init \in {"idle", "making", "half"}
  /\ {recent, seen, seenNow, spoilt} \subseteq BOOLEAN

\* Once the watcher has seen the file that is there, nginx serves the active certificate
\* ("Reload nginx whenever the active SSL certificate changes", reload-watcher.sh:2).  The
\* exceptions: two installs overlapped; one failed after it had begun with the files; a
\* reload fell between the certificate and its key; the certificate was written in the
\* second already seen; it changed while nginx started; ssl_init, which had found a file
\* missing, wrote its own while another was active or about to be; or a restored database
\* has another certificate active.
ActiveIsServed ==
  /\ nginx = "polling" /\ crt # Missing /\ seen
  /\ \A i \in Installs : installs[i].stage = "idle"
  /\ ~spoilt
  => \A c \in Certs : active = {c} => loaded = c
=============================================================================
