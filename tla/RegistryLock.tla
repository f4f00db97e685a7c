---------------------------- MODULE RegistryLock ----------------------------
(***************************************************************************)
(* `jals.lock` over a sequence of commands (jals-classpath,                *)
(* `RegistryResolver`; jals-cli, `read_registry_lock`,                     *)
(* `apply_registry_lock`, `jals update`).                                  *)
(*                                                                         *)
(* A build resolves the selected dependencies for the classpath and, when  *)
(* optional or dev entries exist that the selection leaves out, resolves a *)
(* second time with every entry active for the lock.  Both start from the  *)
(* lock on disk.  Between commands releases appear and the manifest is     *)
(* edited.  The registry packages have no features of their own, so the    *)
(* only features are the manifest's optional entries.                      *)
(***************************************************************************)
EXTENDS Resolver

CONSTANTS
  Universes,    \* what the registry's versions declare: name -> version -> summary
  Manifests,    \* the dependency tables the user may write, as sequences
  MaxCommands   \* commands run

VARIABLES
  manifest,     \* the dependency table
  file,         \* jals.lock: name -> locked id, None where it has no entry
  command,      \* the running command, or Idle
  commands,     \* commands started
  selected,     \* the versions on the running build's classpath
  fresh,        \* file was written, or confirmed, for the current manifest
  outcome       \* of the last command: "none" | "ok" | "refused" | "failed"

lvars == <<manifest, file, command, commands, selected, fresh, outcome>>
vars == <<rvars, lvars>>

NoLock == [n \in Names |-> None]
Idle == [kind |-> "idle"]
Labels(ds) == {ds[i].name : i \in DOMAIN ds}

-----------------------------------------------------------------------------
(* Requests made of the resolver. *)

\* The root request of a pass: the selection, or everything forced active.
RootRequestSelected(selection, test, all) ==
  [name |-> "root", version |-> 1, defaults |-> FALSE, includeDev |-> test,
   features |-> {[kind |-> "feature", feature |-> l, label |-> ""] : l \in selection},
   summary |-> [dependencies |-> manifest, features |-> <<>>]]

RootRequest(selection, test, all) ==
  [name |-> "root", version |-> 1, defaults |-> FALSE, includeDev |-> all \/ test,
   features |-> IF all THEN {}
                ELSE {[kind |-> "feature", feature |-> l, label |-> ""] : l \in selection},
   summary |-> [dependencies |-> IF all
                  THEN [i \in DOMAIN manifest |-> [manifest[i] EXCEPT !.optional = FALSE]]
                  ELSE manifest,
                features |-> <<>>]]

\* The lock pass asks for more than the selection did.
NeedsFullPass(test) ==
  \E i \in DOMAIN manifest : manifest[i].optional \/ (manifest[i].dev /\ ~test)

\* The selection has an active registry entry.
HasActive(selection, test) ==
  \E i \in DOMAIN manifest :
    /\ ~manifest[i].dev \/ test
    /\ manifest[i].optional => manifest[i].name \in selection

\* The lock a command's passes prefer: the file, but for `jals update`.
PassLockForFile(kind, p) ==
  IF kind = "update" \/ (p = "selected" /\ \E i \in DOMAIN manifest : manifest[i].optional)
  THEN NoLock ELSE file
PassLock(kind, p) == IF kind = "update" THEN NoLock ELSE file

-----------------------------------------------------------------------------
(* Commands. *)

\* `jals build` (and run, test): the selected pass, against the lock on disk.
Build(selection, test, locked) ==
  /\ command = Idle
  /\ commands < MaxCommands
  /\ commands' = commands + 1
  /\ selected' = NoLock
  /\ IF HasActive(selection, test) \/ NeedsFullPass(test)
     THEN /\ command' = [kind |-> "build", pass |-> "selected", test |-> test,
                         selection |-> selection, locked |-> locked]
          /\ Resolve(<<RootRequest(selection, test, FALSE)>>, PassLock("build", "selected"))
          /\ UNCHANGED <<universe, published, manifest, file, fresh, outcome>>
     ELSE /\ outcome' = "ok"
          /\ UNCHANGED <<rvars, manifest, file, command, fresh>>

\* `jals update`: the same two passes, without lock preference.
Update ==
  /\ command = Idle
  /\ commands < MaxCommands
  /\ commands' = commands + 1
  /\ selected' = NoLock
  /\ command' = [kind |-> "update", pass |-> "selected", test |-> TRUE,
                 selection |-> {}, locked |-> FALSE]
  /\ Resolve(<<RootRequest({}, TRUE, FALSE)>>, PassLock("update", "selected"))
  /\ UNCHANGED <<universe, published, manifest, file, fresh, outcome>>

\* The selected graph is the classpath; a second pass follows if needed.
FullPass ==
  /\ command # Idle
  /\ phase = "done"
  /\ command.pass = "selected"
  /\ NeedsFullPass(command.test)
  /\ selected' = Lockfile
  /\ command' = [command EXCEPT !.pass = "full"]
  /\ Resolve(<<RootRequest(command.selection, command.test, TRUE)>>,
             PassLock(command.kind, "full"))
  /\ UNCHANGED <<universe, published, manifest, file, commands, fresh, outcome>>

\* The lock the command ends with is compared with the file.  An empty one is
\* no lock.  `--locked` refuses a change; otherwise the file is rewritten.
Finish ==
  /\ command # Idle
  /\ phase = "done"
  /\ command.pass = "full" \/ ~NeedsFullPass(command.test)
  /\ selected' = IF command.pass = "selected" THEN Lockfile ELSE selected
  /\ LET new == Lockfile
         refused == command.locked /\ new # NoLock /\ new # file
     IN /\ outcome' = IF refused THEN "refused" ELSE "ok"
        /\ file' = IF refused \/ new = NoLock THEN file ELSE new
        /\ fresh' = (fresh \/ (~refused /\ new # NoLock))
  /\ command' = Idle
  /\ UNCHANGED <<rvars, manifest, commands>>

\* A resolution failed: no lock, and the command reports the error.
Abort ==
  /\ command # Idle
  /\ phase = "failed"
  /\ command' = Idle
  /\ selected' = NoLock
  /\ outcome' = "failed"
  /\ UNCHANGED <<rvars, manifest, file, commands, fresh>>

Edit(m) ==
  /\ command = Idle
  /\ m # manifest
  /\ manifest' = m
  /\ fresh' = FALSE
  /\ UNCHANGED <<rvars, file, command, commands, selected, outcome>>

Init ==
  /\ universe \in Universes
  /\ published \in {[n \in Names |-> DOMAIN universe[n]],
                    [n \in Names |-> DOMAIN universe[n] \ {2}]}
  /\ roots = <<>>
  /\ lock = NoLock
  /\ pins = NoLock
  /\ round = 1
  /\ phase = "failed"
  /\ error = "none"
  /\ candidates = <<>>
  /\ summaries = {}
  /\ pass = EmptyPass
  /\ manifest \in Manifests
  /\ file = NoLock
  /\ command = Idle
  /\ commands = 0
  /\ selected = NoLock
  /\ fresh = FALSE
  /\ outcome = "none"

Next ==
  \/ command # Idle /\ ResolverStep /\ UNCHANGED lvars
  \/ command = Idle /\ commands < MaxCommands /\ Publish /\ UNCHANGED lvars
  \/ \E s \in SUBSET Labels(manifest), t, l \in BOOLEAN : Build(s, t, l)
  \/ Update
  \/ FullPass
  \/ Finish
  \/ Abort
  \/ \E m \in Manifests : commands < MaxCommands /\ Edit(m)

Spec == Init /\ [][Next]_vars

-----------------------------------------------------------------------------
(* Properties. *)

Updating == command # Idle /\ command.kind = "update"

\* Once the lock belongs to the manifest, neither a feature selection, nor a
\* scope, nor a newer release changes it, and no build of that manifest is
\* refused or fails but for the registry: only an edit or `jals update` moves
\* the file (`LockMode::Generate`, and the pins in `Resolver::resolve`).
LockStaysPut ==
  [][fresh /\ ~Updating =>
       /\ file' = file
       /\ command # Idle /\ command' = Idle =>
            outcome' = "ok" \/ error = "Provider"]_vars

\* A build that finds its lock and leaves it alone has exactly the locked
\* versions on its classpath.
ClasspathIsLocked ==
  [][(command # Idle /\ command' = Idle /\ command.kind = "build"
      /\ outcome' = "ok" /\ file' = file /\ file # NoLock)
     => \A n \in Names : selected'[n] # None => selected'[n] = file[n]]_vars

\* Every build that succeeds pins in the lock what it put on the classpath
\* (jals-build/README.md: "the selected jars are downloaded into the SHA-256
\* verified artifact cache, and the result is pinned in `jals.lock`").
ResultIsPinned ==
  [][(command # Idle /\ command' = Idle /\ command.kind = "build" /\ outcome' = "ok")
     => \A n \in Names : selected'[n] # None => selected'[n] = file'[n]]_vars

=============================================================================
