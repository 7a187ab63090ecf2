------------------------------ MODULE Controller ------------------------------
(***************************************************************************)
(* Controllers of native code (fde/control, fde/tools): Python objects     *)
(* that load a library, have it initialized, and connect their methods to  *)
(* its hooks.  Two libraries matter besides: the libfde that the native    *)
(* code is linked with ("native"), and another copy of libfde that the     *)
(* search path or the environment variable LIBFDE leads to ("other").      *)
(* Python's own binding (fde.core) has to end up with the first one.       *)
(* The native libraries themselves can be loaded, and all share one libfde.*)
(***************************************************************************)
EXTENDS Naturals

CONSTANTS
  Controllers,   \* places for controller objects; a class and a library for each
  Reporting,     \* those whose library reports which libfde it loaded
  Hookables,     \* those that are Hookable
  Copies,        \* places that may also get a copy of another controller
  NoObject

\* A controller of a class: which copy it is (0 for the original), the ids its cached
\* property about speaks of, and how many copies were made of it.
Object == [class : Controllers, id : Nat, about : SUBSET Nat, clones : Nat]

ASSUME ControllersAssumption ==
  /\ Reporting \subseteq Controllers /\ Hookables \subseteq Controllers
  /\ Copies \subseteq Controllers
  /\ NoObject \notin Object

VARIABLES
  object,     \* the controller objects
  nativeUp,   \* a native library is loaded, and its libfde with it
  corePath,   \* core_loader._opt["filePath"]
  coreHdl,    \* core_loader._hdl; "none" is what a failed attempt leaves
  core        \* the module fde.core has been imported

controllerVars == <<object, nativeUp, corePath, coreHdl, core>>

Libs == {"native", "other"}

ControllerInit ==
  /\ object = [c \in Controllers |-> NoObject]
  /\ nativeUp = FALSE
  /\ corePath = "unset" /\ coreHdl = "unset"
  /\ core = FALSE

\* LibLoader.handle without a path: by the environment, by matching libraries that
\* are loaded (if psutil is installed), or along the search path.
Searched(up) == {"none", "other"} \cup {l \in {"native"} : up}

\* LibLoader.handle with a path, or with r as the result of the search.
Handle(path, r) ==
  IF coreHdl # "unset" THEN coreHdl ELSE IF path # "unset" THEN path ELSE r

\* The import asks for the handle.  It fails at the first attempt to load libfde, but
\* no more at the next ones: by then the handle is None, and all types are empty.
ImportFails(hdl) == coreHdl = "unset" /\ hdl = "none"

\* The program imports fde.core itself.
ImportCore ==
  /\ ~core
  /\ \E r \in Searched(nativeUp) :
       /\ coreHdl' = Handle(corePath, r)
       /\ core' = ~ImportFails(Handle(corePath, r))
  /\ UNCHANGED <<object, nativeUp, corePath>>

\* core_loader.set, in FDEController.initialize.
ReportedPath(k) == IF k \in Reporting THEN "native" ELSE corePath

\* Mutant: the scope of hooks is asked for before the library is initialized.
PathForHooksEarly(k) == corePath

\* The path that is known when Hookable.initialize asks for the scope of hooks,
\* after FDEController.initialize.
PathForHooks(k) == ReportedPath(k)

\* cached_property about: evaluated once for each _stock.
WithAbout(o) == [o EXCEPT !.about = IF @ = {} THEN {o.id} ELSE @]

\* initialize of o, which is in place c from then on.  The name of its scope is formatted
\* with what it is about.  A Hookable does not come into being if it gets no scope of hooks.
Initialized(c, o, others) ==
  /\ nativeUp' = TRUE
  /\ corePath' = ReportedPath(o.class)
  /\ IF o.class \in Hookables
     THEN \E r \in Searched(TRUE) :
            LET hdl == Handle(PathForHooks(o.class), r) IN
            /\ coreHdl' = hdl
            /\ core' = (core \/ ~ImportFails(hdl))
            /\ object' = IF hdl \in Libs THEN [others EXCEPT ![c] = WithAbout(o)] ELSE others
     ELSE /\ object' = [others EXCEPT ![c] = WithAbout(o)]
          /\ UNCHANGED <<coreHdl, core>>

Create(c) ==
  /\ object[c] = NoObject
  /\ Initialized(c, [class |-> c, id |-> 0, about |-> {}, clones |-> 0], object)

\* __getstate__: the copy is counted, and gets an empty cache (_stock).
Copied(o) == [o EXCEPT !.id = o.clones + 1, !.about = {}, !.clones = 0]

\* __setstate__ of the copy k initializes it.
Copy(c, k) ==
  /\ object[c] # NoObject /\ object[k] = NoObject /\ k \in Copies
  /\ Initialized(k, Copied(object[c]), [object EXCEPT ![c].clones = @ + 1])

ControllerNext ==
  \/ ImportCore
  \/ \E c \in Controllers : Create(c)
  \/ \E c, k \in Controllers : Copy(c, k)

--------------------------------------------------------------------------------
(* Properties *)

\* Python uses the very libfde that the native code uses, "what is crucial for exchanging
\* data": when its binding loads one and there is a controller whose library reports its
\* libfde, made before or in the same step, it is that one.  Nothing is said of a libfde
\* that Python had loaded before there was such a controller: it stays.
SameLibrary ==
  [][coreHdl = "unset" /\ coreHdl' # "unset"
       /\ (\E c \in Controllers : object'[c] # NoObject /\ object'[c].class \in Reporting)
     => coreHdl' = "native"]_controllerVars

=============================================================================
