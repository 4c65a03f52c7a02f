---------------------------- MODULE RemoteDetect ----------------------------
(***************************************************************************)
(* remotedetect/remotedetect.go: a deploy wizard knows a repository only   *)
(* as the flat list of its paths.  Detect says which directories can be    *)
(* deployed and which one to propose; DetectForRoot repeats that inside    *)
(* the directory the user picks.                                           *)
(*                                                                         *)
(* A path is the sequence of its components, a directory likewise, <<>>    *)
(* being "/".  TLC does not order strings, so the two sorts of the code    *)
(* are given as constants: they differ, because one compares directories   *)
(* with their final slash and one without ("/api" < "/api-v2", but         *)
(* "/api-v2/" < "/api/").  Once the repository is cloned, the detectors    *)
(* of BuiltinDetectors look at the same root directory.                    *)
(***************************************************************************)
EXTENDS BuiltinDetectors

CONSTANTS Repositories, \* sets of paths: the trees a hosting service may list
          DirOrder,     \* every directory, as slices.Sort orders rootCandidates
          RootOrder     \* the same, as the strings with a slash at the end are ordered

ASSUME OrdersAssumption ==
    /\ ToSet(DirOrder) = ToSet(RootOrder)
    /\ DirOrder[1] = <<>> /\ RootOrder[1] = <<>>

ManifestFiles == {"Dockerfile", "package.json", "go.mod", "requirements.txt",
                  "pyproject.toml", "Pipfile", "manage.py", "Cargo.toml"}
ComposeFiles == {"docker-compose.yml", "docker-compose.yaml", "compose.yml", "compose.yaml"}

Dirs(paths, files) == {Front(p) : p \in {q \in ToSet(paths) : Last(q) \in files}}
manifestDirs(paths) == Dirs(paths, ManifestFiles)

\* Mutant of rootCandidates: in the order in which the manifests are listed.
MutRootCandidates(paths) ==
    LET listed == SelectSeq(paths, LAMBDA p : Last(p) \in ManifestFiles /\ Len(p) > 1)
    IN  <<(<<>>)>> \o [i \in DOMAIN listed |-> Front(listed[i])]
rootCandidates(paths) ==
    SelectSeq(DirOrder, LAMBDA d : d = <<>> \/ d \in manifestDirs(paths))

topLevelFileSet(paths) == {p[1] : p \in {q \in ToSet(paths) : Len(q) = 1}}

filterPathsToRoot(paths, root) ==
    LET under == SelectSeq(paths, LAMBDA p : IsPrefix(root, p))
        Rebase(p) == IF p = root THEN <<Last(p)>> ELSE SubSeq(p, Len(root) + 1, Len(p))
    IN  IF root = <<>> THEN paths ELSE [i \in DOMAIN under |-> Rebase(under[i])]

\* The names isIgnoredPythonPath refuses, of those with a dot in front two.
IgnoredParts == {"__pycache__", "node_modules", "site-packages", "venv", ".venv", "env", ".git"}

\* The first settings package listed, or <<>>: gunicorn gets no start command.
detectPythonModule(paths, filename) ==
    LET found == SelectSeq(paths, LAMBDA p : Last(p) = filename /\ ToSet(p) \cap IgnoredParts = {})
    IN  IF found = <<>> THEN <<>> ELSE found[1]

\* Mutant of FrameworkRules: Rust is forgotten.
MutFrameworkRules ==
    << <<{"manage.py"}, "django">>, <<{"package.json"}, "nodejs">>, <<{"go.mod"}, "go">>,
       <<{"requirements.txt"}, "python">>, <<{"Dockerfile"}, "docker">> >>

\* The cases of detectService's switch: the files it asks for, and its answer.
FrameworkRules ==
    << <<{"manage.py"}, "django">>,
       <<{"package.json", "next.config"}, "nextjs">>, <<{"package.json"}, "nodejs">>,
       <<{"go.mod"}, "go">>, <<{"Cargo.toml"}, "rust">>,
       <<{"requirements.txt", "main.py"}, "fastapi">>, <<{"requirements.txt", "app.py"}, "flask">>,
       <<{"requirements.txt"}, "python">>, <<{"pyproject.toml"}, "python">>,
       <<{"Pipfile"}, "python">>, <<{"Dockerfile"}, "docker">> >>

\* What pip is asked to install from; the other build commands go with the framework.
BuildFrom(framework, files) ==
    CASE framework \notin {"django", "fastapi", "flask", "python"} -> framework
      [] "pyproject.toml" \in files /\ "requirements.txt" \notin files -> "pyproject.toml"
      [] OTHER -> "requirements.txt"

\* The services found at dir, whose subtree is paths: one or none.
detectService(dir, paths) ==
    LET files == topLevelFileSet(paths)
        rule == SelectInSeq(FrameworkRules, LAMBDA r : r[1] \subseteq files)
        framework == FrameworkRules[rule][2]
    IN  IF rule = 0 THEN {}
        ELSE {[root |-> dir, framework |-> framework, build |-> BuildFrom(framework, files),
               start |-> IF framework = "django" THEN detectPythonModule(paths, "wsgi.py")
                         ELSE <<framework>>]}

\* Mutant of servicesOf: the subtree is not cut out.
MutServicesOf(paths, roots) == UNION {detectService(d, paths) : d \in ToSet(roots)}
servicesOf(paths, roots) ==
    UNION {detectService(d, filterPathsToRoot(paths, d)) : d \in ToSet(roots)}

\* Mutant of pickBestService: the first service, whatever it is.
MutPickBestService(services) == services[1]
pickBestService(services) ==
    LET apps == SelectSeq(services, LAMBDA s : s.framework # "docker")
    IN  IF apps # <<>> THEN apps[1] ELSE services[1]

collectDirectories(paths) ==
    LET dirs == {<<>>} \cup UNION {{SubSeq(p, 1, n) : n \in 0 .. Len(p) - 1} : p \in ToSet(paths)}
    IN  SelectSeq(RootOrder, LAMBDA d : d \in dirs)

Undetected(paths) ==
    [root |-> <<>>, build |-> "", start |-> <<>>,
     framework |-> IF Dirs(paths, {"Dockerfile"}) # {} THEN "docker" ELSE "unknown"]

\* Detect of the package, as a function of the listed paths.
Scan(paths) ==
    LET roots == rootCandidates(paths)
        RankOf(s) == SelectInSeq(RootOrder, LAMBDA d : d = s.root)
        services == SetToSortSeq(servicesOf(paths, roots), LAMBDA s, t : RankOf(s) < RankOf(t))
    IN  [best |-> IF services = <<>> THEN Undetected(paths) ELSE pickBestService(services),
         services |-> services, rootCandidates |-> roots, directories |-> <<>>,
         hasDockerfile |-> Dirs(paths, {"Dockerfile"}) # {},
         hasDockerCompose |-> Dirs(paths, ComposeFiles) # {}]

ScanForRoot(paths, root) ==
    [Scan(filterPathsToRoot(paths, root)) EXCEPT !.directories = collectDirectories(paths)]

-----------------------------------------------------------------------------
VARIABLES tree,     \* the paths as the hosting service lists them
          overview, \* the result of Detect, or of DetectForRoot("/")
          root,     \* the directory the user has picked
          scoped    \* the result of DetectForRoot(root)

wizard == <<tree, overview, root, scoped>>
NoResult == [best |-> NoEntry, directories |-> <<>>]

RemoteInit == tree = <<>> /\ overview = NoResult /\ root = <<>> /\ scoped = NoResult

\* The service lists a tree in any order.
List(paths) == tree' = paths /\ UNCHANGED <<overview, root, scoped>>

DetectRepository ==
    /\ tree # <<>> /\ overview = NoResult
    /\ overview' = ScanForRoot(tree, <<>>)
    /\ UNCHANGED <<tree, root, scoped>>

DetectForRoot(r) ==
    /\ overview # NoResult /\ scoped = NoResult
    /\ root' = r
    /\ scoped' = ScanForRoot(tree, r)
    /\ UNCHANGED <<tree, overview>>

Close == scoped # NoResult /\ tree' = <<>> /\ overview' = NoResult /\ root' = <<>> /\ scoped' = NoResult

RemoteNext ==
    \/ tree = <<>> /\ \E r \in Repositories : \E p \in SetToSeqs(r) : List(p)
    \/ DetectRepository \/ Close
    \/ \E d \in ToSet(overview.directories) \cup {tree[i] : i \in DOMAIN tree} : DetectForRoot(d)

\* The wizard looks at repositories, then docksmith starts and detects in clones.
DetectionInit == Init /\ RemoteInit
DetectionNext ==
    \/ tree = <<>> /\ Next /\ UNCHANGED wizard
    \/ inits = 0 /\ RemoteNext /\ UNCHANGED vars
DetectionSpec == DetectionInit /\ [][DetectionNext]_<<vars, wizard>>

-----------------------------------------------------------------------------
(* Properties.                                                             *)

Where(s, base) == [s EXCEPT !.root = base \o s.root]

(* DetectForRoot answers inside the directory the user picks what Detect   *)
(* has announced for it: the same services with the same commands, moved   *)
(* to their place in the repository, none more and none less.  So a        *)
(* service proposed in the overview never turns into another one when it   *)
(* is selected, and every directory it offers exists.                      *)
ScopedDetectionAgrees ==
    (scoped # NoResult /\ root \in ToSet(overview.directories)) =>
        /\ {Where(s, root) : s \in ToSet(scoped.services)}
             = {s \in ToSet(overview.services) : IsPrefix(root, s.root)}
        /\ {s.root : s \in ToSet(overview.services)} \subseteq ToSet(scoped.directories)

(* The answer depends on the tree and not on the order in which it is      *)
(* listed, except for the start command of a Django service, which names   *)
(* the first settings package of the list.                                 *)
ListingOrderIrrelevant ==
    LET Forget(s) == IF s.framework = "django" THEN [s EXCEPT !.start = <<>>] ELSE s
        Known(r) == [r EXCEPT !.best = Forget(@), !.services = [i \in DOMAIN @ |-> Forget(@[i])]]
    IN  overview # NoResult =>
            Known(overview) = Known(ScanForRoot(SetToSeq(ToSet(tree)), <<>>))

(* A Dockerfile, wherever it lies, is a convenience and not the            *)
(* application: it changes the framework and the commands proposed only of *)
(* a repository in which no language is recognised.                        *)
DockerfileHidesNothing ==
    LET bare == Scan(SelectSeq(tree, LAMBDA p : Last(p) # "Dockerfile")).best
    IN  overview # NoResult => bare.framework = "unknown" \/ overview.best = bare

(* What docksmith will find in a clone the wizard has found before: when a *)
(* detector for Go, Rust or a Python framework recognises the project, the *)
(* file names alone already show a service at its root.                    *)
RemoteSeesLanguages ==
    LET families == {"go", "go-gin", "go-echo", "go-fiber", "rust-actix", "rust-axum",
                     "django", "fastapi", "flask"}
        files == {f[1] : f \in project}
        paths == SetToSeq({<<f>> : f \in files})
    IN  (project # NoProject /\ answer \in families) => Scan(paths).services # <<>>
=============================================================================
