---------------------------- MODULE ConfLayering ----------------------------
(***************************************************************************)
(* One call of read_layered_conf_with_options of splunk_conf_layering.rs:  *)
(* collect_conf_sources looks at one directory or file after the other,    *)
(* then the files found are read and overlaid, [default] is inherited and  *)
(* variables are expanded.                                                 *)
(*                                                                         *)
(* Other programs change files and rights while the call runs, so each     *)
(* look at the file system has any outcome, whatever came of the last one. *)
(***************************************************************************)
EXTENDS Integers, Sequences, FiniteSets

CONSTANTS
    AppsIn,   \* for apps, slave-apps and peer-apps: the names there may be
              \* inside; a name is a number and sorts like it
    Hidden,   \* the names that start with '.'
    UserApps, \* the names there may be inside of the directory of the user
    Volume,   \* the stanzas whose names start with "volume:"
    Content,  \* the dictionaries a file may hold: stanza to key to text
    Install,  \* the [install] stanzas an app.conf may hold; a priority that is
              \* not there, or no number, is {}
    Options   \* LayeredReadOptions; a filter is a set of at most one name

Roots == 1..Len(AppsIn)

ASSUME ConfLayeringAssumption ==
    /\ AppsIn \in Seq(SUBSET Int) /\ Hidden \subseteq Int
    /\ \A r \in Roots : IsFiniteSet(AppsIn[r])
    /\ UserApps \subseteq Int /\ IsFiniteSet(UserApps)
    /\ \A i \in Install : i.state \in {"", "enabled", "disabled", "other"}
                          /\ i.priority \in SUBSET Int

VARIABLES
    options,
    phase,    \* how far the call is
    root,     \* the root list_app_dirs is at
    left,     \* the entries of that directory still to come
    apps,     \* its apps so far, as [root, name, priority]
    layered,  \* layered_apps: the apps of the roots before it, in order
    todo,     \* the directories push_if_file has yet to look into
    sources,  \* the files found, lowest priority first
    overlay,  \* dict, of the files read so far: a value is [from, text]
    contents, \* history: what each file held when it was read
    meant     \* history: what the app.confs of <<root, name>> say of it

collecting == <<root, left, apps, layered, todo, sources, meant>>
reading == <<overlay, contents>>
layeringVars == <<options, phase, collecting, reading>>

Dir(layer, r, n) == [layer |-> layer, root |-> r, name |-> n]
SystemDefault == Dir("system default", 0, 0)
SystemLocal == Dir("system local", 0, 0)

Layers == {"system default", "app default", "app local", "system local", "user"}
Place == [layer : Layers, root : Nat, name : Int]
App == [root : Nat, name : Int, priority : Int]

LayeringTypeOK ==
    /\ options \in Options
    /\ phase \in {"system default", "list", "entries", "apps", "users", "user",
                  "merge", "inherit", "expand", "done", "failed"}
    /\ root \in 1..Len(AppsIn) + 1
    /\ phase = "entries" => root \in Roots
    /\ left \in SUBSET Int
    /\ apps \in SUBSET App
    /\ layered \in Seq(App)
    /\ todo \in Seq(Place)
    /\ sources \in Seq(Place)
    /\ contents \in Seq(Content)
    /\ DOMAIN meant \subseteq Nat \X Int
    /\ \A a \in DOMAIN meant : meant[a] \in [enabled : BOOLEAN, priority : Int]

LayeringInit ==
    /\ options \in Options
    /\ phase = "system default"
    /\ root = 1
    /\ left = {}
    /\ apps = {}
    /\ layered = <<>>
    /\ todo = <<SystemDefault>>
    /\ sources = <<>>
    /\ overlay = [s \in {"default"} |-> <<>>]
    /\ contents = <<>>
    /\ meant = <<>>

Failed == phase' = "failed" /\ UNCHANGED <<options, collecting, reading>>

----------------------------------------------------------------------------
(* push_if_file.                                                           *)

Looking == phase \in {"system default", "apps", "user"} /\ todo # <<>>

PushFile ==
    /\ Looking
    /\ sources' = Append(sources, Head(todo))
    /\ todo' = Tail(todo)
    /\ UNCHANGED <<options, phase, root, left, apps, layered, meant, reading>>

\* not there, or no file
NoFile ==
    /\ Looking
    /\ todo' = Tail(todo)
    /\ UNCHANGED <<options, phase, root, left, apps, layered, sources, meant, reading>>

PushFails == Looking /\ Failed

Collected ==
    /\ todo = <<>>
    /\ \/ phase = "system default" /\ phase' = "list"
       \/ phase = "apps" /\ phase' = "users"
       \/ phase = "user" /\ phase' = "merge"
    /\ UNCHANGED <<options, collecting, reading>>

----------------------------------------------------------------------------
(* list_app_dirs and read_app_install.                                     *)

\* A root that is not there has no apps.
ListRoot ==
    /\ phase = "list"
    /\ root \in Roots
    /\ phase' = "entries"
    /\ left' \in SUBSET AppsIn[root]
    /\ apps' = {}
    /\ UNCHANGED <<options, root, layered, todo, sources, meant, reading>>

ListRootFails == phase = "list" /\ root \in Roots /\ Failed

Asked(n) == n \notin Hidden /\ options.filter \subseteq {n}

TakeEntry(n) == phase = "entries" /\ n \in left /\ left' = left \ {n}

\* path.is_dir() says no of a file, of what is gone, and of what the caller has
\* no right to look at.
SkipEntry(n) ==
    /\ TakeEntry(n)
    /\ UNCHANGED <<options, phase, root, apps, layered, todo, sources, meant, reading>>

\* What an app.conf makes of the app.  Another state changes nothing, nor does a
\* priority that is no number, nor an app.conf that is not there.
Says(conf, m) ==
    [enabled |-> conf.state = "enabled" \/ (conf.state # "disabled" /\ m.enabled),
     priority |-> IF conf.priority = {} THEN m.priority
                  ELSE CHOOSE p \in conf.priority : TRUE]

Installed(default, local) == Says(local, Says(default, [enabled |-> TRUE, priority |-> 0]))

\* The same, said of the words that count last.
Meant(default, local) ==
    [enabled |-> IF local.state \in {"enabled", "disabled"} THEN local.state = "enabled"
                 ELSE default.state # "disabled",
     priority |-> CHOOSE p \in IF local.priority # {} THEN local.priority
                               ELSE IF default.priority # {} THEN default.priority
                               ELSE {0} : TRUE]

NotThere == [state |-> "", priority |-> {}]

\* Mutant of Wanted: whatever the app is.
WantedAll(m) == TRUE

Wanted(m) == m.enabled \/ options.includeDisabled

AppEntry(n) ==
    /\ TakeEntry(n)
    /\ Asked(n)
    /\ \E default, local \in Install \cup {NotThere} :
          LET m == Installed(default, local)
              app == [root |-> root, name |-> n, priority |-> m.priority]
          IN  /\ apps' = IF Wanted(m) THEN apps \cup {app} ELSE apps
              /\ meant' = [a \in DOMAIN meant \cup {<<root, n>>} |->
                              IF a = <<root, n>> THEN Meant(default, local) ELSE meant[a]]
    /\ UNCHANGED <<options, phase, root, layered, todo, sources, reading>>

EntryFails == phase = "entries" /\ left # {} /\ Failed

Ahead(a, b) == a.priority < b.priority \/ (a.priority = b.priority /\ a.name < b.name)

\* Mutant of Sorted: by name alone.
SortedByName(S) ==
    CHOOSE q \in [1..Cardinality(S) -> S] :
       \A i, j \in 1..Cardinality(S) : i < j => q[i].name < q[j].name

Sorted(S) ==
    CHOOSE q \in [1..Cardinality(S) -> S] :
       \A i, j \in 1..Cardinality(S) : i < j => Ahead(q[i], q[j])

RootDone ==
    /\ phase = "entries"
    /\ left = {}
    /\ phase' = "list"
    /\ root' = root + 1
    /\ layered' = layered \o Sorted(apps)
    /\ UNCHANGED <<options, left, apps, todo, sources, meant, reading>>

Dirs(layer, q) == [i \in DOMAIN q |-> Dir(layer, q[i].root, q[i].name)]

RootsDone ==
    /\ phase = "list"
    /\ root \notin Roots
    /\ phase' = "apps"
    /\ todo' = Dirs("app default", layered) \o Dirs("app local", layered) \o <<SystemLocal>>
    /\ UNCHANGED <<options, root, left, apps, layered, sources, meant, reading>>

\* collect_user_confs, with the same is_dir(); here only the names are sorted.
UserDirs ==
    /\ phase = "users"
    /\ options.user
    /\ phase' = "user"
    /\ \E names \in SUBSET {n \in UserApps : options.filter \subseteq {n}} :
          todo' = Dirs("user", Sorted({[root |-> 0, name |-> n, priority |-> 0] : n \in names}))
    /\ UNCHANGED <<options, root, left, apps, layered, sources, meant, reading>>

UserDirsFails == phase = "users" /\ options.user /\ Failed

NoUser ==
    /\ phase = "users"
    /\ ~options.user
    /\ phase' = "merge"
    /\ UNCHANGED <<options, collecting, reading>>

----------------------------------------------------------------------------
(* merge_configs_strict with LastWins, inherit_default_stanza and          *)
(* expand_dictionary.                                                      *)

At(d, s) == IF s \in DOMAIN d THEN d[s] ELSE <<>>

\* What d and then, over it, c say: of a stanza, and of all.
OverIn(c, d) ==
    [k \in DOMAIN d \cup DOMAIN c |-> IF k \in DOMAIN c THEN c[k] ELSE d[k]]

Over(c, d) == [s \in DOMAIN d \cup DOMAIN c |-> OverIn(At(c, s), At(d, s))]

\* The values of c, which are those of the file f.
ReadFrom(f, c) == [s \in DOMAIN c |-> [k \in DOMAIN c[s] |-> [from |-> f, text |-> c[s][k]]]]

ReadFile ==
    /\ phase = "merge"
    /\ Len(contents) < Len(sources)
    /\ \E c \in Content :
          /\ overlay' = Over(ReadFrom(sources[Len(contents) + 1], c), overlay)
          /\ contents' = Append(contents, c)
    /\ UNCHANGED <<options, phase, collecting>>

\* gone again, not to be read, or no text
ReadFileFails == phase = "merge" /\ Len(contents) < Len(sources) /\ Failed

Merged ==
    /\ phase = "merge"
    /\ Len(contents) = Len(sources)
    /\ phase' = "inherit"
    /\ UNCHANGED <<options, collecting, reading>>

Inherit ==
    /\ phase = "inherit"
    /\ phase' = "expand"
    /\ overlay' = IF ~options.inherit THEN overlay
                  ELSE [s \in DOMAIN overlay |-> OverIn(overlay[s], overlay["default"])]
    /\ UNCHANGED <<options, collecting, contents>>

\* variable_map and expand_value, of the one variable that depends on the stanza
Expanded(s, text) ==
    IF text = "$_index_name" /\ s # "default" /\ s \notin Volume THEN s ELSE text

Expand ==
    /\ phase = "expand"
    /\ phase' = "done"
    /\ overlay' = IF ~options.expand THEN overlay
                  ELSE [s \in DOMAIN overlay |-> [k \in DOMAIN overlay[s] |->
                           [overlay[s][k] EXCEPT !.text = Expanded(s, @)]]]
    /\ UNCHANGED <<options, collecting, contents>>

LayeringNext ==
    \/ PushFile \/ NoFile \/ PushFails \/ Collected
    \/ ListRoot \/ ListRootFails \/ EntryFails \/ RootDone \/ RootsDone
    \/ \E n \in left : SkipEntry(n) \/ AppEntry(n)
    \/ UserDirs \/ UserDirsFails \/ NoUser
    \/ ReadFile \/ ReadFileFails \/ Merged \/ Inherit \/ Expand

LayeringSpec == LayeringInit /\ [][LayeringNext]_layeringVars

----------------------------------------------------------------------------
(***************************************************************************)
(* The precedence of Splunk, as the head of splunk_conf_layering.rs and    *)
(* the README give it: layers, in an app layer the roots, in a root the    *)
(* priorities, at the same priority the names.                             *)
(***************************************************************************)
InApp(f) == f.layer \in {"app default", "app local"}

Level(f) ==
    CASE f.layer = "system default" -> 1
      [] f.layer = "app default" -> 2
      [] f.layer = "app local" -> 3
      [] f.layer = "system local" -> 4
      [] f.layer = "user" -> 5

Priority(f) == IF InApp(f) THEN meant[<<f.root, f.name>>].priority ELSE 0

Below(f, g) ==
    \/ Level(f) < Level(g)
    \/ /\ Level(f) = Level(g)
       /\ \/ f.root < g.root
          \/ /\ f.root = g.root
             /\ \/ Priority(f) < Priority(g)
                \/ Priority(f) = Priority(g) /\ f.name < g.name

\* The files, by their places among the sources, that set a key in a stanza.
Setting(s, k) ==
    {i \in DOMAIN contents : s \in DOMAIN contents[i] /\ k \in DOMAIN contents[i][s]}

Top(I) == CHOOSE i \in I : \A j \in I \ {i} : Below(sources[j], sources[i])

Value(s, k) ==
    LET from == IF Setting(s, k) # {} THEN s ELSE "default"
        top == Top(Setting(from, k))
        text == contents[top][from][k]
    IN  [from |-> sources[top], text |-> IF options.expand THEN Expanded(s, text) ELSE text]

Stanzas == {"default"} \cup UNION {DOMAIN contents[i] : i \in DOMAIN contents}

KeysIn(s) == UNION {DOMAIN At(contents[i], s) : i \in DOMAIN contents}

Keys(s) == KeysIn(s) \cup IF options.inherit THEN KeysIn("default") ELSE {}

(***************************************************************************)
(* A call that succeeds gives each key the value of the highest file that  *)
(* sets it in the stanza or, if none does, in [default]; a [default] value *)
(* is expanded for the stanza that inherits it.  Files that come and go    *)
(* meanwhile make the call fail or do not count, but no file that was      *)
(* found is passed over and no value comes from a lower one instead.       *)
(***************************************************************************)
HighestWins ==
    phase = "done" =>
       /\ Len(contents) = Len(sources)
       /\ overlay = [s \in Stanzas |-> [k \in Keys(s) |-> Value(s, k)]]

(***************************************************************************)
(* Settings come only from apps whose last word in app.conf, local after   *)
(* default, is not "disabled", unless those are asked for too; with a      *)
(* filter from no other app; and from a user's files only for that user.   *)
(***************************************************************************)
OnlyAsked ==
    \A i \in DOMAIN sources :
       LET f == sources[i]
       IN  /\ InApp(f) => /\ meant[<<f.root, f.name>>].enabled \/ options.includeDisabled
                          /\ f.name \notin Hidden
           /\ InApp(f) \/ f.layer = "user" => options.filter \subseteq {f.name}
           /\ f.layer = "user" => options.user

=============================================================================
