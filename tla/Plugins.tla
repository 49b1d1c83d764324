------------------------------ MODULE Plugins ------------------------------
(***************************************************************************)
(* Which plugins an agent is built with (core/plugin.py and                *)
(* core/plugin_config.py): the first ossia.json that exists, the files     *)
(* that look like plugins, and the order in which they are loaded.  What a *)
(* plugin does is left out but for its tools and whether it adds a layer.  *)
(***************************************************************************)
EXTENDS SequencesExt

None == "" \* no path, no configuration

Entry(name, path, enabled, config) ==
  [name |-> name, path |-> path, enabled |-> enabled, config |-> config]

\* One pass of the loop of _parse over what the document has in its list: a bare
\* name, an object, or neither; "enabled" that is no boolean reads as true.
ParseEntry(entries, raw) ==
  CASE raw.form = "name" -> Append(entries, Entry(raw.name, None, TRUE, None))
    [] raw.form = "object" /\ raw.name # "" ->
         Append(entries, Entry(raw.name, raw.path, raw.enabled # "false", raw.config))
    [] OTHER -> entries

\* load_ossia_config: the first document that is there; one that is not valid
\* declares nothing, and the next is not asked.  (A document that cannot be read, or
\* a "path" that is no string, raises, and there is no agent.)
LoadConfig(documents) ==
  LET first == SelectInSeq(documents, LAMBDA d : d.form # "absent")
  IN IF first = 0 \/ documents[first].form = "invalid" THEN <<>>
     ELSE FoldLeft(ParseEntry, <<>>, documents[first].entries)

-----------------------------------------------------------------------------
(* A file has a path and a stem ("__init__" for a package), the name its    *)
(* module declares, its tools, whether it adds a layer, whether it lies in  *)
(* a directory that is scanned, and what loading it does: "fails" (the      *)
(* import or register raises), "helper" (no register), "new" (register      *)
(* takes a configuration) or "old" (register is called again without one).  *)

Loads(file) == file.register \in {"new", "old"}

Disabled(entries) ==
  {entries[i].name : i \in {j \in DOMAIN entries : ~entries[j].enabled}}

\* The configuration of the last enabled entry named like the stem of a file.
StemConfig(entries, stem) ==
  FoldLeft(LAMBDA config, e :
             IF e.enabled /\ e.config # None /\ e.name = stem THEN e.config ELSE config,
           None, entries)

\* Fault: the names switched off are taken for those of files.
AdmitByStem(entries, loaded, file, config) ==
  IF \/ ~Loads(file)
     \/ file.stem \in Disabled(entries)
     \/ \E i \in DOMAIN loaded : loaded[i].file.name = file.name
  THEN loaded ELSE Append(loaded, [file |-> file, config |-> config])

\* A file that does not load is passed over, a disabled name is dropped, and the
\* first of a name wins.  What is dropped has been imported and registered by then:
\* its name is not known before.
Admit(entries, loaded, file, config) ==
  IF \/ ~Loads(file)
     \/ file.name \in Disabled(entries)
     \/ \E i \in DOMAIN loaded : loaded[i].file.name = file.name
  THEN loaded ELSE Append(loaded, [file |-> file, config |-> config])

\* The first loop of discover_plugins: the files enabled entries point to.
Explicit(entries, files) ==
  FoldLeft(LAMBDA loaded, e :
             IF e.enabled /\ \E f \in ToSet(files) : f.path = e.path
             THEN Admit(entries, loaded, CHOOSE f \in ToSet(files) : f.path = e.path, e.config)
             ELSE loaded,
           <<>>, entries)

\* The second one adds to them: the bundled directory, the user's, and any other,
\* each in alphabetical order.
Discover(entries, files) ==
  FoldLeft(LAMBDA loaded, f :
             IF f.scanned THEN Admit(entries, loaded, f, StemConfig(entries, f.stem))
             ELSE loaded,
           Explicit(entries, files), files)

\* What load_plugins_into adds to the agent.
PluginTools(loaded) == UNION {loaded[i].file.tools : i \in DOMAIN loaded}
PluginLayer(loaded) == \E i \in DOMAIN loaded : loaded[i].file.layer

-----------------------------------------------------------------------------
\* Of every name that is not disabled and has a file that loads, one plugin is
\* loaded and no other: the file an enabled entry points to, if there is one, with
\* that entry's configuration.  Loaded is what the agent is built with: the module of
\* a plugin that is switched off is executed all the same.
PluginsAsDeclared(entries, files, loaded) ==
  LET usable == {f \in ToSet(files) : Loads(f) /\ f.name \notin Disabled(entries)}
      pointed == {f \in usable : \E i \in DOMAIN entries :
                    entries[i].enabled /\ entries[i].path = f.path}
  IN
  /\ \A i, j \in DOMAIN loaded : loaded[i].file.name = loaded[j].file.name => i = j
  /\ {loaded[i].file : i \in DOMAIN loaded} \subseteq usable
  /\ \A f \in usable : f \in pointed \/ f.scanned =>
       \E i \in DOMAIN loaded : loaded[i].file.name = f.name
  /\ \A i \in DOMAIN loaded : \A f \in pointed : f.name = loaded[i].file.name =>
       /\ loaded[i].file \in pointed
       /\ \E k \in DOMAIN entries :
            /\ entries[k].enabled /\ entries[k].path = loaded[i].file.path
            /\ entries[k].config = loaded[i].config

=============================================================================
