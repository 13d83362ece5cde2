------------------------------ MODULE MCConfig ------------------------------
(***************************************************************************)
(* Instances of Config for TLC: the user's file, a profile that may extend *)
(* another, a project file and the environment.                            *)
(***************************************************************************)
EXTENDS Config, TLC

CONSTANTS user, work, base, root, project, env

UserFiles == <<user>>
ProjectFiles == <<project>>
Env == <<env>>

Theme(node) == Table("theme" :> node)
ThemeName(node) == Theme(Table("name" :> node))
Modes(node) == Table("modes" :> node)
Mode(field, node) == Modes(Keyed("m" :> Table(field :> node)))

Key(node) == Table("model" :> Table("options" :> Table("api_key" :> node)))
Provider(node) == Table("model" :> Table("provider" :> node))
Plugins(node) == Table("plugins" :> Table("sources" :> node))

DefaultTree == ThemeName(Leaf("string", "<defaults>"))

(* What a source may say of the theme, a mode and the other settings.      *)
Overrides(s) == {ThemeName(Leaf("string", s)), Mode("x", Leaf("string", s))}
Removals == {Theme(Unset), ThemeName(Unset), Mode("x", Unset), Modes(Unset)}
Trees ==
  [s \in Sources |->
     CASE s = user -> Overrides(s) \cup
            {NoFile, Key(Leaf("string", s)), Plugins(Leaf("list", s))}
       [] s = work -> Overrides(s) \cup
            {NoFile, Theme(Unset), Mode("x", Unset)}
       [] s = project -> Overrides(s) \cup Removals \cup
            {NoFile, ThemeName(Leaf("number", s)), Modes(Keyed(EmptyKids)),
             Provider(Leaf("string", s)), Plugins(Leaf("list", s))}
       [] s = env -> {NoFile, ThemeName(Leaf("string", s))}
       [] s = base -> Overrides(s) \cup {NoFile}
       [] OTHER -> {ThemeName(Leaf("string", s))}]

Bases == [p \in Profiles |-> CASE p = work -> {None, base, work}
                               [] p = base -> {None, root, work}
                               [] OTHER -> {None}]

SaveTheme == [path |-> <<"theme", "name">>, type |-> "string",
              consulted |-> <<<<"theme", "name">>>>]
SaveKey == [path |-> <<"model", "options", "api_key">>, type |-> "string",
            consulted |-> <<<<"model", "options", "api_key">>,
                            <<"model", "provider">>>>]
SavePlugins == [path |-> <<"plugins", "sources">>, type |-> "list",
                consulted |-> <<<<"plugins", "sources">>>>]
AllWriters == {SaveTheme, SaveKey, SavePlugins}
=============================================================================
