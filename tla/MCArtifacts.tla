---------------------------- MODULE MCArtifacts ----------------------------
(***************************************************************************)
(* An instance of Artifacts for TLC.  One deployment stands for every way  *)
(* in which a preparation can end; the other one has the same project,     *)
(* and a job that leaves a file or a directory under the same name.        *)
(***************************************************************************)
EXTENDS Artifacts, TLC

CONSTANTS d1, d2

To(segments) == [rooted |-> FALSE, segments |-> segments]

File(id) == [id |-> id, yaml |-> FALSE, services |-> {}]
Yaml(id, services) == [id |-> id, yaml |-> TRUE, services |-> services]

MCContent == {File("data"), Yaml("one", {"web"}), Yaml("two", {"web", "db"}), Yaml("empty", {})}

At(kind, segments, content) == [kind |-> kind, path |-> To(segments), content |-> content]

Compose(id, services) == At("file", <<"app", "docker-compose.yml">>, Yaml(id, services))
Dir(segments) == At("dir", segments, File("data"))
Data(kind, segments) == At(kind, segments, File("data"))

InZip(entries) == [format |-> "zip", ends |-> "whole", root |-> "app", entries |-> entries]
InTar(entries) == [format |-> "tar", ends |-> "whole", root |-> "app", entries |-> entries]

Linux == [enabled |-> TRUE, windows |-> FALSE, runtime |-> None, runtimes |-> {"runc"}]
Gpu == [Linux EXCEPT !.runtime = "nvidia", !.runtimes = {"runc", "nvidia"}]
Windows == [Gpu EXCEPT !.windows = TRUE]

Deploying(archive, compose, host) ==
  [archive |-> archive, project |-> "", compose |-> compose, artifacts |-> <<>>, host |-> host]

\* Files come twice, in either kind of archive, with a link between them; and
\* a tar that was cut off where nobody notices.
Ordinary == {InZip(<<Dir(<<"app">>), Compose("one", {"web"}), Data("link", <<"app", ".", "x">>), Compose("two", {"web", "db"})>>),
             [InTar(<<Compose("two", {"web", "db"}), Data("file", <<"app", "s", "..", "x">>)>>) EXCEPT !.format = "tar.gz"],
             [InTar(<<Compose("two", {"web", "db"}), Dir(<<"app", "s">>)>>) EXCEPT !.ends = "between"]}

\* Archives that are cut off, hold a link or a path that leads outside or
\* is absolute, or have a file where a directory or another file has to be.
Spoiled == {
  [InZip(<<Compose("one", {"web"})>>) EXCEPT !.ends = "between"],
  [InTar(<<Compose("one", {"web"})>>) EXCEPT !.ends = "within"],
  [InTar(<<Compose("one", {"web"})>>) EXCEPT !.ends = "between", !.format = "tar.gz"],
  [InTar(<<Dir(<<"app">>)>>) EXCEPT !.ends = "between"],
  [InZip(<<>>) EXCEPT !.format = "unknown"],
  InTar(<<Compose("one", {"web"}), Data("link", <<"app", "x">>)>>),
  InZip(<<Compose("one", {"web"}), Data("file", <<"app", "..", "..", "x">>)>>),
  InZip(<<Compose("one", {"web"}), [Data("file", <<"x">>) EXCEPT !.path.rooted = TRUE]>>),
  InTar(<<Data("file", <<"app">>), Compose("one", {"web"})>>),
  InZip(<<Compose("one", {"web"}), Data("file", <<"app">>)>>),
  InZip(<<Dir(<<"app", "docker-compose.yml">>)>>),
  InZip(<<>>)}

\* Compose files that cannot be overridden, or have the override's name.
Overridden == {
  Deploying(InZip(<<Compose("empty", {})>>), <<>>, Gpu),
  Deploying(InZip(<<Data("file", <<"app", "docker-compose.yml">>)>>), <<>>, Gpu),
  Deploying(InZip(<<Compose("one", {"web"}), Dir(<<Override, "x">>)>>), <<>>, Gpu),
  Deploying(InZip(<<At("file", <<Override>>, Yaml("one", {"web"}))>>), <<To(<<Override>>)>>, Gpu)}

\* An archive that was renamed, and one with a blank in its name.
Renamed == {
  Deploying([InZip(<<Compose("one", {"web"})>>) EXCEPT !.root = "app_1_"], <<To(<<"app", "docker-compose.yml">>)>>, Linux),
  Deploying([InZip(<<At("file", <<"my app", "docker-compose.yml">>, Yaml("one", {"web"}))>>) EXCEPT !.root = "my app"], <<>>, Windows)}

Refused == {
  Deploying(InZip(<<>>), <<>>, [Linux EXCEPT !.enabled = FALSE]),
  Deploying(InZip(<<Compose("one", {"web"})>>), <<>>, [Gpu EXCEPT !.runtimes = {"runc"}]),
  Deploying(InZip(<<>>), <<To(<<"..", "x">>)>>, Linux)}

\* A directory, a file and the directory it is in, a directory that is
\* empty, a path that leaves the bundle, and an absolute one.
Out == <<"out">>
A == <<"out", "a">>
Requests == {
  <<To(Out)>>,
  <<To(A), To(<<"tmp", "..", "out">>)>>,
  <<To(<<"tmp">>)>>,
  <<To(<<"..", "app">>)>>,
  <<[rooted |-> TRUE, segments |-> A]>>}

Asking(c) == {[c EXCEPT !.artifacts = paths] : paths \in Requests}

Plain == Deploying(InZip(<<Compose("one", {"web"})>>), <<>>, Linux)

MCCase ==
  d1 :> ({Deploying(archive, <<>>, host) : archive \in Ordinary, host \in {Linux, Gpu, Windows}}
         \cup {Deploying(archive, <<>>, Linux) : archive \in Spoiled}
         \cup Overridden \cup Renamed \cup Refused \cup Asking([Plain EXCEPT !.project = "App"])
         \cup {[c EXCEPT !.project = "--"] : c \in Asking(Plain)})
  @@ d2 :> Asking(Plain)

InApp(path) == <<"app">> \o path

MCOutput == [d \in {d1, d2} |-> {
  [files |-> {InApp(A), InApp(<<"out", "b">>)}, dirs |-> {InApp(Out), InApp(<<"tmp">>)}],
  [files |-> {InApp(Out)}, dirs |-> {}]}]

MCNormal == "" :> "" @@ "app" :> "app" @@ "App" :> "app" @@ "--" :> "" @@ "my app" :> "my-app" @@ "app_1_" :> "app_1"
MCLength == d1 :> 2 @@ d2 :> 1
=============================================================================
