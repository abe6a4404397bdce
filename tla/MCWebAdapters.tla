--------------------------- MODULE MCWebAdapters ---------------------------
(* Instances of WebAdapters for TLC.                                        *)
EXTENDS WebAdapters, TLC

Url(s, h, p) == [scheme |-> s, host |-> h, port |-> p]
Places == {Url("http", "a", "80"), Url("https", "a", "none"), Url("https", "a", "8443"),
           Url("https", "b", "none"), Url("http", "inner", "none"), Url("https", "fixture", "none"),
           Url("http", "here", "none"), Url("ftp", "a", "none")}
Kinds == "a" :> "name" @@ "b" :> "literal" @@ "inner" :> "literal"
         @@ "here" :> "local" @@ "fixture" :> "name"

Address(o, c, i) == [own |-> o, carries |-> c, inner |-> i]
Outside == Address("public", "nothing", "public")
MappedOut == Address("internal", "translation", "public")
MappedIn == Address("internal", "translation", "internal")
TunnelIn == Address("public", "tunnel", "internal")
Known == {Outside, MappedOut, MappedIn, TunnelIn}
Literals == "inner" :> MappedIn @@ "b" :> MappedOut

Recorded == Url("https", "fixture", "none")
\* Inputs of every bucket against a recorded answer, and every place on the
\* network with one input.
Fetches ==
  [adapter : {"fetch"}, url : {Recorded}, format : {"auto", "html", "json", "bytes"},
   suffix : {"none", "binary", "structured"}, api : BOOLEAN, render : BOOLEAN,
   max : 0..4, credential : Credentials]
  \cup [adapter : {"fetch"}, url : Places, format : {"auto"}, suffix : {"none"}, api : {FALSE},
        render : {FALSE}, max : {1}, credential : {"none", "delivered"}]

Searches ==
  [adapter : {"search"}, url : {Recorded}, limit : {0, 1, 10, 11, 50, 51},
   maxAge : {0, 24, 25, 720, 721, 2160, 2161, 8760, 8761},
   declared : BOOLEAN, credential : {"none", "delivered"}]
  \cup [adapter : {"search"}, url : {Url("https", "b", "none")}, limit : {2}, maxAge : {0},
        declared : {TRUE}, credential : {"none", "delivered"}]

Lists == UNION {[1..n -> {24, 721, 9000, Undated}] : n \in 0..3}
=============================================================================
