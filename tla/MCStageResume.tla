---------------------------- MODULE MCStageResume ----------------------------
(* A small recipe and the cards a player could offer it.                   *)
EXTENDS StageResume

MCAbis == <<"arm64", "arm">>

(* A tree, the library of the ABI, and a file that is in the APK or loose. *)
Tree == [id |-> "tree", kind |-> "entries", scopes |-> {"apk", "bundle"},
         required |-> TRUE, counts |-> {1, 2},
         patterns |-> [abi \in {"arm64", "arm"} |-> <<{"a1", "A1"}, {"cfg", "skip"}>>],
         accept |-> [abi \in {"arm64", "arm"} |-> {}],
         into |-> [abi \in {"arm64", "arm"} |->
                      [n \in {"a1", "A1", "cfg", "skip"} |->
                          IF n = "cfg" THEN "d2" ELSE IF n = "skip" THEN Stripped ELSE "d1"]]]

Lib == [id |-> "lib", kind |-> "entry", scopes |-> {"apk", "bundle"},
        required |-> TRUE, counts |-> {},
        patterns |-> [abi \in {"arm64", "arm"} |->
                         IF abi = "arm64" THEN <<{"lib64"}, {"alt64"}>> ELSE <<{"lib32"}>>],
        accept |-> [abi \in {"arm64", "arm"} |-> {"l", "l2"}],
        into |-> [abi \in {"arm64", "arm"} |->
                     [n \in {"lib64", "alt64", "lib32"} |-> "lib"]]]

Cfg == [id |-> "cfg", kind |-> "file", scopes |-> {"apk"},
        required |-> FALSE, counts |-> {},
        patterns |-> [abi \in {"arm64", "arm"} |-> <<{"cfg"}, {"my.apk"}>>],
        accept |-> [abi \in {"arm64", "arm"} |-> {"c", "c2"}],
        into |-> [abi \in {"arm64", "arm"} |-> [n \in {"cfg", "my.apk"} |-> "d2"]]]

MCRules == <<Tree, Lib, Cfg>>

MCFold == [n \in {"a1", "A1", "cfg", "skip", "lib64", "alt64", "lib32", "d1", "d2", "lib", Stripped} |->
              IF n = "A1" THEN "a1" ELSE n]

MCSize == [d \in {"p", "p2", "bad", "l", "l2", "c", "c2", "junk"} |->
              IF d = "c" THEN 1 ELSE IF d = "c2" THEN 3 ELSE 2]

(* The first hook makes a file, the second rewrites one in place.          *)
MCHooks == <<[rewrites |-> {}, makes |-> {"made"}, checks |-> {"made"}],
             [rewrites |-> {"d1"}, makes |-> {}, checks |-> {"d1"}]>>

-----------------------------------------------------------------------------
Any == [name |-> "any", dir |-> 1, shape |-> "plain", known |-> TRUE, obb |-> FALSE,
        sound |-> TRUE, package |-> NoPackage, base |-> TRUE,
        members |-> << >>, inner |-> {}, data |-> "junk", token |-> "t", slot |-> 1]

Pair(m, x, n, y) == [k \in {m, n} |-> IF k = m THEN x ELSE y]

Apk(package, members) ==
    [Any EXCEPT !.name = "my.apk", !.shape = "apk", !.package = package, !.members = members]

Old == Apk("game", Pair("a1", "p", "lib64", "l"))
OldIn32 == Apk("game", Pair("a1", "p", "lib32", "l"))
New == [Apk("game", Pair("a1", "p2", "lib64", "l2")) EXCEPT !.name = "new.apk"]
Other == Apk("other", Pair("a1", "p2", "lib64", "l"))
Unnamed == [Old EXCEPT !.package = NoPackage]
Broken == Apk("game", Pair("a1", "bad", "lib64", "l"))
Clash == Apk("game", Pair("a1", "p", "A1", "p"))
WithCfg == Apk("game", Pair("cfg", "c", "lib64", "l"))
Outside == [Apk("game", Pair("lib64", "l", "skip", "p")) EXCEPT !.name = "out.apk"]

Inner(i, m, x) == [Apk("game", [k \in {m} |-> x]) EXCEPT !.slot = i, !.base = i = 1, !.data = x]

Bundle(first) == [Any EXCEPT !.name = "my.apks", !.shape = "bundle",
                             !.inner = {Inner(1, "a1", first), Inner(2, "lib64", "l")}]

Mixed == [Bundle("p") EXCEPT !.inner = {Inner(1, "a1", "p"),
                                        [Inner(2, "lib64", "l") EXCEPT !.package = "other", !.data = "l2"]}]

Alone == [Any EXCEPT !.name = "cfg", !.data = "c"]
Alone2 == [Alone EXCEPT !.data = "c2", !.obb = TRUE, !.shape = "archive", !.members = [n \in {"skip"} |-> "p"]]
Readme == [Any EXCEPT !.known = FALSE]
Elsewhere == [New EXCEPT !.dir = 2]

MCCard == {{Old}, {New, Elsewhere}, {Old, New}, {Old, Other}, {Bundle("p")}, {Bundle("p2")},
           {Bundle("p"), Old}, {Broken}, {Unnamed, Alone2}, {Old, Alone}, {WithCfg, Alone},
           {Clash, Old}, {Mixed}, {Readme, Elsewhere}, {Elsewhere}, {OldIn32, Old},
           {OldIn32, Alone, Alone2}, {Outside}, {Alone}}

(* The hypotheses of the theorem on CommittedIsFresh.                      *)
ASSUME MCOrderlyHooks == OrderlyHooks
ASSUME MCSizesTell == SizesTell

(* The player starts with any card, and changes it for one of these.       *)
MCLater == {{Old}, {Old, Alone}, {Unnamed, Alone2}, {New, Elsewhere}, {Bundle("p")}, {Bundle("p2")}, {Broken}}

(* One application, one version, one content for each destination.         *)
MCGood == {{Old}, {New, Elsewhere}, {Bundle("p")}, {Bundle("p2")}, {Bundle("p"), Old}, {Unnamed, Alone2},
           {Old, Alone}, {OldIn32, Old}}
=============================================================================
