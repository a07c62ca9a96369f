---------------------------- MODULE AdmissionMC ------------------------------
(***************************************************************************)
(* Small instances of Admission.                                           *)
(***************************************************************************)
EXTENDS AdmissionProperties

S1 == [name |-> "coretemp", path |-> "hwmon0", isPackage |-> TRUE]
S2 == [name |-> "k10temp", path |-> "hwmon1", isPackage |-> TRUE]
S3 == [name |-> "acpitz", path |-> "zone0", isPackage |-> FALSE]
MCSensors == <<S1, S2, S3>>

MCDirectories == <<"bin", "sbin">>
MCKinds0 == [name \in CatalogNames |-> IF LooksAfresh(name) THEN <<"file", "file">> ELSE <<"absent", "file">>]
MCRefused == {<<"prog">>}

MCSeeds ==
    { <<"echo", " ">>, <<"true">>, <<"true", " ", "|", " ", "echo", " ">>, <<"cat", " ", "a", " ">>, <<"cd", " ">>, <<"exit", " ">>,
      <<"caps_cpu_burn", " ", "9", "9">>, <<"status_probe", " ", "exit", " ", "3">> }
MCPieces ==
    { <<" ">>, <<"a">>, <<"'">>, <<"\"">>, <<"\\">>, <<"#">>, <<"|">>, <<">">>, <<"3">> }
MCLine == <<"true">>

MCTokens ==
    { <<"-", "n">>, <<"-", "n", "5">>, <<"-", "5">>, <<"-", "q", "n">>, <<"-", "n", "c">>, <<"5">>,
      <<"9", "9", "9">>, <<"a">>, <<"gone">>, <<"exit">>, <<"prog">>, <<"-", "-", "no-headers">>, <<"-", "br">>,
      <<"/", "a">> }
MCCommands == {"head", "sleep", "status_probe", "awk", "ps", "ip", "caps_memory_burn", "bash"}
MCChanging == {"true", "status_probe"}

Env0 ==
    [guard |-> Unset, sensor |-> Unset, sensorName |-> Unset, sensorPath |-> Unset, warning |-> NoNumber,
     critical |-> NoNumber, action |-> Unset, grace |-> NoNumber, bindMode |-> Unset, host |-> Unset,
     token |-> Unset, defaultTimeout |-> NoNumber, maxTimeout |-> NoNumber, maxConcurrent |-> NoNumber,
     addressSpace |-> NoNumber, cpuBudget |-> NoNumber]
Guarded == [Env0 EXCEPT !.guard = "true", !.action = "TERM"]
MCEnvs ==
    { Guarded, [Guarded EXCEPT !.sensor = "package"], [Guarded EXCEPT !.sensorName = "coretemp"],
      [Guarded EXCEPT !.sensorPath = "zone0", !.action = "WARN"], [Guarded EXCEPT !.warning = 95],
      [Env0 EXCEPT !.maxConcurrent = 1, !.cpuBudget = 1500] }

MCHeats == {40, 85, 97}
MCWorkspaces ==
    { [p \in {<<<<"a">>>>} |-> "file"], [p \in {<<<<"a">>>>} |-> "directory"], [p \in {<<<<"gone">>>>} |-> "linkInside"] }
MCTargets ==
    { <<>>, <<[slot |-> "out", target |-> <<"a">>]>>,
      <<[slot |-> "in", target |-> <<"a">>], [slot |-> "append", target |-> <<"b">>]>>,
      <<[slot |-> "out", target |-> <<".", ".">>]>> }
=============================================================================
