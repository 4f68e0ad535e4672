---------------------- MODULE MCGameModeRotation ----------------------
EXTENDS GameModeRotation, Sequences

Line(m, n) == [mode |-> m, repeats |-> n]

\* Two scripts that are there, a file that is no program, a name that is misspelt.  The
\* second line is good in the first file and bad in the second; the third file does not
\* start a server, the fourth starts one without a game mode.
MCConfigs ==
    {<<Line("lvdm", 2), Line("rivershell", 1)>>,
     <<Line("lvdm", 1), Line("sf_tdn", 1)>>,
     <<Line("sf_tdn", 1)>>,
     <<Line("notes", 1), Line("lvdm", 1)>>}

MCServerCfgs == {[i \in 0 .. Len(c) - 1 |-> c[i + 1]] : c \in MCConfigs}

MCNewLines == {Line("rivershell", 2), Line("sf_tdn", 0)}

MCNoLines == {}

MCGoodCfg == {[i \in 0 .. 1 |-> Line(IF i = 0 THEN "lvdm" ELSE "rivershell", 2)]}
=======================================================================
