----------------------------- MODULE MCLogFile -----------------------------
(* Small instances of LogFile for TLC.                                     *)
EXTENDS LogFile

\* Two small records, one longer than the rotation limit of 3, then small.
Mixed == [r \in Record |-> IF r = 3 THEN 4 ELSE 1 + (r % 2)]
Small == [r \in Record |-> 1 + (r % 2)]

Config(buf, limit, files, len) ==
    [bufferSize |-> buf, rotateSizeBytes |-> limit, maxRotateFiles |-> files,
     length |-> len]

\* Rotation without history, with one and with two rotated files, a buffer
\* that fills up before the rotation limit is reached, and one that every
\* other record bypasses.
MCConfigs ==
    {Config(5, 3, files, Mixed) : files \in 0..MaxFiles}
        \cup {Config(3, 5, 1, Small), Config(3, 0, 0, Small), Config(2, 3, 1, Small)}
=============================================================================
