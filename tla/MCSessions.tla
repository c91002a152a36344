----------------------------- MODULE MCSessions -----------------------------
(* Instances of Sessions for TLC.                                          *)
EXTENDS Sessions

CONSTANTS a, b   \* connections

K(algo, bits, mat) == [algo |-> algo, bits |-> bits, mat |-> mat]

Bad  == K("ssh-rsa", 1024, "m1")     \* in a blacklist file; weak where that is not loaded
Good == K("ssh-rsa", 2048, "m3")
Dsa  == K("ssh-dss", 1024, "m4")     \* in a blacklist file
Ed   == K("ssh-ed25519", 256, "m7")

IssueKeys == {Bad, Good, Dsa}
PlainAndEd == {Good, Ed}

File(lines) == [isDir |-> FALSE, lines |-> lines]
SubDir == [isDir |-> TRUE, lines |-> {}]
RsaFile == File({Line(<<"ssh-rsa", "m1">>, FALSE)})
DsaFile == File({Line(<<"ssh-dss", "m4">>, TRUE), Line(<<"ssh-dss", "m9">>, FALSE)})

OneDirectory == {<<RsaFile, DsaFile>>}
AllDirectories == {<<>>, <<RsaFile, DsaFile>>, <<RsaFile, SubDir>>}

=============================================================================
