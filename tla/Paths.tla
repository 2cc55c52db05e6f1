-------------------------------- MODULE Paths --------------------------------
(***************************************************************************)
(* The paths of znodes: isValidPath, and the chroot, a suffix of the host  *)
(* string that every path of a handle is prefixed with (prepend_string)    *)
(* and that is taken off the paths of events (sub_string).  A path is a    *)
(* sequence of characters, a character its code; path[i] of the code is    *)
(* path[i + 1] here.                                                       *)
(***************************************************************************)
EXTENDS Integers, Sequences

CONSTANT NoPath     \* the null pointer

Slash == 47
Dot   == 46

-----------------------------------------------------------------------------
(* isValidPath.                                                            *)

\* The character after the last one is '\0'.
At(path, i) == IF i <= Len(path) THEN path[i] ELSE 0

\* A dot or two are a segment of their own; the last segment of a sequential
\* znode is still to get its number.
ClosesSegment(path, i, sequence) ==
    (i = Len(path) /\ ~sequence) \/ At(path, i + 1) = Slash

\* What the loop refuses at one character, in the order of its tests.
Refused(path, i, sequence) ==
    LET c == path[i]
        lastc == path[i - 1]
    IN  CASE c = Slash                -> lastc = Slash
          [] c = Dot /\ lastc = Dot   -> path[i - 2] = Slash /\ ClosesSegment(path, i, sequence)
          [] c = Dot /\ lastc # Dot   -> lastc = Slash /\ ClosesSegment(path, i, sequence)
          [] OTHER                    -> c > 0 /\ c < 31

isValidPath(path, sequence) ==
    /\ path # <<>>
    /\ path[1] = Slash
    /\ \/ Len(path) = 1
       \/ /\ path[Len(path)] # Slash \/ sequence
          /\ \A i \in 2 .. Len(path) : ~Refused(path, i, sequence)

-----------------------------------------------------------------------------
(* The chroot.                                                             *)

\* zookeeper_init: what follows the first slash of the host string, unless it is
\* the slash alone; a chroot that is no valid path is refused.
ParsedChroot(suffix) == IF Len(suffix) <= 1 THEN NoPath ELSE suffix

InitAccepts(suffix) ==
    ParsedChroot(suffix) # NoPath => isValidPath(ParsedChroot(suffix), FALSE)

\* "/" gets its chroot like every other path.
PrependAlways(chroot, client_path) ==
    IF chroot = NoPath THEN client_path ELSE chroot \o client_path

\* One character is taken for the root, whichever it is.
prepend_string(chroot, client_path) ==
    IF chroot = NoPath THEN client_path
    ELSE IF Len(client_path) = 1 THEN chroot
    ELSE chroot \o client_path

\* The slash that begins a client path goes with the chroot.
StripOneMore(chroot, server_path) ==
    IF chroot = NoPath THEN server_path ELSE SubSeq(server_path, Len(chroot) + 2, Len(server_path))

\* strncmp(server_path, chroot, strlen(chroot) != 0): one character is compared.
sub_string(chroot, server_path) ==
    IF chroot = NoPath THEN server_path
    ELSE IF At(server_path, 1) # At(chroot, 1) THEN NoPath
    ELSE IF Len(server_path) = Len(chroot) THEN <<Slash>>
    ELSE SubSeq(server_path, Len(chroot) + 1, Len(server_path))

-----------------------------------------------------------------------------
(* The reference: a path is a list of names between slashes.               *)

\* The segment from i to j of a path: the names, and nothing between two slashes.
IsSegment(path, i, j) ==
    /\ path[i - 1] = Slash
    /\ i <= j + 1
    /\ At(path, j + 1) \in {Slash, 0}
    /\ \A k \in i .. j : path[k] # Slash

Segments(path) ==
    {s \in (2 .. Len(path) + 1) \X (1 .. Len(path)) : IsSegment(path, s[1], s[2])}

Names(path) == {SubSeq(path, s[1], s[2]) : s \in Segments(path)}
FinalNames(path) == {SubSeq(path, s[1], s[2]) : s \in {t \in Segments(path) : t[2] = Len(path)}}
InnerNames(path) == {SubSeq(path, s[1], s[2]) : s \in {t \in Segments(path) : t[2] < Len(path)}}

Reserved == {<<>>, <<Dot>>, <<Dot, Dot>>}
Printable(name) == \A i \in DOMAIN name : ~(name[i] > 0 /\ name[i] < 31)

\* An absolute path whose names are not empty, "." or ".."; the last one of a
\* sequential znode may be, as its number is still to come.
IsAbsolutePath(path, sequence) ==
    /\ path # <<>> /\ path[1] = Slash
    /\ path = <<Slash>> \/
         /\ \A n \in Names(path) : Printable(n)
         /\ InnerNames(path) \cap Reserved = {}
         /\ sequence \/ FinalNames(path) \cap Reserved = {}

\* A client path seen from the root of the server.
Below(chroot, path) ==
    IF chroot = NoPath THEN path ELSE IF path = <<Slash>> THEN chroot ELSE chroot \o path
=============================================================================
