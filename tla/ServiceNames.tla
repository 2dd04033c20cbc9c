---------------------------- MODULE ServiceNames ----------------------------
(***************************************************************************)
(* The names a process goes by.  The EM calls it by its service name, made *)
(* of the manifest's names; the process works the same name out of its own *)
(* command line when it reports; the start-up poll cuts the process's name *)
(* out of the service name again.  A string is a sequence of characters,   *)
(* a position a size_t that counts from 0 and wraps around.                *)
(***************************************************************************)
EXTENDS Integers, Sequences

CONSTANTS
    Chars,            \* the characters of names and paths
    Word,             \* 2^64, the number of values of a size_t
    Processes         \* the characters of "/processes/"

Slash == "/"
Underscore == "_"
NUL == "NUL"          \* the byte that ends a C string
Blank == " "

ASSUME CharsAssumption == {Slash, Underscore, NUL, Blank} \subseteq Chars
ASSUME WordAssumption == Word \in Nat \ {0, 1}
ASSUME ProcessesAssumption ==
    /\ Processes \in Seq(Chars)
    /\ Len(Processes) > 1
    /\ Processes[1] = Slash
    /\ Processes[Len(Processes)] = Slash

npos == Word - 1
Plus(a, b) == (a + b) % Word
Minus(a, b) == (a - b) % Word

Slashes(s, pos) == {i \in 0 .. Len(s) - 1 : i <= pos /\ s[i + 1] = Slash}

FindLastOf(s, pos) ==
    IF Slashes(s, pos) = {}
    THEN npos
    ELSE CHOOSE i \in Slashes(s, pos) : \A j \in Slashes(s, pos) : j <= i

Substr(s, pos, n) ==
    SubSeq(s, pos + 1, IF n < Len(s) - pos THEN pos + n ELSE Len(s))

getServiceName(app, proc) == app \o <<Underscore>> \o proc

(***************************************************************************)
(* A variant for the mutants: the length of "/processes", without the      *)
(* slash at its end.                                                       *)
(***************************************************************************)
ParseOneTooFew(path) ==
    LET lastPos == FindLastOf(path, npos)
        prevPos == Minus(lastPos, Len(Processes) - 1)
        currPos == FindLastOf(path, prevPos)
    IN  getServiceName(Substr(path, Plus(currPos, 1), Minus(prevPos, currPos)),
                       Substr(path, Plus(lastPos, 1), npos))

parseServiceName(path) ==
    LET lastPos == FindLastOf(path, npos)
        prevPos == Minus(lastPos, Len(Processes))
        currPos == FindLastOf(path, prevPos)
    IN  getServiceName(Substr(path, Plus(currPos, 1), Minus(prevPos, currPos)),
                       Substr(path, Plus(lastPos, 1), npos))

Has(s, c) == \E i \in DOMAIN s : s[i] = c
FindFirstOf(s, c) ==
    CHOOSE i \in DOMAIN s : s[i] = c /\ \A j \in 1 .. i - 1 : s[j] # c

Before(s, c) == IF Has(s, c) THEN SubSeq(s, 1, FindFirstOf(s, c) - 1) ELSE s

\* What a C string function, or the text of a request, keeps of s.
CString(s) == Before(s, NUL)

\* /proc/<pid>/cmdline ends the one argument with a NUL, which >> does not
\* stop at, while it does at a blank; the request's text is a C string again.
ReportedName(binary) == CString(parseServiceName(Before(binary \o <<NUL>>, Blank)))

\* A variant for the mutants: from the last underscore.
AfterLastUnderscore(service) ==
    SubSeq(service, 1 + (CHOOSE i \in 0 .. Len(service) :
                            /\ i = 0 \/ service[i] = Underscore
                            /\ \A j \in i + 1 .. Len(service) : service[j] # Underscore),
           Len(service))

\* The name isActiveProcess gives to pidof: what follows the first
\* underscore, and all of it where there is none (npos + 1 = 0).
PidofName(service) ==
    IF Has(service, Underscore)
    THEN SubSeq(service, FindFirstOf(service, Underscore) + 1, Len(service))
    ELSE service
=============================================================================
