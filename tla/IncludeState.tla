---------------------------- MODULE IncludeState ----------------------------
(***************************************************************************)
(* _IncludeState of src/cpplint.py with the checks that keep it: order,    *)
(* duplicates and missing headers.  A path is the record of its directory, *)
(* the first component of its name, what follows it, and its extension.    *)
(* The first components are atoms: none is the end of another, which       *)
(* filename_cc.endswith(filename_h) would tell apart no better.            *)
(***************************************************************************)
EXTENDS LintLine

CONSTANTS
  CppHeaders,          \* _CPP_HEADERS: paths of the standard C++ headers
  CanonicalRank(_),    \* place of a path in the alphabet, from 1
  Streams              \* names of the stream headers

ASSUME PathAssumption == \A p \in CppHeaders : CanonicalRank(p) \in Nat \ {0}

VARIABLES
  included,    \* the paths included so far; never cleared within a file
  section,     \* _section
  last_header  \* _last_header, as a rank; 0 is the empty string

includeVars == <<included, section, last_header>>

INITIAL_SECTION == 0
MY_H_SECTION == 1
C_SECTION == 2
CPP_SECTION == 3
OTHER_H_SECTION == 4

\* _DropCommonSuffixes, on the parts of a path.
CommonSuffixes(ext) ==
  CASE ext = "cc" -> {"_test", "_regtest", "_unittest"}
    [] ext = "h" -> {"-inl", "_impl", "_internal"}
    [] OTHER -> {}
Base(p) == <<p.stem, IF p.suffix \in CommonSuffixes(p.ext) THEN "" ELSE p.suffix>>

\* The directory next to dir that is named public.
PublicOf(dir) == Append(Front(dir), "public")

\* _ClassifyInclude
LivesWith(file, path) ==
  path.dir = file.dir \/ (file.dir # <<>> /\ path.dir = PublicOf(file.dir))

ClassifyInclude(file, path, sys) ==
  IF sys THEN IF path \in CppHeaders THEN "cpp" ELSE "c"
  ELSE IF Base(path) = Base(file) /\ LivesWith(file, path) THEN "likely"
  ELSE IF path.stem = file.stem THEN "possible"
  ELSE "other"

\* CheckNextIncludeOrder: the section after a header, and whether it is misplaced.
SectionOf(kind, sec) ==
  CASE kind = "c" -> C_SECTION
    [] kind = "cpp" -> CPP_SECTION
    [] kind \in {"likely", "possible"} /\ sec <= MY_H_SECTION -> MY_H_SECTION
    [] OTHER -> OTHER_H_SECTION

Misplaced(kind, sec) == kind \in {"c", "cpp"} /\ sec > SectionOf(kind, sec)

\* The header the next one is compared with: none when the section changes
\* and none after a misplaced one.
ComparedWith(kind) ==
  IF Misplaced(kind, section) \/ SectionOf(kind, section) # section THEN 0 ELSE last_header

\* IsInAlphabeticalOrder; previous is the line before, without comments.
InAlphabeticalOrder(kind, path, previous) ==
  ComparedWith(kind) <= CanonicalRank(path) \/ NoCode(previous)

IsTest(file) == file.ext = "cc" /\ file.suffix \in CommonSuffixes("cc")

\* What CheckIncludeLine reports of the include on a line.
IncludeErrors(file, l, previous, linenum) ==
  LET path == l.arg.path
      kind == ClassifyInclude(file, path, l.arg.sys)
      new == path \notin included
  IN When(~l.arg.sys /\ path.dir = <<>> /\ path.ext = "h", Error(linenum, <<"build", "include">>, 4))
     \o When(~new, Error(linenum, <<"build", "include">>, 4))
     \o When(new /\ Misplaced(kind, section), Error(linenum, <<"build", "include_order">>, 4))
     \o When(new /\ ~InAlphabeticalOrder(kind, path, previous),
             Error(linenum, <<"build", "include_alpha">>, 4))
     \o When(path.stem \in Streams /\ ~IsTest(file), Error(linenum, <<"readability", "streams">>, 3))

IncludeInit == included = {} /\ section = INITIAL_SECTION /\ last_header = 0

IncludeReset == included' = {} /\ section' = INITIAL_SECTION /\ last_header' = 0

\* CheckIncludeLine: a header is placed the first time it is included.
CheckIncludeLine(file, l) ==
  LET path == l.arg.path
      kind == ClassifyInclude(file, path, l.arg.sys)
  IN IF path \in included THEN UNCHANGED includeVars
     ELSE /\ included' = included \union {path}
          /\ section' = IF Misplaced(kind, section) THEN section ELSE SectionOf(kind, section)
          /\ last_header' = CanonicalRank(path)

\* A mutant: the headers are forgotten with the section.
ResetAll == IncludeReset

\* ResetSection
ResetSection ==
  /\ section' = INITIAL_SECTION
  /\ last_header' = 0
  /\ UNCHANGED included

\* The part of CheckLanguage that follows includes and directives.
CheckLanguage(file, l) ==
  \/ l.dir = "include" /\ CheckIncludeLine(file, l)
  \/ l.dir \in {"ifdef", "else", "endif"} /\ ResetSection
  \/ l.dir \notin {"include", "ifdef", "else", "endif"} /\ UNCHANGED includeVars

LanguageErrors(file, l, previous, linenum) ==
  IF l.dir = "include" THEN IncludeErrors(file, l, previous, linenum) ELSE <<>>

\* FilesBelongToSameModule: the directory of the source ends with that of the header.
Without(dir) == SelectSeq(dir, LAMBDA d : d \notin {"public", "internal"})
SameModule(file, path) ==
  /\ file.ext = "cc" /\ path.ext = "h"
  /\ <<file.stem, IF file.suffix \in {"_test", "_unittest"} THEN "" ELSE file.suffix>>
       = <<path.stem, IF path.suffix = "-inl" THEN "" ELSE path.suffix>>
  /\ IsSuffix(Without(path.dir), Without(file.dir))

\* UpdateIncludeState for the headers of the file's own module; disk gives the
\* includes of those that can be read.
OwnHeaders(file, disk) == {p \in included \intersect DOMAIN disk : SameModule(file, p)}

\* CheckForIncludeWhatYouUse
UsesOf(l) == IF NoCode(l) \/ FirstIs(l, {"#"}) THEN {} ELSE l.uses
Required(lines) == UNION {UsesOf(lines[n]) : n \in DOMAIN lines}
UsedAt(lines, path) == Max({n \in DOMAIN lines : path \in UsesOf(lines[n])})

WhatYouUseErrors(file, lines, disk) ==
  LET own == OwnHeaders(file, disk)
      found == included \union UNION {disk[p] : p \in own}
      missing == IF file.ext = "cc" /\ own = {} THEN {} ELSE Required(lines) \ found
  IN FlattenSeq([n \in DOMAIN lines |->
       [k \in 1 .. Cardinality({p \in missing : UsedAt(lines, p) = n}) |->
          Error(n, <<"build", "include_what_you_use">>, 4)]])
=============================================================================
