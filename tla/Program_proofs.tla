--------------------------- MODULE Program_proofs ---------------------------
(***************************************************************************)
(* Proofs about modules Program, ProgramRead, ProgramReleases and their    *)
(* CommandText, for every initial allocation, every set of commands, every *)
(* length, all files and their texts.                                      *)
(***************************************************************************)
EXTENDS ProgramReleases, SequenceTheorems, WellFoundedInduction, TLAPS

(* The invariant: the two checked ones together are inductive.             *)
IInv == TypeOK /\ ListingFits

USE DEF ErrorCodes

(***************************************************************************)
(* A block of a positive size is not the null listing.                     *)
(***************************************************************************)
LEMMA BlockNotNull ==
  ASSUME NEW b, NEW n \in Nat \ {0}, DOMAIN b = 0 .. n - 1
  PROVE  b # NULL
<1>1. 0 \in DOMAIN b
  OBVIOUS
<1>2. DOMAIN NULL = {}
  BY DEF NULL
<1> QED
  BY <1>1, <1>2

(***************************************************************************)
(* program_init sets the fields up, whether or not calloc succeeds.        *)
(***************************************************************************)
LEMMA InitInv == Init => IInv
<1> SUFFICES ASSUME Init PROVE IInv
  OBVIOUS
<1>1. TypeOK
  BY StartAssumption DEF Init, Initialized, TypeOK
<1>2. CASE listing = NULL
  BY <1>1, <1>2 DEF Init, Initialized, IInv, ListingFits
<1>3. CASE listing = EmptyBlock
  <2>1. DOMAIN listing = 0 .. allocated - 1 /\ allocated \in Nat \ {0}
    BY <1>3, StartAssumption DEF Init, Initialized, EmptyBlock
  <2>2. nb_lines = 0
    BY DEF Init, Initialized
  <2> QED
    BY <1>1, <2>1, <2>2, StartAssumption DEF IInv, ListingFits
<1> QED
  BY <1>2, <1>3 DEF Init, Initialized

(***************************************************************************)
(* A resize to a positive size that the lines fit in keeps the lines.      *)
(***************************************************************************)
LEMMA ResizeFits ==
  ASSUME IInv, NEW size \in Nat \ {0}, nb_lines <= size, resize_succeeds(size)
  PROVE  /\ ListingFits'
         /\ \A i \in 0 .. nb_lines - 1 : listing'[i] = listing[i]
         /\ listing' # NULL
         /\ allocated' \in Nat
<1>1. /\ listing # NULL /\ listing' = Resized(listing, size)
      /\ allocated' = size /\ nb_lines' = nb_lines
  BY DEF resize_succeeds
<1>2. DOMAIN listing' = 0 .. size - 1
  BY <1>1 DEF Resized
<1>3. listing' # NULL
  BY <1>2, BlockNotNull
<1>4. nb_lines \in Nat /\ allocated \in Nat
  BY DEF IInv, TypeOK
<1>5. ASSUME NEW i \in 0 .. nb_lines - 1
      PROVE  listing'[i] = listing[i] /\ listing[i] \in Commands
  <2>1. i \in DOMAIN listing /\ i \in 0 .. size - 1
    BY <1>1, <1>4 DEF IInv, ListingFits
  <2> QED
    BY <2>1, <1>1 DEF IInv, ListingFits, Resized
<1> QED
  BY <1>1, <1>2, <1>3, <1>4, <1>5 DEF ListingFits

(***************************************************************************)
(* Every step of a call preserves the invariant.                           *)
(***************************************************************************)
LEMMA NextInv == IInv /\ [Next]_vars => IInv'
<1> SUFFICES ASSUME IInv, [Next]_vars PROVE IInv'
  OBVIOUS
<1> USE DEF IInv
<1>1. CASE program_init
  <2>1. TypeOK'
    BY <1>1, StartAssumption DEF program_init, TypeOK
  <2>2. CASE listing' = NULL
    BY <1>1, <2>1, <2>2 DEF program_init, ListingFits
  <2>3. CASE listing' = EmptyBlock
    <3>1. DOMAIN listing' = 0 .. allocated' - 1 /\ allocated' \in Nat \ {0}
      BY <1>1, <2>3, StartAssumption DEF program_init, EmptyBlock
    <3> QED
      BY <1>1, <2>1, <3>1 DEF program_init, ListingFits
  <2> QED
    BY <1>1, <2>2, <2>3 DEF program_init
<1>2. CASE program_free
  BY <1>2 DEF program_free, TypeOK, ListingFits
<1>3. ASSUME NEW c \in Commands, AddRefused(c)
      PROVE  IInv'
  BY <1>3 DEF AddRefused, TypeOK, ListingFits
<1>4. ASSUME NEW c \in Commands, AddBegins(c)
      PROVE  IInv'
  BY <1>4 DEF AddBegins, TypeOK, ListingFits
<1>5. CASE AddGrows
  <2>1. /\ op = "adding" /\ op' = op /\ command' = command /\ err' = err
        /\ nb_lines' = nb_lines /\ resize_succeeds(2 * allocated)
    BY <1>5 DEF AddGrows, NeedsRoom, resize_succeeds
  <2>2. 2 * allocated \in Nat \ {0} /\ nb_lines <= 2 * allocated
    BY <2>1 DEF TypeOK, ListingFits, resize_succeeds
  <2>3. ListingFits' /\ listing' # NULL /\ allocated' \in Nat
    BY <2>1, <2>2, ResizeFits
  <2> QED
    BY <2>1, <2>3 DEF TypeOK
<1>6. CASE AddFails
  BY <1>6 DEF AddFails, NeedsRoom, resize_fails, Returns, TypeOK, ListingFits
<1>7. CASE AddStores
  <2>1. /\ op = "adding" /\ nb_lines < allocated /\ listing # NULL
        /\ command \in Commands
        /\ DOMAIN listing = 0 .. allocated - 1
        /\ nb_lines \in Nat /\ allocated \in Nat
    BY <1>7 DEF AddStores, NeedsRoom, TypeOK, ListingFits
  <2>2. /\ listing' = Stored(listing, nb_lines, command)
        /\ nb_lines' = nb_lines + 1 /\ allocated' = allocated
        /\ op' = "idle" /\ err' = "ERR_NONE" /\ command' = Unwritten
    BY <1>7 DEF AddStores, Returns
  <2>3. DOMAIN listing' = 0 .. allocated' - 1
    BY <2>1, <2>2 DEF Stored
  <2>4. ASSUME NEW i \in 0 .. nb_lines' - 1
        PROVE  listing'[i] \in Commands
    <3>1. i \in DOMAIN listing
      BY <2>1, <2>2
    <3>2. i # nb_lines => listing[i] \in Commands
      BY <2>1, <2>2 DEF ListingFits
    <3> QED
      BY <2>1, <2>2, <3>1, <3>2 DEF Stored
  <2>5. TypeOK'
    BY <2>1, <2>2 DEF TypeOK
  <2>6. ListingFits'
    <3>1. allocated' \in Nat \ {0} /\ nb_lines' <= allocated'
      BY <2>1, <2>2
    <3>2. listing' # NULL
      BY <2>3, <3>1, BlockNotNull
    <3>3. \A i \in 0 .. nb_lines' - 1 : listing'[i] \in Commands
      BY <2>4
    <3>4. allocated' > 0
      BY <3>1
    <3> QED
      BY <2>3, <3>1, <3>2, <3>3, <3>4, Zenon DEF ListingFits
  <2> QED
    BY <2>5, <2>6
<1>8. CASE ShrinkBegins
  BY <1>8 DEF ShrinkBegins, TypeOK, ListingFits
<1>9. CASE ShrinkResizes
  <2>1. /\ op = "shrinking" /\ op' \in {"shrinking", "idle"} /\ command' = command
        /\ err' \in {err, "ERR_NONE"}
        /\ nb_lines' = nb_lines /\ resize_succeeds(ShrinkSize)
    BY <1>9 DEF ShrinkResizes, MustShrink, resize_succeeds, Returns
  <2>2. ShrinkSize \in Nat \ {0} /\ nb_lines <= ShrinkSize
    BY StartAssumption DEF ShrinkSize, TypeOK
  <2>3. ListingFits' /\ listing' # NULL /\ allocated' \in Nat
    BY <2>1, <2>2, ResizeFits
  <2> QED
    BY <2>1, <2>3 DEF TypeOK
<1>10. CASE ShrinkRefused
  BY <1>10 DEF ShrinkRefused, Returns, TypeOK, ListingFits
<1>11. CASE ShrinkFails
  BY <1>11 DEF ShrinkFails, resize_fails, Returns, TypeOK, ListingFits
<1>12. CASE ShrinkEnds
  BY <1>12 DEF ShrinkEnds, Returns, TypeOK, ListingFits
<1>13. CASE UNCHANGED vars
  BY <1>13 DEF vars, TypeOK, ListingFits
<1> QED
  BY <1>1, <1>2, <1>3, <1>4, <1>5, <1>6, <1>7, <1>8, <1>9, <1>10, <1>11,
     <1>12, <1>13 DEF Next

LEMMA IInvAlways == Spec => []IInv
<1> QED
  BY InitInv, NextInv, PTL DEF Spec

(***************************************************************************)
(* The fields of a program_t and the call in progress keep their types.    *)
(***************************************************************************)
THEOREM TypeCorrect == Spec => []TypeOK
<1>1. IInv => TypeOK
  BY DEF IInv
<1> QED
  BY <1>1, IInvAlways, PTL

(***************************************************************************)
(* The lines of a program fit in its listing, whose real size is allocated *)
(* and never 0, after any mix of calls and failed reallocations.           *)
(***************************************************************************)
THEOREM LinesFit == Spec => []ListingFits
<1>1. IInv => ListingFits
  BY DEF IInv
<1> QED
  BY <1>1, IInvAlways, PTL

-----------------------------------------------------------------------------
(***************************************************************************)
(* The program as an abstract list of commands.                            *)
(***************************************************************************)
LEMMA NoLines == nb_lines = 0 => Lines = << >>
  BY DEF Lines

LEMMA LinesKept ==
  ASSUME nb_lines' = nb_lines,
         \A i \in 0 .. nb_lines - 1 : listing'[i] = listing[i],
         nb_lines \in Nat
  PROVE  Lines' = Lines
<1>1. ASSUME NEW i \in 1 .. nb_lines PROVE listing'[i - 1] = listing[i - 1]
  OBVIOUS
<1> QED
  BY <1>1 DEF Lines

LEMMA LinesTyped == IInv => Lines \in Seq(Commands) /\ Len(Lines) = nb_lines
<1> SUFFICES ASSUME IInv PROVE Lines \in Seq(Commands) /\ Len(Lines) = nb_lines
  OBVIOUS
<1>1. nb_lines \in Nat /\ \A i \in 0 .. nb_lines - 1 : listing[i] \in Commands
  BY DEF IInv, TypeOK, ListingFits
<1>2. Lines \in [1 .. nb_lines -> Commands]
  BY <1>1 DEF Lines
<1> QED
  BY <1>1, <1>2

(* No growth and no shrink changes a line.                                 *)
LEMMA LinesUnchanged ==
  ASSUME IInv, AddGrows \/ ShrinkResizes \/ UNCHANGED << listing, nb_lines >>
  PROVE  Lines' = Lines
<1>1. nb_lines \in Nat
  BY DEF IInv, TypeOK
<1>2. ASSUME NEW size \in Nat \ {0}, nb_lines <= size, resize_succeeds(size)
      PROVE  Lines' = Lines
  BY <1>1, <1>2, ResizeFits, LinesKept DEF resize_succeeds
<1>3. CASE AddGrows
  <2>1. 2 * allocated \in Nat \ {0} /\ nb_lines <= 2 * allocated
    BY <1>3 DEF AddGrows, resize_succeeds, IInv, TypeOK, ListingFits
  <2> QED
    BY <1>2, <1>3, <2>1 DEF AddGrows
<1>4. CASE ShrinkResizes
  <2>1. ShrinkSize \in Nat \ {0} /\ nb_lines <= ShrinkSize
    BY <1>1, StartAssumption DEF ShrinkSize
  <2> QED
    BY <1>2, <1>4, <2>1 DEF ShrinkResizes
<1>5. CASE UNCHANGED << listing, nb_lines >>
  BY <1>5 DEF Lines
<1> QED
  BY <1>3, <1>4, <1>5

LEMMA LinesAppended ==
  ASSUME IInv, AddStores
  PROVE  Lines' = Append(Lines, command)
<1>1. /\ nb_lines \in Nat /\ nb_lines' = nb_lines + 1
      /\ DOMAIN listing = 0 .. allocated - 1 /\ allocated \in Nat
      /\ nb_lines < allocated
      /\ listing' = Stored(listing, nb_lines, command)
      /\ \A i \in 0 .. nb_lines - 1 : listing[i] \in Commands
  BY DEF AddStores, NeedsRoom, IInv, TypeOK, ListingFits
<1>2. Lines \in Seq(Commands) /\ Len(Lines) = nb_lines
  BY LinesTyped
<1>3. ASSUME NEW i \in 1 .. nb_lines + 1
      PROVE  listing'[i - 1] = IF i = nb_lines + 1 THEN command ELSE Lines[i]
  <2>1. i - 1 \in DOMAIN listing
    BY <1>1
  <2> QED
    BY <1>1, <2>1 DEF Stored, Lines
<1>4. Lines' = [i \in 1 .. nb_lines + 1 |-> listing'[i - 1]]
  BY <1>1 DEF Lines
<1>5. Append(Lines, command) =
        [i \in 1 .. nb_lines + 1 |-> IF i = nb_lines + 1 THEN command ELSE Lines[i]]
  <2> DEFINE A == Append(Lines, command)
  <2>1. command \in Commands
    BY DEF AddStores, IInv, TypeOK
  <2>2. /\ A \in Seq(Commands) /\ Len(A) = nb_lines + 1
        /\ \A i \in 1 .. nb_lines : A[i] = Lines[i]
        /\ A[nb_lines + 1] = command
    BY <1>1, <1>2, <2>1, AppendProperties
  <2>3. A = [i \in 1 .. nb_lines + 1 |-> A[i]]
    <3> HIDE DEF A
    <3> QED
      BY <1>1, <2>2
  <2> QED
    BY <1>1, <2>2, <2>3
<1> QED
  BY <1>3, <1>4, <1>5

(***************************************************************************)
(* Every step of a call is an addition, a clearing or no change of the     *)
(* abstract list.                                                          *)
(***************************************************************************)
LEMMA StepSimulation == IInv /\ IInv' /\ [Next]_vars => [List!Next]_<< Lines, err >>
<1> SUFFICES ASSUME IInv, IInv', [Next]_vars PROVE [List!Next]_<< Lines, err >>
  OBVIOUS
<1>1. /\ nb_lines \in Nat
      /\ err' \in ErrorCodes
  BY DEF IInv, TypeOK
<1>2. ASSUME nb_lines' = 0 PROVE List!Clear
  BY <1>1, <1>2, NoLines DEF List!Clear, Lines
<1>3. ASSUME Lines' = Lines PROVE List!Next
  BY <1>1, <1>3 DEF List!Next, List!Unchanged
<1>4. CASE AddStores
  <2>1. command \in Commands /\ err' = "ERR_NONE"
    BY <1>4 DEF AddStores, Returns, IInv, TypeOK
  <2> QED
    BY <1>4, <2>1, LinesAppended DEF List!Next, List!Add, List!NoError
<1>5. CASE AddGrows \/ ShrinkResizes
  BY <1>3, <1>5, LinesUnchanged
<1>6. CASE program_init \/ program_free
  BY <1>2, <1>6 DEF program_init, program_free, List!Next
<1>7. CASE \/ \E c \in Commands : AddRefused(c) \/ AddBegins(c)
           \/ AddFails \/ ShrinkBegins \/ ShrinkRefused \/ ShrinkFails \/ ShrinkEnds
  <2>1. UNCHANGED << listing, nb_lines >>
    BY <1>7 DEF AddRefused, AddBegins, AddFails, resize_fails, ShrinkBegins,
                ShrinkRefused, ShrinkFails, ShrinkEnds
  <2> QED
    BY <1>3, <2>1, LinesUnchanged
<1>8. CASE UNCHANGED vars
  BY <1>8 DEF vars, Lines
<1> QED
  BY <1>4, <1>5, <1>6, <1>7, <1>8 DEF Next

(***************************************************************************)
(* An addition that reports success has appended its command.              *)
(***************************************************************************)
LEMMA AddAppends ==
  IInv /\ [Next]_vars =>
    [op = "adding" /\ op' = "idle" /\ err' = "ERR_NONE" =>
       Lines' = Append(Lines, command)]_vars
<1> SUFFICES ASSUME IInv, Next, op = "adding", op' = "idle", err' = "ERR_NONE"
             PROVE  Lines' = Append(Lines, command)
  OBVIOUS
<1>1. AddStores
  BY DEF Next, program_init, program_free, AddRefused, AddBegins, AddGrows,
         AddFails, Returns, ShrinkBegins, ShrinkResizes, ShrinkRefused,
         ShrinkFails, ShrinkEnds, MustShrink
<1> QED
  BY <1>1, LinesAppended

(***************************************************************************)
(* A program is a list of commands: every behaviour of the calls is one of *)
(* the abstract list, and a successful addition appends its command.       *)
(***************************************************************************)
THEOREM ProgramIsCommandList == Spec => IsCommandList
<1>1. Init => List!Init
  BY NoLines DEF Init, Initialized, List!Init
<1> QED
  BY <1>1, IInvAlways, StepSimulation, AddAppends, PTL
     DEF Spec, IsCommandList, List!Spec

-----------------------------------------------------------------------------
(***************************************************************************)
(* program_read.  The invariant adds to that of the program that the lines *)
(* read, the one being added and the rest are the file, and that nothing   *)
(* is left of it when the program is shrunk.                               *)
(***************************************************************************)
FileLine == Commands \cup {Malformed}

ReadInv ==
  /\ IInv
  /\ reader \in {"none", "reading", "shrinking"}
  /\ rest \in Seq(FileLine)
  /\ reader = "shrinking" => rest = << >>
  /\ NothingSkipped

(* What a step of a read does to the program: what a call of the program   *)
(* does, or nothing but an error code.                                     *)
LEMMA ReadActsOnProgram ==
  ASSUME rest \in Seq(FileLine), [ReadNext]_rvars
  PROVE  [Next]_vars \/ (ProgramKept /\ err' \in ErrorCodes)
<1>1. CASE CannotOpen \/ ReadsMalformed \/ ReadFailsInLine \/ ReadFailsBeforeLine
  BY <1>1 DEF CannotOpen, ReadsMalformed, ReadFailsInLine, ReadFailsBeforeLine
<1>2. CASE \E f \in Files : Opens(f)
  BY <1>2 DEF Opens, Next
<1>3. CASE ReadsRefused \/ ReadsCommand
  <2>1. Head(rest) \in Commands
    <3>1. rest # << >> /\ Head(rest) # Malformed
      BY <1>3 DEF ReadsRefused, ReadsCommand
    <3> QED
      BY <3>1, HeadTailProperties DEF FileLine
  <2>2. AddRefused(Head(rest)) \/ AddBegins(Head(rest))
    BY <1>3 DEF ReadsRefused, ReadsCommand
  <2> QED
    BY <2>1, <2>2, Zenon DEF Next
<1>4. CASE Adds \/ CannotAdd \/ ReachesEnd \/ Shrinks(ShrinkProceeds) \/ Shrinks(ShrinkFails)
  BY <1>4 DEF Adds, CannotAdd, ReachesEnd, Shrinks, ShrinkProceeds, Next
<1>5. CASE Uses(Next)
  BY <1>5 DEF Uses
<1>6. CASE UNCHANGED rvars
  BY <1>6 DEF rvars
<1> QED
  BY <1>1, <1>2, <1>3, <1>4, <1>5, <1>6 DEF ReadNext

LEMMA ReadInitInv == ReadInit => ReadInv
<1> SUFFICES ASSUME ReadInit PROVE ReadInv
  OBVIOUS
<1>1. IInv
  BY DEF ReadInit, IInv, TypeOK, ListingFits
<1> QED
  BY <1>1 DEF ReadInit, ReadInv, NothingSkipped

(* One line moves from the file to the call that adds it, and from there   *)
(* to the program.                                                         *)
LEMMA LineMoves ==
  ASSUME ReadInv, reader # "none"
  PROVE  /\ op # "adding" /\ rest # << >> =>
              Lines \o << Head(rest) >> \o Tail(rest) = file
         /\ op = "adding" => Append(Lines, command) \o << >> \o rest = file
<1>1. /\ Lines \in Seq(FileLine) /\ rest \in Seq(FileLine)
      /\ Lines \o Pending \o rest = file
  <2>1. Lines \in Seq(Commands)
    BY LinesTyped DEF ReadInv
  <2> QED
    BY <2>1, SeqMonotonic DEF ReadInv, NothingSkipped, FileLine
<1>2. CASE op # "adding" /\ rest # << >>
  <2>1. Lines \o << >> \o rest = file
    BY <1>1, <1>2 DEF Pending
  <2>2. Lines \o << >> = Lines
    BY <1>1, ConcatEmptySeq
  <2>3. << Head(rest) >> \in Seq(FileLine) /\ Tail(rest) \in Seq(FileLine)
    BY <1>1, <1>2, HeadTailProperties
  <2>4. << Head(rest) >> \o Tail(rest) = rest
    BY <1>1, <1>2
  <2>5. Lines \o << Head(rest) >> \o Tail(rest) = Lines \o (<< Head(rest) >> \o Tail(rest))
    BY <1>1, <2>3, ConcatAssociative
  <2> QED
    BY <1>2, <2>1, <2>2, <2>4, <2>5
<1>3. CASE op = "adding"
  <2>1. command \in FileLine
    BY <1>3 DEF ReadInv, IInv, TypeOK, FileLine
  <2>2. Append(Lines, command) = Lines \o << command >>
    BY <1>1, <2>1, AppendIsConcat
  <2>3. Append(Lines, command) \o << >> = Append(Lines, command)
    BY <1>1, <2>1, AppendProperties, ConcatEmptySeq
  <2> QED
    BY <1>1, <1>3, <2>2, <2>3 DEF Pending
<1> QED
  BY <1>2, <1>3

LEMMA ReadNextInv == ReadInv /\ [ReadNext]_rvars => ReadInv'
<1> SUFFICES ASSUME ReadInv, [ReadNext]_rvars PROVE ReadInv'
  OBVIOUS
<1>1. IInv /\ rest \in Seq(FileLine)
  BY DEF ReadInv
<1>2. IInv'
  <2>1. CASE [Next]_vars
    BY <1>1, <2>1, NextInv
  <2>2. CASE ProgramKept /\ err' \in ErrorCodes
    BY <1>1, <2>2 DEF ProgramKept, IInv, TypeOK, ListingFits
  <2> QED
    BY <1>1, <2>1, <2>2, ReadActsOnProgram
<1>3. CASE \/ CannotOpen \/ ReadsMalformed \/ ReadFailsInLine \/ ReadsRefused
           \/ CannotAdd \/ ReadFailsBeforeLine
  <2>1. rest' \in {rest, << >>} /\ reader' = "none"
    BY <1>3 DEF CannotOpen, Calls, stream, ReadsMalformed, ReadFailsInLine,
                ReadsRefused, CannotAdd, ReadFailsBeforeLine, Abandons
  <2>2. rest' \in Seq(FileLine)
    BY <1>1, <2>1, EmptySeq
  <2> QED
    BY <1>2, <2>1, <2>2 DEF ReadInv, NothingSkipped
<1>4. ASSUME NEW f \in Files, Opens(f) PROVE ReadInv'
  <2>1. CASE err' = "ERR_NONE"
    <3>1. reader' = "reading" /\ file' = f /\ rest' = f /\ nb_lines' = 0 /\ op' = "idle"
      BY <1>4, <2>1 DEF Opens, Calls, program_init
    <3>2. Lines' = << >> /\ Pending' = << >>
      BY <3>1, NoLines DEF Lines, Pending
    <3>3. f \in Seq(FileLine)
      BY FilesAssumption DEF FileLine
    <3>4. << >> \o << >> \o f = f
      BY <3>3, ConcatEmptySeq, EmptySeq
    <3> QED
      BY <1>2, <3>1, <3>2, <3>3, <3>4 DEF ReadInv, NothingSkipped
  <2>2. CASE err' # "ERR_NONE"
    <3>1. reader' = "none" /\ rest' = rest
      BY <1>4, <2>2 DEF Opens, Calls
    <3> QED
      BY <1>1, <1>2, <3>1 DEF ReadInv, NothingSkipped
  <2> QED
    BY <2>1, <2>2
<1>5. CASE ReadsCommand
  <2>1. /\ reader = "reading" /\ reader' = "reading" /\ op = "idle" /\ op' = "adding"
        /\ rest # << >> /\ rest' = Tail(rest) /\ file' = file /\ command' = Head(rest)
        /\ UNCHANGED << listing, nb_lines >>
    BY <1>5 DEF ReadsCommand, Loops, AddBegins
  <2>2. Lines' = Lines /\ Pending' = << Head(rest) >>
    BY <1>1, <2>1, LinesUnchanged DEF Pending
  <2>3. Lines' \o Pending' \o rest' = file'
    BY <2>1, <2>2, LineMoves
  <2>4. rest' \in Seq(FileLine)
    BY <1>1, <2>1, HeadTailProperties
  <2> QED
    BY <1>2, <2>1, <2>3, <2>4 DEF ReadInv, NothingSkipped
<1>6. CASE Adds /\ AddStores
  <2>1. /\ reader = "reading" /\ reader' = "reading" /\ op = "adding" /\ op' = "idle"
        /\ rest' = rest /\ file' = file
    BY <1>6 DEF Adds, stream, AddStores, Returns
  <2>2. Lines' = Append(Lines, command) /\ Pending' = << >>
    BY <1>1, <1>6, <2>1, LinesAppended DEF Pending
  <2>3. Lines' \o Pending' \o rest' = file'
    BY <2>1, <2>2, LineMoves
  <2> QED
    BY <1>1, <1>2, <2>1, <2>3 DEF ReadInv, NothingSkipped
<1>7. ASSUME reader # "none",
             Lines' = Lines, Pending' = Pending, rest' = rest, file' = file,
             reader' = reader \/ (reader' = "shrinking" /\ rest = << >>)
      PROVE  ReadInv'
  <2>1. Lines \o Pending \o rest = file
    BY <1>7 DEF ReadInv, NothingSkipped
  <2>2. NothingSkipped'
    BY <1>7, <2>1, Zenon DEF NothingSkipped
  <2>3. /\ reader' \in {"none", "reading", "shrinking"}
        /\ rest' \in Seq(FileLine)
        /\ reader' = "shrinking" => rest' = << >>
    BY <1>7 DEF ReadInv
  <2> QED
    BY <1>2, <2>2, <2>3, Zenon DEF ReadInv
<1>8. CASE Adds /\ AddGrows
  BY <1>1, <1>7, <1>8, LinesUnchanged DEF Adds, AddGrows, stream, Pending
<1>9. CASE ReachesEnd
  BY <1>1, <1>7, <1>9, LinesUnchanged DEF ReachesEnd, Loops, ShrinkBegins, Pending
<1>10. CASE Shrinks(ShrinkProceeds) \/ Shrinks(ShrinkFails)
  <2>1. /\ reader = "shrinking" /\ rest' = rest /\ reader' \in {"none", reader}
        /\ reader' = reader => file' = file
    BY <1>10 DEF Shrinks
  <2>2. CASE reader' = "none"
    BY <1>1, <1>2, <2>1, <2>2 DEF ReadInv, NothingSkipped
  <2>3. CASE reader' = reader
    <3>1. op = "shrinking" /\ op' = "shrinking"
      BY <1>10, <2>1, <2>3 DEF Shrinks, ShrinkProceeds, ShrinkResizes, ShrinkRefused,
                               ShrinkEnds, ShrinkFails, MustShrink, Returns
    <3>2. ShrinkResizes
      BY <1>10, <3>1 DEF Shrinks, ShrinkProceeds, ShrinkRefused, ShrinkEnds,
                         ShrinkFails, Returns
    <3>3. Lines' = Lines
      BY <1>1, <3>2, LinesUnchanged
    <3> QED
      BY <1>7, <2>1, <2>3, <3>1, <3>3 DEF Pending
  <2> QED
    BY <2>1, <2>2, <2>3
<1>11. CASE Uses(Next)
  BY <1>1, <1>2, <1>11 DEF Uses, stream, ReadInv, NothingSkipped
<1>12. CASE UNCHANGED rvars
  BY <1>12 DEF rvars, vars, stream, ReadInv, NothingSkipped, Pending, Lines,
               IInv, TypeOK, ListingFits
<1> QED
  BY <1>3, <1>4, <1>5, <1>6, <1>8, <1>9, <1>10, <1>11, <1>12 DEF ReadNext, Adds

(***************************************************************************)
(* While program_read runs, the lines of the program, the one being added  *)
(* and the rest of the file are the file, for every file and whatever is   *)
(* grown or fails in between.                                              *)
(***************************************************************************)
THEOREM NoLineSkipped == ReadSpec => []NothingSkipped
<1>1. ReadInv => NothingSkipped
  BY DEF ReadInv
<1> QED
  BY <1>1, ReadInitInv, ReadNextInv, PTL DEF ReadSpec

(***************************************************************************)
(* The stream is closed by every return but the one after a failed fgetc.  *)
(***************************************************************************)
THEOREM StreamClosed == ReadSpec => []ClosesFile
<1>1. ReadInit => ClosesFile
  BY DEF ReadInit, ClosesFile
<1>2. ClosesFile /\ [ReadNext]_rvars => ClosesFile'
  <2> SUFFICES ASSUME ClosesFile, [ReadNext]_rvars PROVE ClosesFile'
    OBVIOUS
  <2>1. ASSUME NEW f \in Files, Opens(f) PROVE ClosesFile'
    BY <2>1 DEF Opens, ClosesFile
  <2> QED
    BY <2>1 DEF ReadNext, CannotOpen, ReadsMalformed, ReadFailsInLine, ReadsRefused,
                ReadsCommand, Adds, CannotAdd, ReadFailsBeforeLine, ReachesEnd,
                Shrinks, Uses, Abandons, Loops, Calls, stream, rvars, ClosesFile
<1> QED
  BY <1>1, <1>2, PTL DEF ReadSpec

(* A part of the file has been read, and all of it when nothing is left.   *)
LEMMA LinesArePrefix ==
  ASSUME ReadInv, reader # "none"
  PROVE  /\ Lines = SubSeq(file, 1, nb_lines)
         /\ rest = << >> /\ op # "adding" => file = Lines
<1>1. /\ Lines \in Seq(FileLine) /\ Pending \in Seq(FileLine) /\ rest \in Seq(FileLine)
      /\ Len(Lines) = nb_lines /\ nb_lines \in Nat
  <2>1. Lines \in Seq(Commands) /\ Len(Lines) = nb_lines
    BY LinesTyped DEF ReadInv
  <2>2. op = "adding" => command \in FileLine
    BY DEF ReadInv, IInv, TypeOK, FileLine
  <2>3. Pending \in Seq(FileLine)
    BY <2>2 DEF Pending
  <2> QED
    BY <2>1, <2>3, SeqMonotonic DEF ReadInv, IInv, TypeOK, FileLine
<1> DEFINE left == Pending \o rest
<1>2. left \in Seq(FileLine) /\ file = Lines \o left
  <2>1. (Lines \o Pending) \o rest = file
    BY DEF ReadInv, NothingSkipped
  <2>2. (Lines \o Pending) \o rest = Lines \o left
    BY <1>1, ConcatAssociative
  <2>3. left \in Seq(FileLine)
    BY <1>1, ConcatProperties
  <2> QED
    BY <2>1, <2>2, <2>3
<1>3. Lines = SubSeq(file, 1, nb_lines)
  <2> HIDE DEF left
  <2>1. CASE nb_lines = 0
    <3>1. Lines = << >>
      BY <2>1, NoLines
    <3> QED
      BY <2>1, <3>1, SubSeqEmpty
  <2>2. CASE nb_lines # 0
    <3>1. SubSeq(Lines \o left, 1, nb_lines) = SubSeq(Lines, 1, nb_lines)
      BY <1>1, <1>2, <2>2, SubSeqOfConcat1
    <3> QED
      BY <1>1, <1>2, <3>1, SubSeqFull
  <2> QED
    BY <2>1, <2>2
<1>4. ASSUME rest = << >>, op # "adding" PROVE file = Lines
  <2>1. left = << >>
    BY <1>1, <1>4, ConcatEmptySeq DEF Pending
  <2> HIDE DEF left
  <2> QED
    BY <1>1, <1>2, <2>1, ConcatEmptySeq
<1> QED
  BY <1>3, <1>4

LEMMA ReadReturns ==
  ASSUME ReadInv, ReadInv', [ReadNext]_rvars, reader # "none", reader' = "none"
  PROVE  IF err' = "ERR_NONE"
         THEN /\ Lines' = file
              /\ allocated' = IF file = << >> THEN START_COMMANDS_ALLOCATED
                              ELSE Len(file)
         ELSE Lines' = SubSeq(file, 1, nb_lines')
<1>1. /\ IInv /\ Lines = SubSeq(file, 1, nb_lines)
      /\ Len(Lines) = nb_lines /\ nb_lines \in Nat
  BY LinesArePrefix, LinesTyped DEF ReadInv, IInv, TypeOK
<1>2. ASSUME err' # "ERR_NONE", UNCHANGED << listing, nb_lines >>
      PROVE  Lines' = SubSeq(file, 1, nb_lines')
  BY <1>1, <1>2, LinesUnchanged
<1>3. CASE ReadsMalformed \/ ReadFailsInLine \/ ReadsRefused \/ CannotAdd \/ ReadFailsBeforeLine
  <2>1. err' # "ERR_NONE" /\ UNCHANGED << listing, nb_lines >>
    BY <1>3 DEF ReadsMalformed, ReadFailsInLine, ReadsRefused, CannotAdd,
                ReadFailsBeforeLine, ProgramKept, AddRefused, AddFails,
                resize_fails, Returns
  <2> QED
    BY <1>2, <2>1
<1>4. CASE Shrinks(ShrinkProceeds) \/ Shrinks(ShrinkFails)
  <2>1. reader = "shrinking" /\ op = "shrinking" /\ op' = "idle"
    BY <1>4 DEF Shrinks, ShrinkProceeds, ShrinkResizes, ShrinkRefused, ShrinkEnds,
                ShrinkFails, MustShrink
  <2>2. file = Lines
    BY <2>1, LinesArePrefix DEF ReadInv
  <2>3. CASE ShrinkRefused \/ ShrinkFails
    <3>1. err' # "ERR_NONE" /\ UNCHANGED << listing, nb_lines >>
      BY <2>3 DEF ShrinkRefused, ShrinkFails, resize_fails, Returns
    <3> QED
      BY <1>2, <3>1
  <2>4. CASE ShrinkResizes
    <3>1. nb_lines = 0
      BY <1>1, <2>1, <2>4 DEF ShrinkResizes
    <3>2. err' = "ERR_NONE" /\ allocated' = START_COMMANDS_ALLOCATED
      BY <2>4, <3>1 DEF ShrinkResizes, ShrinkSize, resize_succeeds, Returns
    <3>3. Lines' = Lines
      BY <1>1, <2>4, LinesUnchanged
    <3> QED
      BY <2>2, <3>1, <3>2, <3>3, NoLines
  <2>5. CASE ShrinkEnds
    <3>1. /\ err' = "ERR_NONE" /\ UNCHANGED << listing, nb_lines, allocated >>
          /\ nb_lines # 0 /\ ~ (allocated > nb_lines)
      BY <2>5 DEF ShrinkEnds, MustShrink, Returns
    <3>2. allocated = nb_lines
      BY <1>1, <3>1 DEF IInv, TypeOK, ListingFits
    <3>3. Lines' = Lines
      BY <1>1, <3>1, LinesUnchanged
    <3>4. Lines # << >>
      BY <1>1, <3>1
    <3> QED
      BY <1>1, <2>2, <3>1, <3>2, <3>3, <3>4
  <2> QED
    BY <1>4, <2>3, <2>4, <2>5 DEF Shrinks, ShrinkProceeds
<1>5. CASE \/ CannotOpen \/ ReadsCommand \/ Adds \/ ReachesEnd \/ Uses(Next)
           \/ \E f \in Files : Opens(f)
           \/ UNCHANGED rvars
  BY <1>5 DEF CannotOpen, Opens, Calls, ReadsCommand, Adds, Loops, ReachesEnd, Uses,
              stream, rvars
<1> QED
  BY <1>3, <1>4, <1>5, Zenon DEF ReadNext

(***************************************************************************)
(* A read that succeeds has read the whole file into a listing of exactly  *)
(* its length; one that fails leaves the commands before the failure.      *)
(***************************************************************************)
THEOREM FileIsRead == ReadSpec => ReadsTheFile
<1> DEFINE Step == reader # "none" /\ reader' = "none" =>
                     IF err' = "ERR_NONE"
                     THEN /\ Lines' = file
                          /\ allocated' = IF file = << >>
                                          THEN START_COMMANDS_ALLOCATED
                                          ELSE Len(file)
                     ELSE Lines' = SubSeq(file, 1, nb_lines')
<1>1. ReadInv /\ ReadInv' /\ [ReadNext]_rvars => Step
  BY ReadReturns
<1> QED
  BY <1>1, ReadInitInv, ReadNextInv, PTL DEF ReadSpec, ReadsTheFile

(***************************************************************************)
(* With program_read among the calls, too, the listing holds its lines and *)
(* the program is a list of commands.                                      *)
(***************************************************************************)
THEOREM ReadKeepsListing == ReadSpec => [](TypeOK /\ ListingFits)
<1>1. ReadInv => TypeOK /\ ListingFits
  BY DEF ReadInv, IInv
<1> QED
  BY <1>1, ReadInitInv, ReadNextInv, PTL DEF ReadSpec

(* Reading a file is a sequence of additions and of one cut to the lines    *)
(* that are there: through program_read too the array is an abstract list. *)
THEOREM ReadIsCommandList == ReadSpec => IsCommandList
<1>1. ReadInit => List!Init
  BY NoLines DEF ReadInit, List!Init
<1>2. ReadInv /\ ReadInv' /\ [ReadNext]_rvars =>
        /\ [List!Next]_<< Lines, err >>
        /\ [op = "adding" /\ op' = "idle" /\ err' = "ERR_NONE" =>
              Lines' = Append(Lines, command)]_vars
  <2> SUFFICES ASSUME ReadInv, ReadInv', [ReadNext]_rvars
               PROVE  /\ [List!Next]_<< Lines, err >>
                      /\ [op = "adding" /\ op' = "idle" /\ err' = "ERR_NONE" =>
                            Lines' = Append(Lines, command)]_vars
    OBVIOUS
  <2>1. CASE [Next]_vars
    BY <2>1, StepSimulation, AddAppends DEF ReadInv
  <2>2. CASE ProgramKept /\ err' \in ErrorCodes
    <3>1. Lines' = Lines
      BY <2>2, LinesUnchanged DEF ProgramKept, ReadInv
    <3> QED
      BY <2>2, <3>1 DEF ProgramKept, List!Next, List!Unchanged
  <2> QED
    BY <2>1, <2>2, ReadActsOnProgram DEF ReadInv
<1> QED
  BY <1>1, <1>2, ReadInitInv, ReadNextInv, PTL
     DEF ReadSpec, IsCommandList, List!Spec

-----------------------------------------------------------------------------
(***************************************************************************)
(* The text of a program.  What is left of a text after its first n words. *)
(***************************************************************************)
Left(s, n) == SubSeq(s, n + 1, Len(s))

LEMMA LeftIs ==
  ASSUME NEW S, NEW s \in Seq(S), NEW n \in 0 .. Len(s)
  PROVE  /\ Left(s, n) \in Seq(S) /\ Len(Left(s, n)) = Len(s) - n
         /\ \A i \in 1 .. Len(s) - n : Left(s, n)[i] = s[n + i]
         /\ Left(s, n) = << >> <=> n = Len(s)
         /\ n < Len(s) => Head(Left(s, n)) = s[n + 1] /\ Tail(Left(s, n)) = Left(s, n + 1)
<1>1. Len(s) \in Nat /\ \A i \in 1 .. Len(s) : s[i] \in S
  BY LenProperties, ElementOfSeq
<1>2. /\ Left(s, n) \in Seq(S) /\ Len(Left(s, n)) = Len(s) - n
      /\ \A i \in 1 .. Len(s) - n : Left(s, n)[i] = s[n + i]
  <2>1. n + 1 \in Int /\ Len(s) \in Int /\ \A i \in n + 1 .. Len(s) : s[i] \in S
    BY <1>1
  <2>2. /\ SubSeq(s, n + 1, Len(s)) \in Seq(S)
        /\ Len(SubSeq(s, n + 1, Len(s))) =
             IF n + 1 <= Len(s) THEN Len(s) - (n + 1) + 1 ELSE 0
        /\ \A i \in 1 .. Len(s) - (n + 1) + 1 :
             SubSeq(s, n + 1, Len(s))[i] = s[n + 1 + i - 1]
    BY <2>1, SubSeqProperties
  <2> QED
    BY <1>1, <2>2 DEF Left
<1>3. Left(s, n) = << >> <=> n = Len(s)
  BY <1>1, <1>2, EmptySeq
<1>4. ASSUME n < Len(s)
      PROVE  Head(Left(s, n)) = s[n + 1] /\ Tail(Left(s, n)) = Left(s, n + 1)
  <2>1. n + 1 \in 1 .. Len(s) /\ Len(s) \in n + 1 .. Len(s)
    BY <1>1, <1>4
  <2> QED
    BY <2>1, HeadTailOfSubSeq DEF Left
<1> QED
  BY <1>2, <1>3, <1>4

LEMMA LeftOfLeft ==
  ASSUME NEW S, NEW s \in Seq(S), NEW n \in 0 .. Len(s), NEW m \in 0 .. Len(s) - n
  PROVE  Left(Left(s, n), m) = Left(s, n + m)
<1>1. Len(s) \in Nat /\ n + m \in 0 .. Len(s)
  BY LenProperties
<1>2. /\ Left(s, n) \in Seq(S) /\ Len(Left(s, n)) = Len(s) - n
      /\ \A i \in 1 .. Len(s) - n : Left(s, n)[i] = s[n + i]
  BY LeftIs
<1> DEFINE t == Left(s, n)
<1> HIDE DEF t
<1>3. t = Left(s, n)
  BY DEF t
<1>4. /\ Left(t, m) \in Seq(S) /\ Len(Left(t, m)) = Len(t) - m
      /\ \A i \in 1 .. Len(t) - m : Left(t, m)[i] = t[m + i]
  <2>1. t \in Seq(S) /\ m \in 0 .. Len(t)
    BY <1>2, <1>3
  <2> QED
    BY <2>1, LeftIs
<1>5. /\ Left(s, n + m) \in Seq(S) /\ Len(Left(s, n + m)) = Len(s) - (n + m)
      /\ \A i \in 1 .. Len(s) - (n + m) : Left(s, n + m)[i] = s[(n + m) + i]
  BY <1>1, LeftIs
<1>6. /\ Len(Left(t, m)) = Len(Left(s, n + m))
      /\ \A i \in 1 .. Len(Left(t, m)) : Left(t, m)[i] = Left(s, n + m)[i]
  <2>1. Len(t) = Len(s) - n /\ \A i \in 1 .. Len(s) - n : t[i] = s[n + i]
    BY <1>2, <1>3
  <2>2. Len(Left(t, m)) = Len(s) - (n + m) /\ Len(Left(t, m)) = Len(Left(s, n + m))
    BY <1>1, <1>4, <1>5, <2>1
  <2>3. ASSUME NEW i \in 1 .. Len(s) - (n + m)
        PROVE  Left(t, m)[i] = Left(s, n + m)[i]
    <3>1. i \in 1 .. Len(t) - m /\ m + i \in 1 .. Len(s) - n /\ n + (m + i) = (n + m) + i
      BY <1>1, <2>1
    <3>2. Left(t, m)[i] = t[m + i]
      BY <1>4, <3>1
    <3>3. t[m + i] = s[n + (m + i)]
      BY <2>1, <3>1
    <3>4. Left(s, n + m)[i] = s[(n + m) + i]
      BY <1>5
    <3> QED
      BY <3>1, <3>2, <3>3, <3>4
  <2> QED
    BY <2>2, <2>3
<1>7. Left(t, m) = Left(s, n + m)
  BY <1>4, <1>5, <1>6, SeqEqual
<1> QED
  BY <1>3, <1>7

LEMMA NothingReadYet ==
  ASSUME NEW S, NEW s \in Seq(S)
  PROVE  Left(s, 0) = s
  BY SubSeqFull DEF Left

(***************************************************************************)
(* What readCommand makes of a text, word by word.                         *)
(***************************************************************************)
Parser(c, w, left, e) == [command |-> c, word |-> w, rest |-> left, err |-> e]
Parsing(o, t, d, w, p) ==
  [order |-> o, type |-> t, data_size |-> d, write_data |-> w, page_offset |-> p]

IsType(w) ==
  T!Stored(w) <= T!MAX_TYPE_SIZE /\ w.text \in DOMAIN T!Types /\ w.ends = "space"

LEMMA ReadWord ==
  ASSUME NEW S, NEW s \in Seq(S), NEW n \in 0 .. Len(s) - 1, NEW c, NEW w, NEW e,
         T!Stored(s[n + 1]) <= T!MAX_SIZE_BUFFER
  PROVE  T!readUntilNextWhiteSpace(Parser(c, w, Left(s, n), e)) =
           Parser(c, s[n + 1], Left(s, n + 1), e)
<1>1. n \in 0 .. Len(s) /\ n < Len(s)
  BY LenProperties
<1>2. Left(s, n) # << >> /\ Head(Left(s, n)) = s[n + 1] /\ Tail(Left(s, n)) = Left(s, n + 1)
  BY <1>1, LeftIs
<1> DEFINE l == Left(s, n)
<1> HIDE DEF l
<1>3. l # << >> /\ Head(l) = s[n + 1] /\ Tail(l) = Left(s, n + 1)
  BY <1>2 DEF l
<1>4. T!readUntilNextWhiteSpace(Parser(c, w, l, e)) = Parser(c, s[n + 1], Left(s, n + 1), e)
  BY <1>3 DEF T!readUntilNextWhiteSpace, Parser
<1> QED
  BY <1>4 DEF l

(* A word that is longer than the buffer is an error.                      *)
LEMMA ReadLongWord ==
  ASSUME NEW S, NEW s \in Seq(S), NEW n \in 0 .. Len(s) - 1, NEW c, NEW w, NEW e,
         ~ (T!Stored(s[n + 1]) <= T!MAX_SIZE_BUFFER)
  PROVE  T!readUntilNextWhiteSpace(Parser(c, w, Left(s, n), e)).err = "ERR_IO"
<1>1. n \in 0 .. Len(s) /\ n < Len(s)
  BY LenProperties
<1>2. Left(s, n) # << >> /\ Head(Left(s, n)) = s[n + 1]
  BY <1>1, LeftIs
<1> DEFINE l == Left(s, n)
<1> HIDE DEF l
<1>3. l # << >> /\ Head(l) = s[n + 1]
  BY <1>2 DEF l
<1>4. T!readUntilNextWhiteSpace(Parser(c, w, l, e)).err = "ERR_IO"
  BY <1>3 DEF T!readUntilNextWhiteSpace, Parser
<1> QED
  BY <1>4 DEF l

LEMMA ReadNoWord ==
  ASSUME NEW c, NEW w, NEW e
  PROVE  T!readUntilNextWhiteSpace(Parser(c, w, << >>, e)) = Parser(c, T!EndOfFile, << >>, e)
<1>1. T!Stored(T!EndOfFile) <= T!MAX_SIZE_BUFFER
  BY DEF T!Stored, T!EndOfFile, T!Word, T!MAX_SIZE_BUFFER
<1>2. PICK l : l = << >>
  OBVIOUS
<1>3. T!readUntilNextWhiteSpace(Parser(c, w, l, e)) = Parser(c, T!EndOfFile, l, e)
  BY <1>1, <1>2 DEF T!readUntilNextWhiteSpace, Parser
<1> QED
  BY <1>2, <1>3

(* The next word is read, or there is none, or it is too long.             *)
LEMMA ReadNext1 ==
  ASSUME NEW s \in Seq(T!Words), NEW n \in 0 .. Len(s), NEW c, NEW w
  PROVE  LET r == T!readUntilNextWhiteSpace(Parser(c, w, Left(s, n), "ERR_NONE"))
         IN  \/ /\ n < Len(s) /\ T!Stored(s[n + 1]) <= T!MAX_SIZE_BUFFER
                /\ r = Parser(c, s[n + 1], Left(s, n + 1), "ERR_NONE")
             \/ /\ n < Len(s) /\ ~ (T!Stored(s[n + 1]) <= T!MAX_SIZE_BUFFER)
                /\ r.err = "ERR_IO"
             \/ n = Len(s) /\ r = Parser(c, T!EndOfFile, << >>, "ERR_NONE")
<1>1. Len(s) \in Nat
  BY LenProperties
<1>2. CASE n < Len(s)
  <2>1. n \in 0 .. Len(s) - 1
    BY <1>1, <1>2
  <2> QED
    BY <1>2, <2>1, ReadWord, ReadLongWord
<1>3. CASE n = Len(s)
  <2>1. Left(s, n) = << >>
    BY <1>3, LeftIs
  <2> QED
    BY <1>3, <2>1, ReadNoWord
<1> QED
  BY <1>1, <1>2, <1>3

LEMMA EndOfFileIsNothing ==
  /\ ~ IsType(T!EndOfFile) /\ ~ T!IsWriteData(T!EndOfFile)
  /\ \A o : ~ T!IsAddress(o, T!EndOfFile)
  /\ T!Stored(T!EndOfFile) = 1 /\ T!EndOfFile.text = "EOF"
<1>1. T!EndOfFile.text = "EOF" /\ T!EndOfFile.ends = "end" /\ T!EndOfFile.size = 0
  BY DEF T!EndOfFile, T!Word
<1>2. DOMAIN T!Types = {"I", "DB", "DW"}
  BY DEF T!Types
<1> QED
  <2>1. ~ IsType(T!EndOfFile)
    BY <1>1, <1>2 DEF IsType
  <2>2. \A o : ~ T!IsAddress(o, T!EndOfFile)
    BY <1>1 DEF T!IsAddress
  <2>3. ~ T!IsWriteData(T!EndOfFile)
    BY <1>1 DEF T!IsWriteData
  <2>4. T!Stored(T!EndOfFile) = 1
    BY <1>1 DEF T!Stored
  <2> QED
    BY <1>1, <2>1, <2>2, <2>3, <2>4

LEMMA StoredIs ==
  /\ \A w \in T!Words : T!Stored(w) \in Nat
  /\ \A w : IsType(w) => w.ends = "space" /\ w.text \in {"I", "DB", "DW"}
  /\ T!EndOfFile \notin T!Words
<1>1. \A w \in T!Words : T!Stored(w) \in Nat
  BY DEF T!Words, T!Stored
<1>2. DOMAIN T!Types = {"I", "DB", "DW"}
  BY DEF T!Types
<1> QED
  <2>1. T!EndOfFile \notin T!Words
    BY EndOfFileIsNothing DEF T!Words
  <2>2. \A w : IsType(w) => w.ends = "space" /\ w.text \in {"I", "DB", "DW"}
    BY <1>2 DEF IsType
  <2> QED
    BY <1>1, <2>1, <2>2

LEMMA TypeIsRead ==
  ASSUME NEW s \in Seq(T!Words), NEW n \in 0 .. Len(s), NEW v,
         NEW o, NEW t, NEW d, NEW w, NEW p
  PROVE  LET r == T!handleTypeSize(Parser(Parsing(o, t, d, w, p), v, Left(s, n), "ERR_NONE"))
         IN  IF n < Len(s) /\ IsType(s[n + 1])
             THEN r = Parser(Parsing(o, T!Types[s[n + 1].text].type,
                                     T!Types[s[n + 1].text].data_size, w, p),
                             s[n + 1], Left(s, n + 1), "ERR_NONE")
             ELSE r.err # "ERR_NONE"
<1> DEFINE c == Parsing(o, t, d, w, p)
           q == T!readUntilNextWhiteSpace(Parser(c, v, Left(s, n), "ERR_NONE"))
           r == T!handleTypeSize(Parser(c, v, Left(s, n), "ERR_NONE"))
<1>1. r = IF q.err = "ERR_NONE" THEN T!TypeSize(q) ELSE q
  BY DEF T!handleTypeSize, T!Then
<1>2. ASSUME NEW x, T!Stored(x) \in Nat, NEW l
      PROVE  LET y == T!TypeSize(Parser(c, x, l, "ERR_NONE"))
             IN  IF IsType(x)
                 THEN y = Parser(Parsing(o, T!Types[x.text].type,
                                         T!Types[x.text].data_size, w, p), x, l, "ERR_NONE")
                 ELSE y.err # "ERR_NONE"
  <2> DEFINE z == Parser(c, x, l, "ERR_NONE")
  <2>1. T!Stored(x) \in Nat /\ T!MAX_TYPE_SIZE = 2 /\ z.word = x /\ z.command = c
    BY <1>2 DEF T!MAX_TYPE_SIZE, Parser
  <2>2. CASE IsType(x)
    <3>1. T!TypeSize(z) = [z EXCEPT !.command.type      = T!Types[z.word.text].type,
                                    !.command.data_size = T!Types[z.word.text].data_size]
      BY <2>1, <2>2 DEF T!TypeSize, IsType
    <3> QED
      BY <2>1, <2>2, <3>1 DEF Parser, Parsing
  <2>3. CASE ~ IsType(x)
    <3>1. T!TypeSize(z) \in {T!Fails(z, "ERR_BAD_PARAMETER"), T!Fails(z, "ERR_IO")}
      BY <2>1, <2>3 DEF T!TypeSize, IsType
    <3> QED
      BY <2>3, <3>1 DEF Parser, T!Fails
  <2> QED
    BY <2>2, <2>3
<1>3. \/ /\ n < Len(s) /\ T!Stored(s[n + 1]) <= T!MAX_SIZE_BUFFER
         /\ q = Parser(c, s[n + 1], Left(s, n + 1), "ERR_NONE")
      \/ n < Len(s) /\ ~ (T!Stored(s[n + 1]) <= T!MAX_SIZE_BUFFER) /\ q.err = "ERR_IO"
      \/ n = Len(s) /\ q = Parser(c, T!EndOfFile, << >>, "ERR_NONE")
  BY ReadNext1
<1>7. n < Len(s) => s[n + 1] \in T!Words
  <2>1. n < Len(s) => n + 1 \in 1 .. Len(s)
    BY LenProperties
  <2> QED
    BY <2>1, ElementOfSeq
<1> HIDE DEF q, r, c
<1>4. CASE n < Len(s) /\ q = Parser(c, s[n + 1], Left(s, n + 1), "ERR_NONE")
  <2>1. r = T!TypeSize(q)
    BY <1>1, <1>4 DEF Parser
  <2> QED
    BY <1>2, <1>4, <1>7, <2>1, StoredIs DEF r, c
<1>5. CASE n < Len(s) /\ ~ (T!Stored(s[n + 1]) <= T!MAX_SIZE_BUFFER) /\ q.err = "ERR_IO"
  <2>1. r.err # "ERR_NONE"
    BY <1>1, <1>5
  <2>2. ASSUME IsType(s[n + 1]) PROVE FALSE
    <3>1. T!MAX_TYPE_SIZE <= T!MAX_SIZE_BUFFER /\ T!Stored(s[n + 1]) <= T!MAX_TYPE_SIZE
      BY <2>2 DEF IsType, T!MAX_TYPE_SIZE, T!MAX_SIZE_BUFFER
    <3>2. T!MAX_TYPE_SIZE = 2 /\ T!MAX_SIZE_BUFFER = 20
      BY DEF T!MAX_TYPE_SIZE, T!MAX_SIZE_BUFFER
    <3>3. T!Stored(s[n + 1]) \in Nat
      BY <1>5, <1>7, StoredIs
    <3> QED
      BY <1>5, <3>1, <3>2, <3>3
  <2> QED
    BY <2>1, <2>2 DEF r, c
<1>6. CASE n = Len(s) /\ q = Parser(c, T!EndOfFile, << >>, "ERR_NONE")
  <2>1. r = T!TypeSize(q)
    BY <1>1, <1>6 DEF Parser
  <2>2. r.err # "ERR_NONE"
    BY <1>2, <1>6, <2>1, EndOfFileIsNothing, StoredIs
  <2>3. ~ (n < Len(s))
    BY <1>6, LenProperties
  <2> QED
    BY <2>2, <2>3 DEF r, c
<1> QED
  BY <1>3, <1>4, <1>5, <1>6

LEMMA AddressFits ==
  ASSUME NEW w, ~ (T!Stored(w) <= T!MAX_SIZE_BUFFER)
  PROVE  (\A o : ~ T!IsAddress(o, w)) /\ ~ T!IsWriteData(w)
<1>1. T!MAX_SIZE_BUFFER = 20
  BY DEF T!MAX_SIZE_BUFFER
<1>2. \A o : T!IsAddress(o, w) => T!Stored(w) \in 4 .. 20
  BY DEF T!IsAddress, T!VIRT_ADDR_MIN_LENGTH, T!VIRT_ADDR_MAX_LENGTH
<1>3. T!IsWriteData(w) => T!Stored(w) \in 4 .. 11
  BY DEF T!IsWriteData, T!WRITE_DATA_MIN_LENGTH, T!WRITE_DATA_MAX_LENGTH
<1> QED
  BY <1>1, <1>2, <1>3

LEMMA AddressIsRead ==
  ASSUME NEW s \in Seq(T!Words), NEW n \in 0 .. Len(s), NEW v,
         NEW o, NEW t, NEW d, NEW w, NEW p
  PROVE  LET r == T!handle_virt_addr(Parser(Parsing(o, t, d, w, p), v, Left(s, n), "ERR_NONE"))
         IN  IF n < Len(s) /\ T!IsAddress(o, s[n + 1])
             THEN r = Parser(Parsing(o, t, d, w, s[n + 1].value),
                             s[n + 1], Left(s, n + 1), "ERR_NONE")
             ELSE r.err # "ERR_NONE"
<1> DEFINE c == Parsing(o, t, d, w, p)
           q == T!readUntilNextWhiteSpace(Parser(c, v, Left(s, n), "ERR_NONE"))
           r == T!handle_virt_addr(Parser(c, v, Left(s, n), "ERR_NONE"))
<1>1. r = IF q.err = "ERR_NONE" THEN T!Address(q) ELSE q
  BY DEF T!handle_virt_addr, T!Then
<1>2. ASSUME NEW x, NEW l
      PROVE  LET y == T!Address(Parser(c, x, l, "ERR_NONE"))
             IN  IF T!IsAddress(o, x)
                 THEN y = Parser(Parsing(o, t, d, w, x.value), x, l, "ERR_NONE")
                 ELSE y.err # "ERR_NONE"
  <2> DEFINE z == Parser(c, x, l, "ERR_NONE")
  <2>1. z.word = x /\ z.command = c /\ z.command.order = o
    BY DEF Parser, Parsing
  <2>2. CASE T!IsAddress(o, x)
    <3>1. T!Address(z) = [z EXCEPT !.command.page_offset = z.word.value]
      BY <2>1, <2>2 DEF T!Address
    <3> QED
      BY <2>1, <2>2, <3>1 DEF Parser, Parsing
  <2>3. CASE ~ T!IsAddress(o, x)
    <3>1. T!Address(z) = T!Fails(z, "ERR_BAD_PARAMETER")
      BY <2>1, <2>3 DEF T!Address
    <3> QED
      BY <2>3, <3>1 DEF Parser, T!Fails
  <2> QED
    BY <2>2, <2>3
<1>3. \/ /\ n < Len(s) /\ T!Stored(s[n + 1]) <= T!MAX_SIZE_BUFFER
         /\ q = Parser(c, s[n + 1], Left(s, n + 1), "ERR_NONE")
      \/ n < Len(s) /\ ~ (T!Stored(s[n + 1]) <= T!MAX_SIZE_BUFFER) /\ q.err = "ERR_IO"
      \/ n = Len(s) /\ q = Parser(c, T!EndOfFile, << >>, "ERR_NONE")
  BY ReadNext1
<1> HIDE DEF q, r, c
<1>4. CASE n < Len(s) /\ q = Parser(c, s[n + 1], Left(s, n + 1), "ERR_NONE")
  <2>1. r = T!Address(q)
    BY <1>1, <1>4 DEF Parser
  <2> QED
    BY <1>2, <1>4, <2>1 DEF r, c
<1>5. CASE n < Len(s) /\ ~ (T!Stored(s[n + 1]) <= T!MAX_SIZE_BUFFER) /\ q.err = "ERR_IO"
  <2>1. r.err # "ERR_NONE"
    BY <1>1, <1>5
  <2>2. ~ T!IsAddress(o, s[n + 1])
    BY <1>5, AddressFits
  <2> QED
    BY <2>1, <2>2 DEF r, c
<1>6. CASE n = Len(s) /\ q = Parser(c, T!EndOfFile, << >>, "ERR_NONE")
  <2>1. r = T!Address(q)
    BY <1>1, <1>6 DEF Parser
  <2>2. r.err # "ERR_NONE"
    BY <1>2, <1>6, <2>1, EndOfFileIsNothing
  <2>3. ~ (n < Len(s))
    BY <1>6, LenProperties
  <2> QED
    BY <2>2, <2>3 DEF r, c
<1> QED
  BY <1>3, <1>4, <1>5, <1>6

(* The data of a store, as handleWrite reads them.                         *)
LEMMA DataIsRead ==
  ASSUME NEW s \in Seq(T!Words), NEW n \in 0 .. Len(s), NEW v,
         NEW o, NEW t, NEW d, NEW w, NEW p
  PROVE  LET q == T!readUntilNextWhiteSpace(
                    Parser(Parsing(o, t, d, w, p), v, Left(s, n), "ERR_NONE"))
             r == IF q.err = "ERR_NONE" THEN T!WriteData(q) ELSE q
         IN  IF n < Len(s) /\ T!IsWriteData(s[n + 1])
             THEN r = Parser(Parsing(o, t, d, s[n + 1].value % WORD_VALUES, p),
                             s[n + 1], Left(s, n + 1), "ERR_NONE")
             ELSE r.err # "ERR_NONE"
<1> DEFINE c == Parsing(o, t, d, w, p)
           q == T!readUntilNextWhiteSpace(Parser(c, v, Left(s, n), "ERR_NONE"))
           r == IF q.err = "ERR_NONE" THEN T!WriteData(q) ELSE q
<1>1. r = IF q.err = "ERR_NONE" THEN T!WriteData(q) ELSE q
  OBVIOUS
<1>2. ASSUME NEW x, NEW l
      PROVE  LET y == T!WriteData(Parser(c, x, l, "ERR_NONE"))
             IN  IF T!IsWriteData(x)
                 THEN y = Parser(Parsing(o, t, d, x.value % WORD_VALUES, p), x, l, "ERR_NONE")
                 ELSE y.err # "ERR_NONE"
  <2> DEFINE z == Parser(c, x, l, "ERR_NONE")
  <2>1. z.word = x /\ z.command = c
    BY DEF Parser
  <2>2. CASE T!IsWriteData(x)
    <3>1. T!WriteData(z) = [z EXCEPT !.command.write_data = z.word.value % WORD_VALUES]
      BY <2>1, <2>2 DEF T!WriteData
    <3> QED
      BY <2>1, <2>2, <3>1 DEF Parser, Parsing
  <2>3. CASE ~ T!IsWriteData(x)
    <3>1. T!WriteData(z) = T!Fails(z, "ERR_BAD_PARAMETER")
      BY <2>1, <2>3 DEF T!WriteData
    <3> QED
      BY <2>3, <3>1 DEF Parser, T!Fails
  <2> QED
    BY <2>2, <2>3
<1>3. \/ /\ n < Len(s) /\ T!Stored(s[n + 1]) <= T!MAX_SIZE_BUFFER
         /\ q = Parser(c, s[n + 1], Left(s, n + 1), "ERR_NONE")
      \/ n < Len(s) /\ ~ (T!Stored(s[n + 1]) <= T!MAX_SIZE_BUFFER) /\ q.err = "ERR_IO"
      \/ n = Len(s) /\ q = Parser(c, T!EndOfFile, << >>, "ERR_NONE")
  BY ReadNext1
<1> HIDE DEF q, r, c
<1>4. CASE n < Len(s) /\ q = Parser(c, s[n + 1], Left(s, n + 1), "ERR_NONE")
  <2>1. r = T!WriteData(q)
    BY <1>1, <1>4 DEF Parser
  <2> QED
    BY <1>2, <1>4, <2>1 DEF r, c, q
<1>5. CASE n < Len(s) /\ ~ (T!Stored(s[n + 1]) <= T!MAX_SIZE_BUFFER) /\ q.err = "ERR_IO"
  <2>1. r.err # "ERR_NONE"
    BY <1>1, <1>5
  <2>2. ~ T!IsWriteData(s[n + 1])
    BY <1>5, AddressFits
  <2> QED
    BY <2>1, <2>2 DEF r, c, q
<1>6. CASE n = Len(s) /\ q = Parser(c, T!EndOfFile, << >>, "ERR_NONE")
  <2>1. r = T!WriteData(q)
    BY <1>1, <1>6 DEF Parser
  <2>2. r.err # "ERR_NONE"
    BY <1>2, <1>6, <2>1, EndOfFileIsNothing
  <2>3. ~ (n < Len(s))
    BY <1>6, LenProperties
  <2> QED
    BY <2>2, <2>3 DEF r, c, q
<1> QED
  BY <1>3, <1>4, <1>5, <1>6

-----------------------------------------------------------------------------
(* The two texts that readCommand accepts, and what it makes of them.      *)
IsFetch(s) ==
  /\ Len(s) >= 3 /\ T!Stored(s[1]) = 1 /\ s[1].text = "R"
  /\ IsType(s[2]) /\ T!IsAddress("READ", s[3])

IsStore(s) ==
  /\ Len(s) >= 4 /\ T!Stored(s[1]) = 1 /\ s[1].text = "W"
  /\ IsType(s[2]) /\ T!IsWriteData(s[3]) /\ T!IsAddress("WRITE", s[4])

FetchOf(s) ==
  Parsing("READ", T!Types[s[2].text].type, T!Types[s[2].text].data_size, 0, s[3].value)

StoreOf(s) ==
  Parsing("WRITE", T!Types[s[2].text].type, T!Types[s[2].text].data_size,
          s[3].value % WORD_VALUES, s[4].value)

LEMMA FetchIsRead ==
  ASSUME NEW s \in Seq(T!Words), Len(s) >= 1, s[1].text = "R", NEW v, NEW d, NEW p
  PROVE  LET r == T!handleRead(Parser(Parsing("READ", "INSTRUCTION", d, 0, p), v, Left(s, 1),
                                      "ERR_NONE"))
         IN  IF Len(s) >= 3 /\ IsType(s[2]) /\ T!IsAddress("READ", s[3])
             THEN r = Parser(FetchOf(s), s[3], Left(s, 3), "ERR_NONE")
             ELSE r.err # "ERR_NONE"
<1> DEFINE c == Parsing("READ", "INSTRUCTION", d, 0, p)
           z == Parser(c, v, Left(s, 1), "ERR_NONE")
           t == T!handleTypeSize(z)
           r == T!handleRead(z)
<1>1. [z EXCEPT !.command.order = "READ"] = z
  BY DEF Parser, Parsing
<1>2. Len(s) \in Nat /\ 1 \in 0 .. Len(s)
  BY LenProperties
<1>3. IF 1 < Len(s) /\ IsType(s[2])
      THEN t = Parser(Parsing("READ", T!Types[s[2].text].type,
                              T!Types[s[2].text].data_size, 0, p), s[2], Left(s, 2), "ERR_NONE")
      ELSE t.err # "ERR_NONE"
  BY <1>2, TypeIsRead
<1>4. r = LET y == [t EXCEPT !.command.write_data = 0]
          IN  IF y.err = "ERR_NONE" THEN T!handle_virt_addr(y) ELSE y
  <2> HIDE DEF z
  <2> QED
    BY <1>1 DEF T!handleRead, T!Then
<1> HIDE DEF r, t, z
<1>5. CASE 1 < Len(s) /\ IsType(s[2])
  <2> DEFINE b == Parsing("READ", T!Types[s[2].text].type, T!Types[s[2].text].data_size, 0, p)
  <2>1. t = Parser(b, s[2], Left(s, 2), "ERR_NONE")
    BY <1>3, <1>5
  <2>2. [t EXCEPT !.command.write_data = 0] = t /\ t.err = "ERR_NONE"
    BY <2>1 DEF Parser, Parsing
  <2>3. r = T!handle_virt_addr(t)
    BY <1>4, <2>2
  <2>4. 2 \in 0 .. Len(s) /\ (2 < Len(s) <=> Len(s) >= 3)
    BY <1>2, <1>5
  <2>5. IF 2 < Len(s) /\ T!IsAddress("READ", s[3])
        THEN r = Parser(FetchOf(s), s[3], Left(s, 3), "ERR_NONE")
        ELSE r.err # "ERR_NONE"
    BY <2>1, <2>3, <2>4, AddressIsRead DEF FetchOf
  <2> QED
    BY <1>5, <2>4, <2>5 DEF r, z
<1>6. CASE ~ (1 < Len(s) /\ IsType(s[2]))
  <2>1. t.err # "ERR_NONE"
    BY <1>3, <1>6
  <2>2. [t EXCEPT !.command.write_data = 0].err # "ERR_NONE"
    BY <2>1
  <2>3. r.err # "ERR_NONE"
    BY <1>4, <2>2
  <2>4. ~ (Len(s) >= 3 /\ IsType(s[2]))
    BY <1>2, <1>6
  <2> QED
    BY <2>3, <2>4 DEF r, z
<1> QED
  BY <1>5, <1>6

LEMMA StoreIsRead ==
  ASSUME NEW s \in Seq(T!Words), Len(s) >= 1, s[1].text = "W", NEW v, NEW d, NEW p
  PROVE  LET r == T!handleWrite(Parser(Parsing("READ", "INSTRUCTION", d, 0, p), v, Left(s, 1),
                                       "ERR_NONE"))
         IN  IF /\ Len(s) >= 4 /\ IsType(s[2])
                /\ T!IsWriteData(s[3]) /\ T!IsAddress("WRITE", s[4])
             THEN r = Parser(StoreOf(s), s[4], Left(s, 4), "ERR_NONE")
             ELSE r.err # "ERR_NONE"
<1> DEFINE y == Parser(Parsing("READ", "INSTRUCTION", d, 0, p), v, Left(s, 1), "ERR_NONE")
           z == Parser(Parsing("WRITE", "INSTRUCTION", d, 0, p), v, Left(s, 1), "ERR_NONE")
           t == T!handleTypeSize(z)
           q == IF t.err = "ERR_NONE" THEN T!readUntilNextWhiteSpace(t) ELSE t
           e == IF q.err = "ERR_NONE" THEN T!WriteData(q) ELSE q
           r == T!handleWrite(y)
<1>1. [y EXCEPT !.command.order = "WRITE"] = z
  BY DEF Parser, Parsing
<1>2. Len(s) \in Nat /\ 1 \in 0 .. Len(s)
  BY LenProperties
<1>3. IF 1 < Len(s) /\ IsType(s[2])
      THEN t = Parser(Parsing("WRITE", T!Types[s[2].text].type,
                              T!Types[s[2].text].data_size, 0, p), s[2], Left(s, 2), "ERR_NONE")
      ELSE t.err # "ERR_NONE"
  BY <1>2, TypeIsRead
<1>4. r = IF e.err = "ERR_NONE" THEN T!handle_virt_addr(e) ELSE e
  <2> HIDE DEF z, y
  <2> QED
    BY <1>1 DEF T!handleWrite, T!Then
<1>5. q = IF t.err = "ERR_NONE" THEN T!readUntilNextWhiteSpace(t) ELSE t
  OBVIOUS
<1>6. e = IF q.err = "ERR_NONE" THEN T!WriteData(q) ELSE q
  OBVIOUS
<1> HIDE DEF r, e, q, t, z, y
<1>7. CASE 1 < Len(s) /\ IsType(s[2])
  <2> DEFINE k == T!Types[s[2].text].type
             m == T!Types[s[2].text].data_size
  <2>1. t = Parser(Parsing("WRITE", k, m, 0, p), s[2], Left(s, 2), "ERR_NONE")
        /\ t.err = "ERR_NONE"
    BY <1>3, <1>7 DEF Parser
  <2>2. q = T!readUntilNextWhiteSpace(Parser(Parsing("WRITE", k, m, 0, p), s[2], Left(s, 2),
                                             "ERR_NONE"))
    BY <1>5, <2>1
  <2>3. 2 \in 0 .. Len(s) /\ (2 < Len(s) <=> Len(s) >= 3)
    BY <1>2, <1>7
  <2>4. IF 2 < Len(s) /\ T!IsWriteData(s[3])
        THEN e = Parser(Parsing("WRITE", k, m, s[3].value % WORD_VALUES, p),
                        s[3], Left(s, 3), "ERR_NONE")
        ELSE e.err # "ERR_NONE"
    <3> HIDE DEF k, m
    <3> QED
      BY <1>6, <2>2, <2>3, DataIsRead
  <2>5. CASE 2 < Len(s) /\ T!IsWriteData(s[3])
    <3> DEFINE x == s[3].value % WORD_VALUES
    <3>1. e = Parser(Parsing("WRITE", k, m, x, p), s[3], Left(s, 3), "ERR_NONE")
          /\ e.err = "ERR_NONE"
      BY <2>4, <2>5 DEF Parser
    <3>2. r = T!handle_virt_addr(Parser(Parsing("WRITE", k, m, x, p), s[3], Left(s, 3),
                                        "ERR_NONE"))
      BY <1>4, <3>1
    <3>3. 3 \in 0 .. Len(s) /\ (3 < Len(s) <=> Len(s) >= 4)
      BY <1>2, <2>5
    <3>4. IF 3 < Len(s) /\ T!IsAddress("WRITE", s[4])
          THEN r = Parser(Parsing("WRITE", k, m, x, s[4].value), s[4], Left(s, 4), "ERR_NONE")
          ELSE r.err # "ERR_NONE"
      <4> HIDE DEF k, m, x
      <4> QED
        BY <3>2, <3>3, AddressIsRead
    <3> QED
      BY <1>7, <2>5, <3>3, <3>4 DEF r, y, StoreOf
  <2>6. CASE ~ (2 < Len(s) /\ T!IsWriteData(s[3]))
    <3>1. e.err # "ERR_NONE"
      BY <2>4, <2>6
    <3>2. r.err # "ERR_NONE"
      BY <1>4, <3>1
    <3>3. ~ (Len(s) >= 4 /\ T!IsWriteData(s[3]))
      BY <1>2, <2>6
    <3> QED
      BY <3>2, <3>3 DEF r, y
  <2> QED
    BY <2>5, <2>6
<1>8. CASE ~ (1 < Len(s) /\ IsType(s[2]))
  <2>1. t.err # "ERR_NONE"
    BY <1>3, <1>8
  <2>2. r.err # "ERR_NONE"
    BY <1>4, <1>5, <1>6, <2>1
  <2>3. ~ (Len(s) >= 4 /\ IsType(s[2]))
    BY <1>2, <1>8
  <2> QED
    BY <2>2, <2>3 DEF r, y
<1> QED
  BY <1>7, <1>8

(* A text that is accepted is one of the two, and   nothing else is read.  *)
LEMMA CommandIsRead ==
  ASSUME NEW s \in Seq(T!Words), s # << >>
  PROVE  LET r == T!readCommand(s)
         IN  IF IsFetch(s) THEN r = Parser(FetchOf(s), s[3], Left(s, 3), "ERR_NONE")
             ELSE IF IsStore(s) THEN r = Parser(StoreOf(s), s[4], Left(s, 4), "ERR_NONE")
             ELSE r.err # "ERR_NONE"
<1> DEFINE q == T!readUntilNextWhiteSpace(T!Start(s))
           r == T!readCommand(s)
<1>1. Len(s) \in Nat \ {0} /\ Len(s) >= 1 /\ 0 \in 0 .. Len(s) /\ Left(s, 0) = s
      /\ s[1] \in T!Words
  BY EmptySeq, LenProperties, NothingReadYet, ElementOfSeq
<1>2. T!Zero = Parsing("READ", "INSTRUCTION", 0, 0, 0)
  BY DEF T!Zero, Parsing
<1>3. T!Start(s) = Parser(T!Zero, T!EndOfFile, Left(s, 0), "ERR_NONE")
  BY <1>1 DEF T!Start, Parser
<1>4. \/ /\ T!Stored(s[1]) <= T!MAX_SIZE_BUFFER
         /\ q = Parser(T!Zero, s[1], Left(s, 1), "ERR_NONE")
      \/ ~ (T!Stored(s[1]) <= T!MAX_SIZE_BUFFER) /\ q.err = "ERR_IO"
  <2>1. 0 \in 0 .. Len(s) - 1
    BY <1>1
  <2> QED
    BY <1>3, <2>1, ReadWord, ReadLongWord
<1>5. r = IF q.err = "ERR_NONE" THEN T!FirstWord(q) ELSE q
  BY DEF T!readCommand, T!Then
<1>6. T!MAX_SIZE_BUFFER = 20 /\ T!Stored(s[1]) \in Nat
  BY <1>1, StoredIs DEF T!MAX_SIZE_BUFFER
<1>7. s[1] # T!EndOfFile
  BY <1>1, StoredIs
<1> HIDE DEF r, q
<1>8. CASE T!Stored(s[1]) # 1
  <2>1. ~ IsFetch(s) /\ ~ IsStore(s)
    BY <1>7, <1>8 DEF IsFetch, IsStore
  <2>2. r.err # "ERR_NONE"
    <3>1. CASE q = Parser(T!Zero, s[1], Left(s, 1), "ERR_NONE")
      <4>1. r = T!Fails(q, "ERR_IO")
        BY <1>5, <1>8, <3>1 DEF T!FirstWord, Parser
      <4> QED
        BY <3>1, <4>1 DEF T!Fails, Parser
    <3>2. CASE q.err = "ERR_IO"
      BY <1>5, <3>2
    <3> QED
      BY <1>4, <3>1, <3>2
  <2> QED
    BY <2>1, <2>2 DEF r
<1>9. CASE T!Stored(s[1]) = 1
  <2>1. q = Parser(T!Zero, s[1], Left(s, 1), "ERR_NONE")
        /\ q.err = "ERR_NONE" /\ q.word = s[1]
    <3>1. q = Parser(T!Zero, s[1], Left(s, 1), "ERR_NONE")
      BY <1>4, <1>6, <1>9
    <3> QED
      BY <3>1 DEF Parser
  <2>2. r = IF s[1].text = "R" THEN T!handleRead(q)
            ELSE IF s[1].text = "W" THEN T!handleWrite(q)
            ELSE IF s[1] = T!EndOfFile THEN q
            ELSE T!Fails(q, "ERR_IO")
    BY <1>5, <1>9, <2>1 DEF T!FirstWord
  <2>3. CASE s[1].text = "R"
    <3>1. ~ IsStore(s)
          /\ (IsFetch(s) <=> Len(s) >= 3 /\ IsType(s[2]) /\ T!IsAddress("READ", s[3]))
      BY <1>7, <1>9, <2>3 DEF IsStore, IsFetch
    <3>2. r = T!handleRead(Parser(Parsing("READ", "INSTRUCTION", 0, 0, 0), s[1], Left(s, 1),
                                  "ERR_NONE"))
      BY <1>2, <2>1, <2>2, <2>3
    <3> QED
      BY <1>1, <2>3, <3>1, <3>2, FetchIsRead DEF r
  <2>4. CASE s[1].text = "W"
    <3>1. ~ IsFetch(s)
          /\ (IsStore(s) <=> /\ Len(s) >= 4 /\ IsType(s[2])
                             /\ T!IsWriteData(s[3]) /\ T!IsAddress("WRITE", s[4]))
      BY <1>7, <1>9, <2>4 DEF IsStore, IsFetch
    <3>2. r = T!handleWrite(Parser(Parsing("READ", "INSTRUCTION", 0, 0, 0), s[1], Left(s, 1),
                                   "ERR_NONE"))
      BY <1>2, <2>1, <2>2, <2>4
    <3> QED
      BY <1>1, <2>4, <3>1, <3>2, StoreIsRead DEF r
  <2>5. CASE s[1].text # "R" /\ s[1].text # "W"
    <3>1. ~ IsFetch(s) /\ ~ IsStore(s)
      BY <2>5 DEF IsFetch, IsStore
    <3>2. r = T!Fails(q, "ERR_IO")
      BY <1>7, <2>2, <2>5
    <3>3. T!Fails(q, "ERR_IO").err = "ERR_IO"
      BY <2>1 DEF T!Fails, Parser
    <3> QED
      BY <2>1, <3>1, <3>2, <3>3 DEF r
  <2> QED
    BY <2>3, <2>4, <2>5
<1> QED
  BY <1>8, <1>9

-----------------------------------------------------------------------------
(***************************************************************************)
(* Loops as functions of the number of rounds.  What holds before the      *)
(* first round and is kept by each holds after all.                        *)
(***************************************************************************)
LEMMA LeastElement ==
  ASSUME NEW D, D \subseteq Nat, D # {}
  PROVE  \E m \in D : \A n \in D : m <= n
<1>1. \A x, y \in Nat : x < y => << x, y >> \in OpToRel(<, Nat)
  BY Zenon DEF OpToRel
<1>2. \E R : IsWellFoundedOn(R, Nat) /\ \A x, y \in Nat : x < y => << x, y >> \in R
  BY <1>1, NatLessThanWellFounded, Zenon
<1>3. PICK R : IsWellFoundedOn(R, Nat) /\ \A x, y \in Nat : x < y => << x, y >> \in R
  BY <1>2
<1>4. \E m \in D : \A n \in D : ~ (<< n, m >> \in R)
  <2>1. IsWellFoundedOn(R, Nat)
    BY <1>3
  <2> QED
    BY <2>1, WFMin, Zenon
<1>5. PICK m \in D : \A n \in D : ~ (<< n, m >> \in R)
  BY <1>4
<1>6. ASSUME NEW n \in D
      PROVE  m <= n
  <2>1. m \in Nat /\ n \in Nat
    OBVIOUS
  <2>2. ~ (n < m)
    BY <1>3, <1>5, <2>1, Zenon
  <2> QED
    BY <2>1, <2>2
<1> QED
  BY <1>6

LEMMA EveryRound ==
  ASSUME NEW N \in Nat, NEW D, 0 \in D, \A k \in 1 .. N : k - 1 \in D => k \in D
  PROVE  0 .. N \subseteq D
<1> SUFFICES ASSUME ~ (0 .. N \subseteq D) PROVE FALSE
  OBVIOUS
<1> DEFINE E == {k \in 0 .. N : k \notin D}
<1>1. E \subseteq Nat /\ E # {}
  OBVIOUS
<1>2. PICK m \in E : \A n \in E : m <= n
  <2> HIDE DEF E
  <2> QED
    BY <1>1, LeastElement
<1>3. m \in 1 .. N
  OBVIOUS
<1>4. m - 1 \in 0 .. N /\ m - 1 \notin E
  BY <1>1, <1>2, <1>3
<1> QED
  BY <1>3, <1>4

(***************************************************************************)
(* The rounds of Parsed.                                                   *)
(***************************************************************************)
ParseRounds(words, N, f) ==
  f = [n \in 0 .. N |-> IF n = 0 THEN [lines |-> << >>, rest |-> words]
                        ELSE Parses(f[n - 1])]

LEMMA ParsesInRounds ==
  ASSUME NEW words, NEW N \in Nat
  PROVE  \E f : ParseRounds(words, N, f)
<1> DEFINE D == {n \in 0 .. N : \E f : ParseRounds(words, n, f)}
           a == [lines |-> << >>, rest |-> words]
<1>1. 0 \in D
  <2>1. ParseRounds(words, 0, [n \in 0 .. 0 |-> a])
    BY DEF ParseRounds
  <2> QED
    BY <2>1
<1>2. ASSUME NEW k \in 1 .. N, k - 1 \in D
      PROVE  k \in D
  <2>1. PICK f : ParseRounds(words, k - 1, f)
    BY <1>2
  <2> DEFINE g == [n \in 0 .. k |-> IF n = k THEN Parses(f[k - 1]) ELSE f[n]]
  <2>2. ASSUME NEW n \in 0 .. k
        PROVE  g[n] = IF n = 0 THEN a ELSE Parses(g[n - 1])
    <3>1. n < k => n \in 0 .. k - 1 /\ (n # 0 => n - 1 \in 0 .. k - 1)
      OBVIOUS
    <3>2. \A m \in 0 .. k - 1 : f[m] = IF m = 0 THEN a ELSE Parses(f[m - 1])
      BY <2>1 DEF ParseRounds
    <3>3. \A m \in 0 .. k - 1 : g[m] = f[m]
      OBVIOUS
    <3>4. g[k] = Parses(f[k - 1]) /\ k # 0 /\ k - 1 \in 0 .. k - 1
      OBVIOUS
    <3> HIDE DEF g, a
    <3>5. CASE n = k
      BY <3>3, <3>4, <3>5
    <3>6. CASE n < k
      BY <3>1, <3>2, <3>3, <3>6
    <3> QED
      BY <3>5, <3>6
  <2>3. ParseRounds(words, k, g)
    <3>1. g = [n \in 0 .. k |-> g[n]]
      OBVIOUS
    <3> HIDE DEF g
    <3> QED
      BY <2>2, <3>1 DEF ParseRounds
  <2> QED
    BY <2>3
<1>3. 0 .. N \subseteq D
  <2> HIDE DEF D
  <2> QED
    BY <1>1, <1>2, EveryRound
<1> QED
  BY <1>3

LEMMA ParsedIs ==
  ASSUME NEW words, Len(words) \in Nat
  PROVE  \E f : /\ f[0] = [lines |-> << >>, rest |-> words]
                /\ \A n \in 1 .. Len(words) : f[n] = Parses(f[n - 1])
                /\ Parsed(words) = f[Len(words)].lines
<1> DEFINE at == CHOOSE f : ParseRounds(words, Len(words), f)
<1>1. ParseRounds(words, Len(words), at)
  BY ParsesInRounds
<1>2. Parsed(words) = at[Len(words)].lines
  BY DEF Parsed, ParseRounds
<1> HIDE DEF at
<1>3. at[0] = [lines |-> << >>, rest |-> words]
  BY <1>1 DEF ParseRounds
<1>4. \A n \in 1 .. Len(words) : at[n] = Parses(at[n - 1])
  BY <1>1 DEF ParseRounds
<1> QED
  BY <1>2, <1>3, <1>4

-----------------------------------------------------------------------------
(***************************************************************************)
(* Printing and reading.  A command that is accepted is printed as one of  *)
(* the texts that readCommand accepts, and read as what it was.            *)
(***************************************************************************)
LEMMA DigitsAre ==
  ASSUME NEW value, NEW n \in {2, 8}
  PROVE  T!Digits(value, n) \in 2 + n .. 10
<1> DEFINE D == {d \in n .. 8 : d = 8 \/ value < 16^d}
           IsWidth(d) == /\ d = 8 \/ value < 16^d
                         /\ \A k \in n .. d - 1 : ~ (value < 16^k)
<1>1. D \subseteq Nat /\ 8 \in D
  OBVIOUS
<1>2. PICK m \in D : \A d \in D : m <= d
  <2> HIDE DEF D
  <2> QED
    BY <1>1, LeastElement
<1>3. m \in n .. 8 /\ (m = 8 \/ value < 16^m)
  OBVIOUS
<1>4. ASSUME NEW k \in n .. m - 1
      PROVE  ~ (value < 16^k)
  <2>1. k \in n .. 8 /\ ~ (m <= k)
    BY <1>3
  <2> QED
    BY <1>2, <2>1
<1>5. \E d \in n .. 8 : IsWidth(d)
  BY <1>3, <1>4
<1> DEFINE w == CHOOSE d \in n .. 8 : IsWidth(d)
<1>6. T!Digits(value, n) = 2 + w
  BY DEF T!Digits
<1>7. w \in n .. 8
  <2> HIDE DEF IsWidth
  <2> QED
    BY <1>5
<1> HIDE DEF w
<1> QED
  BY <1>6, <1>7

LEMMA PrintedIs ==
  ASSUME NEW c \in Commands, IsAccepted(c)
  PROVE  LET type    == T!Word(T!Letters(c), 0, IF c.type = INSTRUCTION THEN 1 ELSE 2, "space")
             address == T!print_uint_64(c.page_offset)
             data    == T!Word("data", c.write_data,
                               T!Digits(c.write_data, IF c.data_size = 1 THEN 2 ELSE 8), "space")
         IN  T!PrintedCommand(c) =
               IF c.order = READ THEN << T!Word("R", 0, 1, "space"), type, address >>
               ELSE << T!Word("W", 0, 1, "space"), type, data, address >>
<1>1. /\ c.order \in {READ, WRITE} /\ c.type \in {INSTRUCTION, DATA}
      /\ c.type = INSTRUCTION => c.order = READ
  BY CommandsAssumption DEF Command, IsAccepted
<1>4. CASE c.order = READ
  BY <1>1, <1>4 DEF T!PrintedCommand, READ, WRITE, INSTRUCTION
<1>5. CASE c.order = WRITE
  <2>1. c.order # "READ" /\ c.type # "INSTRUCTION"
    BY <1>1, <1>5 DEF READ, WRITE, INSTRUCTION, DATA
  <2>2. CASE c.data_size = 1
    BY <2>1, <2>2 DEF T!PrintedCommand, T!print_word_t_as_byte, READ, INSTRUCTION
  <2>3. CASE c.data_size # 1
    BY <2>1, <2>3 DEF T!PrintedCommand, T!print_word_t_as_word, READ, INSTRUCTION
  <2> QED
    BY <2>2, <2>3
<1> QED
  BY <1>1, <1>4, <1>5

LEMMA TypeIsPrinted ==
  ASSUME NEW c \in Commands, IsAccepted(c),
         NEW w, w = T!Word(T!Letters(c), 0, IF c.type = INSTRUCTION THEN 1 ELSE 2, "space")
  PROVE  /\ w \in T!Words /\ IsType(w)
         /\ T!Types[w.text].type = c.type /\ T!Types[w.text].data_size = c.data_size
<1>1. /\ c.type \in {"INSTRUCTION", "DATA"} /\ c.data_size \in {1, 4}
      /\ c.type = "INSTRUCTION" => c.data_size = 4
  BY CommandsAssumption
     DEF Command, IsAccepted, INSTRUCTION, DATA, BYTE_SIZE, WORD_SIZE
<1>2. /\ T!Types["I"].type = "INSTRUCTION" /\ T!Types["I"].data_size = 4
      /\ T!Types["DB"].type = "DATA" /\ T!Types["DB"].data_size = 1
      /\ T!Types["DW"].type = "DATA" /\ T!Types["DW"].data_size = 4
      /\ DOMAIN T!Types = {"I", "DB", "DW"}
  BY DEF T!Types
<1>3. /\ w.ends = "space" /\ w.value = 0
      /\ w.size = IF c.type = "INSTRUCTION" THEN 1 ELSE 2
      /\ w.text = IF c.type = "INSTRUCTION" THEN "I"
                  ELSE IF c.data_size = 1 THEN "DB" ELSE "DW"
  BY DEF T!Word, T!Letters, INSTRUCTION
<1>4. w = [text |-> w.text, value |-> w.value, size |-> w.size, ends |-> w.ends]
  BY DEF T!Word
<1>5. w \in T!Words
  <2>1. w.text \in {"R", "W", "I", "DB", "DW", "data", "address", "other"}
        /\ w.value \in Nat /\ w.size \in Nat /\ w.ends \in {"space", "newline", "end"}
    BY <1>1, <1>3
  <2> QED
    BY <1>4, <2>1, Zenon DEF T!Words
<1>6. IsType(w)
  <2>1. T!Stored(w) = w.size /\ w.size <= 2
    BY <1>1, <1>3 DEF T!Stored
  <2> QED
    BY <1>1, <1>2, <1>3, <2>1 DEF IsType, T!MAX_TYPE_SIZE
<1> QED
  BY <1>1, <1>2, <1>3, <1>5, <1>6

LEMMA CommandIsPrinted ==
  ASSUME NEW c \in Commands, IsAccepted(c)
  PROVE  LET s == T!PrintedCommand(c)
         IN  /\ s \in Seq(T!Words)
             /\ c.order = READ =>
                  /\ Len(s) = 3 /\ s[1].text = "R"
                  /\ IsFetch(s) <=> ~ LosesSize(c)
                  /\ FetchOf(s) = c
             /\ c.order = WRITE =>
                  /\ Len(s) = 4 /\ s[1].text = "W"
                  /\ IsStore(s) <=> ~ LosesSize(c)
                  /\ StoreOf(s) = c
<1> DEFINE first   == T!Word(IF c.order = READ THEN "R" ELSE "W", 0, 1, "space")
           type    == T!Word(T!Letters(c), 0, IF c.type = INSTRUCTION THEN 1 ELSE 2, "space")
           address == T!print_uint_64(c.page_offset)
           data    == T!Word("data", c.write_data,
                             T!Digits(c.write_data, IF c.data_size = 1 THEN 2 ELSE 8), "space")
           s       == T!PrintedCommand(c)
<1>1. s = IF c.order = READ THEN << first, type, address >>
          ELSE << first, type, data, address >>
  BY PrintedIs
<1>2. c = Parsing(c.order, c.type, c.data_size, c.write_data, c.page_offset)
      /\ c.write_data \in Nat /\ c.page_offset \in Nat
      /\ (c.order = READ => c.write_data = 0) /\ c.order \in {READ, WRITE}
  BY CommandsAssumption DEF Command, Parsing, IsAccepted
<1>3. /\ type \in T!Words /\ IsType(type)
      /\ T!Types[type.text].type = c.type /\ T!Types[type.text].data_size = c.data_size
  BY TypeIsPrinted
<1>4. /\ first \in T!Words /\ T!Stored(first) = 1
      /\ first.text = IF c.order = READ THEN "R" ELSE "W"
  BY DEF T!Word, T!Words, T!Stored
<1>5. /\ address \in T!Words /\ address.value = c.page_offset
      /\ T!IsAddress(c.order, address) <=> ~ LosesSize(c)
  <2>1. /\ address.text = "address" /\ address.size = 19 /\ address.ends = "newline"
        /\ address.value = c.page_offset
    BY DEF T!print_uint_64, T!Word
  <2>2. T!Stored(address) = 20
    BY <2>1 DEF T!Stored
  <2>3. address \in T!Words
    BY <1>2 DEF T!print_uint_64, T!Word, T!Words
  <2> HIDE DEF address
  <2> QED
    BY <2>1, <2>2, <2>3 DEF T!IsAddress, T!VIRT_ADDR_MIN_LENGTH, T!VIRT_ADDR_MAX_LENGTH,
                            T!SizeKept, T!Terminator, T!MAX_SIZE_BUFFER, LosesSize
<1>6. data \in T!Words /\ T!IsWriteData(data) /\ data.value % WORD_VALUES = c.write_data
  <2> DEFINE d == T!Digits(c.write_data, IF c.data_size = 1 THEN 2 ELSE 8)
  <2>1. d \in 4 .. 10
    <3>1. T!Digits(c.write_data, 2) \in 4 .. 10 /\ T!Digits(c.write_data, 8) \in 4 .. 10
      <4>1. T!Digits(c.write_data, 2) \in 2 + 2 .. 10 /\ T!Digits(c.write_data, 8) \in 2 + 8 .. 10
        BY DigitsAre
      <4> QED
        BY <4>1
    <3> QED
      BY <3>1
  <2> HIDE DEF d
  <2>2. data = T!Word("data", c.write_data, d, "space")
    BY DEF d
  <2>3. /\ data.text = "data" /\ data.size = d /\ data.ends = "space"
        /\ data.value = c.write_data
    BY <2>2 DEF T!Word
  <2>4. T!Stored(data) = d
    BY <2>1, <2>3 DEF T!Stored
  <2>5. data \in T!Words
    BY <1>2, <2>1, <2>2 DEF T!Word, T!Words
  <2>6. c.write_data % WORD_VALUES = c.write_data
    <3>1. WORD_VALUES \in Nat /\ c.write_data < WORD_VALUES
      BY WordsAssumption
    <3> QED
      BY <1>2, <3>1
  <2> HIDE DEF data
  <2> QED
    BY <2>1, <2>3, <2>4, <2>5, <2>6
       DEF T!IsWriteData, T!WRITE_DATA_MIN_LENGTH, T!WRITE_DATA_MAX_LENGTH
<1> HIDE DEF first, type, address, data, s
<1>7. CASE c.order = READ
  <2>1. s = << first, type, address >> /\ c.order # WRITE
    BY <1>1, <1>7 DEF READ, WRITE
  <2>2. s \in Seq(T!Words) /\ Len(s) = 3
    BY <1>3, <1>4, <1>5, <2>1
  <2>3. s[1].text = "R" /\ (IsFetch(s) <=> ~ LosesSize(c))
    BY <1>3, <1>4, <1>5, <1>7, <2>1, <2>2 DEF IsFetch, READ
  <2>4. FetchOf(s) = c
    BY <1>2, <1>3, <1>5, <1>7, <2>1 DEF FetchOf, READ
  <2> QED
    BY <2>1, <2>2, <2>3, <2>4 DEF s
<1>8. CASE c.order = WRITE
  <2>1. s = << first, type, data, address >> /\ c.order # READ
    BY <1>1, <1>8 DEF READ, WRITE
  <2>2. s \in Seq(T!Words) /\ Len(s) = 4
    BY <1>3, <1>4, <1>5, <1>6, <2>1
  <2>3. s[1].text = "W" /\ (IsStore(s) <=> ~ LosesSize(c))
    BY <1>3, <1>4, <1>5, <1>6, <1>8, <2>1, <2>2 DEF IsStore, READ, WRITE
  <2>4. StoreOf(s) = c
    BY <1>2, <1>3, <1>5, <1>6, <1>8, <2>1 DEF StoreOf, WRITE
  <2> QED
    BY <2>1, <2>2, <2>3, <2>4 DEF s
<1> QED
  BY <1>2, <1>7, <1>8

LEMMA LeftOfConcat ==
  ASSUME NEW S, NEW s \in Seq(S), NEW t \in Seq(S)
  PROVE  Left(s \o t, Len(s)) = t
<1>1. /\ s \o t \in Seq(S) /\ Len(s \o t) = Len(s) + Len(t)
      /\ \A i \in 1 .. Len(s) + Len(t) :
           (s \o t)[i] = IF i <= Len(s) THEN s[i] ELSE t[i - Len(s)]
  BY ConcatProperties
<1>2. Len(s) \in Nat /\ Len(t) \in Nat
  BY LenProperties
<1> DEFINE u == s \o t
<1> HIDE DEF u
<1>3. u \in Seq(S) /\ Len(u) = Len(s) + Len(t) /\ Len(s) \in 0 .. Len(u)
  BY <1>1, <1>2 DEF u
<1>4. /\ Left(u, Len(s)) \in Seq(S) /\ Len(Left(u, Len(s))) = Len(u) - Len(s)
      /\ \A i \in 1 .. Len(u) - Len(s) : Left(u, Len(s))[i] = u[Len(s) + i]
  BY <1>3, LeftIs
<1>5. Len(Left(u, Len(s))) = Len(t)
  BY <1>2, <1>3, <1>4
<1>6. ASSUME NEW i \in 1 .. Len(t)
      PROVE  Left(u, Len(s))[i] = t[i]
  <2>1. /\ Len(s) + i \in 1 .. Len(s) + Len(t) /\ ~ (Len(s) + i <= Len(s))
        /\ (Len(s) + i) - Len(s) = i /\ i \in 1 .. Len(u) - Len(s)
    BY <1>2, <1>3
  <2> QED
    BY <1>1, <1>4, <2>1 DEF u
<1>7. Left(u, Len(s)) = t
  BY <1>4, <1>5, <1>6, SeqEqual
<1> QED
  BY <1>7 DEF u

LEMMA NotEmpty ==
  ASSUME NEW S, NEW s \in Seq(S), Len(s) > 0
  PROVE  s # << >>
BY EmptySeq

LEMMA PrintedIsRead ==
  ASSUME NEW c \in Commands, IsAccepted(c), NEW u \in Seq(T!Words)
  PROVE  LET s == T!PrintedCommand(c) \o u
             r == T!readCommand(s)
         IN  /\ s \in Seq(T!Words) /\ Len(s) > Len(u)
             /\ IF LosesSize(c) THEN r.err # "ERR_NONE"
                ELSE r.err = "ERR_NONE" /\ r.command = c /\ r.rest = u
<1> DEFINE P == T!PrintedCommand(c)
           s == P \o u
           r == T!readCommand(s)
<1>1. /\ P \in Seq(T!Words)
      /\ c.order = READ => /\ Len(P) = 3 /\ P[1].text = "R" /\ FetchOf(P) = c
                           /\ IsFetch(P) <=> ~ LosesSize(c)
      /\ c.order = WRITE => /\ Len(P) = 4 /\ P[1].text = "W" /\ StoreOf(P) = c
                            /\ IsStore(P) <=> ~ LosesSize(c)
      /\ c.order \in {READ, WRITE}
  BY CommandIsPrinted, CommandsAssumption DEF Command
<1> HIDE DEF P
<1>2. Len(u) \in Nat /\ Len(P) \in {3, 4}
  BY <1>1, LenProperties
<1>3. /\ s \in Seq(T!Words) /\ Len(s) = Len(P) + Len(u)
      /\ \A i \in 1 .. Len(P) : s[i] = P[i]
  <2>1. /\ P \o u \in Seq(T!Words) /\ Len(P \o u) = Len(P) + Len(u)
        /\ \A i \in 1 .. Len(P) + Len(u) :
             (P \o u)[i] = IF i <= Len(P) THEN P[i] ELSE u[i - Len(P)]
    BY <1>1, ConcatProperties
  <2> QED
    BY <1>2, <2>1
<1>4. Left(s, Len(P)) = u
  BY <1>1, LeftOfConcat
<1> HIDE DEF s
<1>5. Len(s) > Len(u) /\ Len(s) > 0
  <2> DEFINE a == Len(P)
             b == Len(u)
             d == Len(s)
  <2>1. d = a + b /\ a \in {3, 4} /\ b \in Nat
    BY <1>2, <1>3
  <2> HIDE DEF a, b, d
  <2>2. d > b /\ d > 0
    BY <2>1
  <2> QED
    BY <2>2 DEF b, d
<1>6. s # << >>
  BY <1>3, <1>5, NotEmpty
<1>7. CASE c.order = READ
  <2>1. /\ Len(P) = 3 /\ P[1].text = "R" /\ FetchOf(P) = c
        /\ IsFetch(P) <=> ~ LosesSize(c)
    BY <1>1, <1>7
  <2>2. s[1] = P[1] /\ s[2] = P[2] /\ s[3] = P[3] /\ Len(s) >= 3
    BY <1>2, <1>3, <2>1
  <2>3. (IsFetch(s) <=> ~ LosesSize(c)) /\ FetchOf(s) = c /\ ~ IsStore(s)
    BY <2>1, <2>2 DEF IsFetch, IsStore, FetchOf
  <2>4. IF LosesSize(c) THEN r.err # "ERR_NONE" ELSE r = Parser(c, s[3], u, "ERR_NONE")
    BY <1>3, <1>4, <1>6, <2>1, <2>3, CommandIsRead
  <2> QED
    BY <1>3, <1>5, <2>4 DEF Parser, s, P
<1>8. CASE c.order = WRITE
  <2>1. /\ Len(P) = 4 /\ P[1].text = "W" /\ StoreOf(P) = c
        /\ IsStore(P) <=> ~ LosesSize(c)
    BY <1>1, <1>8
  <2>2. s[1] = P[1] /\ s[2] = P[2] /\ s[3] = P[3] /\ s[4] = P[4] /\ Len(s) >= 4
    BY <1>2, <1>3, <2>1
  <2>3. (IsStore(s) <=> ~ LosesSize(c)) /\ StoreOf(s) = c /\ ~ IsFetch(s)
    BY <2>1, <2>2 DEF IsStore, StoreOf, IsFetch
  <2>4. IF LosesSize(c) THEN r.err # "ERR_NONE" ELSE r = Parser(c, s[4], u, "ERR_NONE")
    BY <1>3, <1>4, <1>6, <2>1, <2>3, CommandIsRead
  <2> QED
    BY <1>3, <1>5, <2>4 DEF Parser, s, P
<1> QED
  BY <1>1, <1>7, <1>8

(***************************************************************************)
(* The rounds of program_print.                                            *)
(***************************************************************************)
PrintRounds(lines, N, f) ==
  f = [n \in 0 .. N |-> IF n = 0 THEN << >>
                        ELSE T!PrintedCommand(lines[Len(lines) - n + 1]) \o f[n - 1]]

LEMMA PrintsInRounds ==
  ASSUME NEW lines, NEW N \in Nat
  PROVE  \E f : PrintRounds(lines, N, f)
<1> DEFINE D == {n \in 0 .. N : \E f : PrintRounds(lines, n, f)}
           P == [n \in 0 .. N |-> T!PrintedCommand(lines[Len(lines) - n + 1])]
<1>1. 0 \in D
  <2>1. PrintRounds(lines, 0, [n \in 0 .. 0 |-> << >>])
    BY DEF PrintRounds
  <2> QED
    BY <2>1
<1>2. ASSUME NEW k \in 1 .. N, k - 1 \in D
      PROVE  k \in D
  <2>1. PICK f : PrintRounds(lines, k - 1, f)
    BY <1>2
  <2> DEFINE g == [n \in 0 .. k |-> IF n = k THEN P[k] \o f[k - 1] ELSE f[n]]
  <2>2. ASSUME NEW n \in 0 .. k
        PROVE  g[n] = IF n = 0 THEN << >> ELSE P[n] \o g[n - 1]
    <3>1. n < k => n \in 0 .. k - 1 /\ (n # 0 => n - 1 \in 0 .. k - 1)
      OBVIOUS
    <3>2. \A m \in 0 .. k - 1 : f[m] = IF m = 0 THEN << >> ELSE P[m] \o f[m - 1]
      <4>1. \A m \in 0 .. k - 1 : P[m] = T!PrintedCommand(lines[Len(lines) - m + 1])
        OBVIOUS
      <4> HIDE DEF P
      <4> QED
        BY <2>1, <4>1 DEF PrintRounds
    <3> HIDE DEF P
    <3>3. \A m \in 0 .. k - 1 : g[m] = f[m]
      OBVIOUS
    <3>4. g[k] = P[k] \o f[k - 1] /\ k # 0 /\ k - 1 \in 0 .. k - 1
      OBVIOUS
    <3> HIDE DEF g
    <3>5. CASE n = k
      BY <3>3, <3>4, <3>5
    <3>6. CASE n < k
      BY <3>1, <3>2, <3>3, <3>6
    <3> QED
      BY <3>5, <3>6
  <2>3. PrintRounds(lines, k, g)
    <3>1. g = [n \in 0 .. k |-> g[n]] /\ \A n \in 0 .. k :
            P[n] = T!PrintedCommand(lines[Len(lines) - n + 1])
      OBVIOUS
    <3> HIDE DEF g, P
    <3> QED
      BY <2>2, <3>1 DEF PrintRounds
  <2> QED
    BY <2>3
<1>3. 0 .. N \subseteq D
  <2> HIDE DEF D
  <2> QED
    BY <1>1, <1>2, EveryRound
<1> QED
  BY <1>3

LEMMA ProgramPrintIs ==
  ASSUME NEW lines, Len(lines) \in Nat
  PROVE  \E f : /\ f[0] = << >>
                /\ \A n \in 1 .. Len(lines) :
                     f[n] = T!PrintedCommand(lines[Len(lines) - n + 1]) \o f[n - 1]
                /\ T!program_print(lines) = f[Len(lines)]
<1> DEFINE at == CHOOSE f : PrintRounds(lines, Len(lines), f)
<1>1. PrintRounds(lines, Len(lines), at)
  BY PrintsInRounds
<1>2. T!program_print(lines) = at[Len(lines)]
  BY DEF T!program_print, PrintRounds
<1> HIDE DEF at
<1> QED
  BY <1>1, <1>2 DEF PrintRounds

(* Up to the first line whose reader loses the size of the address, the    *)
(* parser has n lines after n rounds, and the text of the others.          *)
LEMMA PrintIsParsed ==
  ASSUME NEW lines \in Seq(Commands),
         \A i \in 1 .. Len(lines) : IsAccepted(lines[i]),
         NEW K \in 0 .. Len(lines),
         \A i \in 1 .. K : ~ LosesSize(lines[i]),
         K < Len(lines) => LosesSize(lines[K + 1])
  PROVE  Parsed(T!program_print(lines)) =
           SubSeq(lines, 1, K) \o IF K = Len(lines) THEN << >> ELSE << Malformed >>
<1> DEFINE L == Len(lines)
<1>1. L \in Nat /\ K \in Nat /\ \A i \in 1 .. L : lines[i] \in Commands
  BY LenProperties, ElementOfSeq
<1>2. PICK t : /\ t[0] = << >>
               /\ \A n \in 1 .. L :
                    t[n] = T!PrintedCommand(lines[L - n + 1]) \o t[n - 1]
               /\ T!program_print(lines) = t[L]
  BY <1>1, ProgramPrintIs
<1>3. ASSUME NEW n \in 1 .. L, t[n - 1] \in Seq(T!Words)
      PROVE  LET r == T!readCommand(t[n])
             IN  /\ t[n] \in Seq(T!Words) /\ Len(t[n]) > Len(t[n - 1])
                 /\ IF LosesSize(lines[L - n + 1]) THEN r.err # "ERR_NONE"
                    ELSE /\ r.err = "ERR_NONE" /\ r.command = lines[L - n + 1]
                         /\ r.rest = t[n - 1]
  <2>1. L - n + 1 \in 1 .. L
    BY <1>1
  <2>2. lines[L - n + 1] \in Commands /\ IsAccepted(lines[L - n + 1])
    BY <1>1, <2>1
  <2> DEFINE c == lines[L - n + 1]
             u == t[n - 1]
  <2>3. t[n] = T!PrintedCommand(c) \o u
    BY <1>2
  <2>4. c \in Commands /\ IsAccepted(c) /\ u \in Seq(T!Words)
    BY <1>3, <2>2
  <2> HIDE DEF c, u
  <2>5. LET s == T!PrintedCommand(c) \o u
            r == T!readCommand(s)
        IN  /\ s \in Seq(T!Words) /\ Len(s) > Len(u)
            /\ IF LosesSize(c) THEN r.err # "ERR_NONE"
               ELSE r.err = "ERR_NONE" /\ r.command = c /\ r.rest = u
    BY <2>4, PrintedIsRead
  <2>6. LET r == T!readCommand(t[n])
        IN  /\ t[n] \in Seq(T!Words) /\ Len(t[n]) > Len(u)
            /\ IF LosesSize(c) THEN r.err # "ERR_NONE"
               ELSE r.err = "ERR_NONE" /\ r.command = c /\ r.rest = u
    BY <2>3, <2>5
  <2> QED
    BY <2>6 DEF c, u
<1>4. \A n \in 0 .. L : t[n] \in Seq(T!Words) /\ Len(t[n]) >= n
  <2> DEFINE D == {n \in 0 .. L : t[n] \in Seq(T!Words) /\ Len(t[n]) >= n}
  <2>1. 0 \in D
    <3>1. << >> \in Seq(T!Words) /\ Len(<< >>) = 0
      BY EmptySeq
    <3>2. 0 \in 0 .. L
      BY <1>1
    <3>3. t[0] \in Seq(T!Words) /\ Len(t[0]) = 0
      <4>1. t[0] = << >>
        BY <1>2
      <4> QED
        BY <3>1, <4>1, Zenon
    <3>4. Len(t[0]) >= 0
      BY <3>3
    <3> QED
      BY <3>2, <3>3, <3>4
  <2>2. ASSUME NEW k \in 1 .. L, k - 1 \in D
        PROVE  k \in D
    <3>1. t[k - 1] \in Seq(T!Words) /\ Len(t[k - 1]) >= k - 1
      BY <2>2
    <3>2. t[k] \in Seq(T!Words) /\ Len(t[k]) > Len(t[k - 1])
      BY <1>3, <3>1
    <3>3. Len(t[k]) \in Nat /\ Len(t[k - 1]) \in Nat
      BY <3>1, <3>2, LenProperties
    <3> QED
      BY <3>1, <3>2, <3>3
  <2>3. 0 .. L \subseteq D
    <3> HIDE DEF D, L
    <3> QED
      BY <1>1, <2>1, <2>2, EveryRound
  <2> QED
    BY <2>3
<1> DEFINE W == t[L]
           N == Len(W)
<1>5. W \in Seq(T!Words) /\ N \in Nat /\ L <= N
  <2>1. L \in 0 .. L
    BY <1>1
  <2>2. W \in Seq(T!Words) /\ N >= L
    BY <1>4, <2>1
  <2> QED
    BY <1>1, <2>2, LenProperties
<1>6. PICK f : /\ f[0] = [lines |-> << >>, rest |-> W]
               /\ \A n \in 1 .. N : f[n] = Parses(f[n - 1])
               /\ Parsed(W) = f[N].lines
  BY <1>5, ParsedIs
<1> DEFINE State(n) == [lines |-> SubSeq(lines, 1, n), rest |-> t[L - n]]
<1>7. ASSUME NEW k \in 0 .. K
      PROVE  SubSeq(lines, 1, k) \in Seq(Commands)
  <2>1. 1 \in Int /\ k \in Int /\ \A i \in 1 .. k : lines[i] \in Commands
    BY <1>1
  <2> QED
    BY <2>1, SubSeqProperties
<1>8. ASSUME NEW m \in 1 .. L
      PROVE  t[m] # << >> /\ LET r == T!readCommand(t[m])
                              IN  IF LosesSize(lines[L - m + 1]) THEN r.err # "ERR_NONE"
                                  ELSE /\ r.err = "ERR_NONE" /\ r.rest = t[m - 1]
                                       /\ r.command = lines[L - m + 1]
  <2>1. m \in 0 .. L /\ m - 1 \in 0 .. L
    BY <1>1
  <2>2. Len(t[m]) >= 1 /\ Len(t[m]) \in Nat
    BY <1>4, <2>1, LenProperties
  <2>3. t[m] # << >>
    BY <2>2
  <2> QED
    BY <1>3, <1>4, <2>1, <2>3
<1>9. \A n \in 0 .. K : f[n] = State(n)
  <2> DEFINE D == {n \in 0 .. K : f[n] = State(n)}
  <2>1. 0 \in D
    <3>1. SubSeq(lines, 1, 0) = << >> /\ L - 0 = L
      BY <1>1, SubSeqEmpty
    <3> QED
      BY <1>1, <1>6, <3>1
  <2>2. ASSUME NEW k \in 1 .. K, k - 1 \in D
        PROVE  k \in D
    <3> DEFINE m == L - (k - 1)
    <3>1. /\ m \in 1 .. L /\ m - 1 = L - k /\ L - m + 1 = k
          /\ k \in 1 .. N /\ k \in 1 .. L /\ k \in 0 .. K /\ k - 1 \in 0 .. K
      BY <1>1, <1>5
    <3>2. f[k - 1] = [lines |-> SubSeq(lines, 1, k - 1), rest |-> t[m]]
      BY <2>2
    <3> HIDE DEF m
    <3>3. ~ LosesSize(lines[k])
      OBVIOUS
    <3>4. LET r == T!readCommand(t[m])
          IN  /\ t[m] # << >>
              /\ r.err = "ERR_NONE" /\ r.command = lines[k] /\ r.rest = t[m - 1]
      BY <1>8, <3>1, <3>3
    <3>5. Parses(f[k - 1]) = [lines |-> Append(SubSeq(lines, 1, k - 1), lines[k]),
                              rest |-> t[m - 1]]
      <4> DEFINE s == f[k - 1]
                 r == T!readCommand(t[m])
      <4>1. s.rest = t[m] /\ s.lines = SubSeq(lines, 1, k - 1)
        BY <3>2
      <4>2. t[m] # << >> /\ r.err = "ERR_NONE" /\ r.command = lines[k] /\ r.rest = t[m - 1]
        BY <3>4
      <4> HIDE DEF s
      <4>3. Parses(s) = [lines |-> Append(s.lines, r.command), rest |-> r.rest]
        BY <4>1, <4>2 DEF Parses
      <4> HIDE DEF r
      <4> QED
        BY <4>1, <4>2, <4>3 DEF s
    <3>6. Append(SubSeq(lines, 1, k - 1), lines[k]) = SubSeq(lines, 1, k)
      <4>1. 1 \in 1 .. Len(lines) /\ k \in 1 .. Len(lines)
        BY <3>1
      <4>2. SubSeq(lines, 1, k) = SubSeq(lines, 1, k - 1) \o << lines[k] >>
        BY <4>1, SubSeqRecursiveSecond
      <4> QED
        BY <1>1, <1>7, <3>1, <4>2, AppendIsConcat
    <3>7. f[k] = State(k)
      BY <1>6, <3>1, <3>5, <3>6
    <3> QED
      BY <3>1, <3>7
  <2>3. 0 .. K \subseteq D
    <3> HIDE DEF D, L
    <3> QED
      BY <1>1, <2>1, <2>2, EveryRound
  <2> QED
    BY <2>3
<1> DEFINE E     == IF K = L THEN K ELSE K + 1
           Final == [lines |-> SubSeq(lines, 1, K)
                                 \o IF K = L THEN << >> ELSE << Malformed >>,
                     rest  |-> << >>]
<1>10. E \in 0 .. N /\ f[E] = Final
  <2>1. f[K] = State(K) /\ SubSeq(lines, 1, K) \in Seq(Commands) /\ K \in 0 .. L
    <3>1. K \in 0 .. K
      BY <1>1
    <3> QED
      BY <1>7, <1>9, <3>1
  <2>2. CASE K = L
    <3>1. f[K] = [lines |-> SubSeq(lines, 1, K), rest |-> << >>]
      <4>1. L - K = 0
        BY <1>1, <2>2
      <4> QED
        BY <1>2, <2>1, <4>1
    <3>2. SubSeq(lines, 1, K) \o << >> = SubSeq(lines, 1, K)
      BY <2>1, ConcatEmptySeq
    <3>3. K \in 0 .. N
      BY <1>1, <1>5
    <3> HIDE DEF State
    <3> QED
      BY <2>2, <3>1, <3>2, <3>3
  <2>3. CASE K # L
    <3> DEFINE m == L - K
    <3>1. m \in 1 .. L /\ L - m + 1 = K + 1 /\ K < L /\ K + 1 \in 1 .. N /\ K + 1 - 1 = K
      BY <1>1, <1>5, <2>3
    <3>2. f[K] = [lines |-> SubSeq(lines, 1, K), rest |-> t[m]]
      BY <2>1
    <3> HIDE DEF m
    <3>3. LosesSize(lines[K + 1])
      BY <3>1
    <3>4. t[m] # << >> /\ T!readCommand(t[m]).err # "ERR_NONE"
      BY <1>8, <3>1, <3>3
    <3>5. Parses(f[K]) = [lines |-> Append(SubSeq(lines, 1, K), Malformed), rest |-> << >>]
      <4> DEFINE s == f[K]
      <4>1. s.rest = t[m] /\ s.lines = SubSeq(lines, 1, K)
        BY <3>2
      <4> HIDE DEF s
      <4>2. Parses(s) = [lines |-> Append(s.lines, Malformed), rest |-> << >>]
        BY <3>4, <4>1 DEF Parses
      <4> QED
        BY <4>1, <4>2 DEF s
    <3>6. Append(SubSeq(lines, 1, K), Malformed) = SubSeq(lines, 1, K) \o << Malformed >>
      <4>1. SubSeq(lines, 1, K) \in Seq(Commands \cup {Malformed})
        <5>1. 1 \in Int /\ K \in Int /\ \A i \in 1 .. K : lines[i] \in Commands \cup {Malformed}
          BY <1>1
        <5> QED
          BY <5>1, SubSeqProperties
      <4> QED
        BY <4>1, AppendIsConcat
    <3>7. f[K + 1] = Parses(f[K])
      BY <1>6, <3>1
    <3>8. E = K + 1 /\ E \in 0 .. N
      BY <1>1, <1>5, <2>3, <3>1
    <3>9. f[E] = [lines |-> SubSeq(lines, 1, K) \o << Malformed >>, rest |-> << >>]
      BY <3>5, <3>6, <3>7, <3>8, Zenon
    <3> QED
      BY <2>3, <3>8, <3>9, Zenon
  <2> QED
    BY <2>2, <2>3
<1> HIDE DEF E
<1>11. \A n \in 0 .. N : n >= E => f[n] = f[E]
  <2> DEFINE D == {n \in 0 .. N : n >= E => f[n] = f[E]}
  <2>1. 0 \in D
    BY <1>5, <1>10
  <2>2. ASSUME NEW k \in 1 .. N, k - 1 \in D
        PROVE  k \in D
    <3>1. CASE k - 1 >= E
      <4>1. f[k - 1] = f[E] /\ f[k] = Parses(f[k - 1])
        BY <1>6, <2>2, <3>1
      <4>2. f[E].rest = << >>
        BY <1>10
      <4> HIDE DEF Final
      <4>3. Parses(f[E]) = f[E]
        BY <4>2 DEF Parses
      <4> QED
        BY <4>1, <4>3
    <3>2. CASE ~ (k - 1 >= E)
      <4>1. k >= E => k = E
        BY <1>5, <1>10, <3>2
      <4> QED
        BY <4>1
    <3> QED
      BY <3>1, <3>2
  <2>3. 0 .. N \subseteq D
    <3> HIDE DEF D, N
    <3> QED
      BY <1>5, <2>1, <2>2, EveryRound
  <2> QED
    BY <2>3
<1>12. Parsed(W) = Final.lines
  <2>1. N \in 0 .. N /\ N >= E
    BY <1>5, <1>10
  <2>2. f[N] = f[E]
    BY <1>11, <2>1
  <2> HIDE DEF Final
  <2> QED
    BY <1>6, <1>10, <2>2
<1> QED
  BY <1>2, <1>12

-----------------------------------------------------------------------------
(***************************************************************************)
(* The releases do what program_read and the callers of src/done do.       *)
(***************************************************************************)
LEMMA TextsAreFiles == ASSUME NEW t \in Texts PROVE t \in Seq(T!Words) /\ Parsed(t) \in Files
BY TextsAssumption

LEMMA ReleasesStepIsRead == [ReleasesNext]_releases_vars => [ReadNext]_rvars
<1> SUFFICES ASSUME [ReleasesNext]_releases_vars PROVE [ReadNext]_rvars
  OBVIOUS
<1>1. ASSUME NEW t \in Texts, OpensAll(t) PROVE ReadNext
  BY <1>1, TextsAreFiles, Zenon DEF OpensAll, ReadNext
<1>2. CASE Uses(CallBegins \/ CallProceeds \/ CallFails)
  <2>1. reader = "none" /\ UNCHANGED << reader, stream >>
    BY <1>2 DEF Uses
  <2>2. CallBegins => Next
    BY Zenon DEF CallBegins, InitBoth, FreeBoth, AddRefusedBoth, Next
  <2>3. CallProceeds => Next
    BY Zenon DEF CallProceeds, Next
  <2>4. CallFails => Next
    BY Zenon DEF CallFails, Next
  <2>5. Next
    BY <1>2, <2>2, <2>3, <2>4, Zenon DEF Uses
  <2> QED
    BY <2>1, <2>5, Zenon DEF Uses, ReadNext
<1>3. CASE CannotOpenAny \/ FailsInLine \/ FailsBeforeLine \/ CannotAddRead \/ CannotShrinkRead
  BY <1>3, Zenon DEF CannotOpenAny, FailsInLine, FailsBeforeLine, CannotAddRead,
                     CannotShrinkRead, ReadNext
<1>4. CASE RefusesText \/ ReadsCommandText \/ AddsRead \/ ReachesEndOfText \/ ShrinksRead
  BY <1>4, Zenon DEF RefusesText, ReadsCommandText, AddsRead, ReachesEndOfText,
                     ShrinksRead, ReadNext
<1>5. CASE UNCHANGED releases_vars
  BY <1>5, Zenon DEF releases_vars
<1> QED
  BY <1>1, <1>2, <1>3, <1>4, <1>5, Zenon DEF ReleasesNext

LEMMA ReleasesInitIsRead == ReleasesInit => ReadInit
BY DEF ReleasesInit

(***************************************************************************)
(* Nothing but accepted commands get into a program: program_print finds   *)
(* no line that it would refuse to print.                                  *)
(***************************************************************************)
LinesAccepted ==
  /\ \A i \in 0 .. nb_lines - 1 : IsAccepted(listing[i])
  /\ op = "adding" => IsAccepted(command)

LEMMA AcceptedNext ==
  ASSUME IInv, LinesAccepted, [Next]_vars
  PROVE  LinesAccepted'
<1>1. nb_lines \in Nat
  BY DEF IInv, TypeOK
<1>2. CASE AddStores
  <2>1. /\ nb_lines' = nb_lines + 1 /\ op' = "idle" /\ op = "adding"
        /\ listing' = Stored(listing, nb_lines, command)
        /\ DOMAIN listing = 0 .. allocated - 1 /\ allocated \in Nat
        /\ nb_lines < allocated
    BY <1>2 DEF AddStores, NeedsRoom, Returns, IInv, TypeOK, ListingFits
  <2>2. IsAccepted(command)
    BY <2>1 DEF LinesAccepted
  <2>3. ASSUME NEW i \in 0 .. nb_lines
        PROVE  listing'[i] = IF i = nb_lines THEN command ELSE listing[i]
    <3>1. i \in DOMAIN listing
      BY <1>1, <2>1
    <3> QED
      BY <2>1, <3>1 DEF Stored
  <2>4. ASSUME NEW i \in 0 .. nb_lines' - 1 PROVE IsAccepted(listing'[i])
    <3>1. i \in 0 .. nb_lines /\ (i # nb_lines => i \in 0 .. nb_lines - 1)
      BY <1>1, <2>1
    <3>2. i = nb_lines => listing'[i] = command
      BY <2>3, <3>1
    <3>3. i # nb_lines => listing'[i] = listing[i] /\ IsAccepted(listing[i])
      BY <2>3, <3>1 DEF LinesAccepted
    <3> QED
      BY <2>2, <3>2, <3>3, Zenon
  <2> QED
    BY <2>1, <2>4 DEF LinesAccepted
<1>3. ASSUME NEW size \in Nat \ {0}, nb_lines <= size, resize_succeeds(size)
      PROVE  nb_lines' = nb_lines /\ \A i \in 0 .. nb_lines - 1 : listing'[i] = listing[i]
  BY <1>3, ResizeFits DEF resize_succeeds
<1>4. ASSUME nb_lines' = nb_lines, \A i \in 0 .. nb_lines - 1 : listing'[i] = listing[i],
             op' = "adding" => IsAccepted(command')
      PROVE  LinesAccepted'
  <2>1. ASSUME NEW i \in 0 .. nb_lines' - 1 PROVE IsAccepted(listing'[i])
    <3>1. listing'[i] = listing[i] /\ IsAccepted(listing[i])
      BY <1>4 DEF LinesAccepted
    <3> QED
      BY <3>1, Zenon
  <2> QED
    BY <1>4, <2>1 DEF LinesAccepted
<1>5. CASE AddGrows
  <2>1. 2 * allocated \in Nat \ {0} /\ nb_lines <= 2 * allocated
    BY <1>5 DEF AddGrows, resize_succeeds, IInv, TypeOK, ListingFits
  <2>2. op = "adding" /\ op' = op /\ command' = command /\ resize_succeeds(2 * allocated)
    BY <1>5 DEF AddGrows, NeedsRoom
  <2> QED
    BY <1>3, <1>4, <2>1, <2>2 DEF LinesAccepted
<1>6. CASE ShrinkResizes
  <2>1. ShrinkSize \in Nat \ {0} /\ nb_lines <= ShrinkSize
    BY <1>1, StartAssumption DEF ShrinkSize
  <2>2. op' # "adding"
    BY <1>6 DEF ShrinkResizes, MustShrink, Returns
  <2> QED
    BY <1>3, <1>4, <1>6, <2>1, <2>2 DEF ShrinkResizes
<1>7. CASE program_init \/ program_free
  <2>1. nb_lines' = 0 /\ op' = "idle"
    BY <1>7 DEF program_init, program_free
  <2> QED
    BY <2>1 DEF LinesAccepted
<1>8. CASE \/ \E c \in Commands : AddRefused(c) \/ AddBegins(c)
           \/ AddFails \/ ShrinkBegins \/ ShrinkRefused \/ ShrinkFails \/ ShrinkEnds
  <2>1. UNCHANGED << listing, nb_lines >>
    BY <1>8 DEF AddRefused, AddBegins, AddFails, resize_fails, ShrinkBegins,
                ShrinkRefused, ShrinkFails, ShrinkEnds
  <2>2. op' = "adding" => IsAccepted(command')
    BY <1>8 DEF AddRefused, AddBegins, AddFails, Returns, ShrinkBegins,
                ShrinkRefused, ShrinkFails, ShrinkEnds
  <2> QED
    BY <1>4, <2>1, <2>2
<1>9. CASE UNCHANGED vars
  BY <1>9 DEF vars, LinesAccepted
<1> QED
  BY <1>2, <1>5, <1>6, <1>7, <1>8, <1>9 DEF Next

LEMMA AcceptedRead ==
  ASSUME ReadInv, LinesAccepted, [ReadNext]_rvars
  PROVE  LinesAccepted'
<1>1. CASE [Next]_vars
  BY <1>1, AcceptedNext DEF ReadInv
<1>2. CASE ProgramKept
  BY <1>2 DEF ProgramKept, LinesAccepted
<1> QED
  BY <1>1, <1>2, ReadActsOnProgram DEF ReadInv

LEMMA LinesAreReadBack == IInv /\ LinesAccepted => ReadsWhatItPrints
<1> SUFFICES ASSUME IInv, LinesAccepted, NEW k \in 0 .. Len(Lines),
                    \A i \in 1 .. k : ~ LosesSize(Lines[i]),
                    k < Len(Lines) => LosesSize(Lines[k + 1])
             PROVE  Parsed(T!program_print(Lines)) =
                      SubSeq(Lines, 1, k)
                        \o IF k = Len(Lines) THEN << >> ELSE << Malformed >>
  BY DEF ReadsWhatItPrints
<1>1. Lines \in Seq(Commands) /\ Len(Lines) = nb_lines /\ nb_lines \in Nat
  BY LinesTyped DEF IInv, TypeOK
<1>2. ASSUME NEW i \in 1 .. Len(Lines) PROVE IsAccepted(Lines[i])
  <2>1. i - 1 \in 0 .. nb_lines - 1 /\ Lines[i] = listing[i - 1]
    BY <1>1 DEF Lines
  <2>2. IsAccepted(listing[i - 1])
    BY <2>1 DEF LinesAccepted
  <2> QED
    BY <2>1, <2>2, Zenon
<1> DEFINE lines == Lines
<1> HIDE DEF lines
<1>3. /\ lines \in Seq(Commands) /\ \A i \in 1 .. Len(lines) : IsAccepted(lines[i])
      /\ k \in 0 .. Len(lines) /\ \A i \in 1 .. k : ~ LosesSize(lines[i])
      /\ k < Len(lines) => LosesSize(lines[k + 1])
  BY <1>1, <1>2 DEF lines
<1>4. Parsed(T!program_print(lines)) =
        SubSeq(lines, 1, k) \o IF k = Len(lines) THEN << >> ELSE << Malformed >>
  BY <1>3, PrintIsParsed
<1> QED
  BY <1>4 DEF lines

(***************************************************************************)
(* Whatever calls, files and failures made a program, the text that        *)
(* program_print writes of it is read back as the same lines, up to the    *)
(* first one, if any, whose reader lost the size of its address to the 0   *)
(* that handle_virt_addr wrote behind the buffer.  In a build that puts    *)
(* nothing there, no line is.                                              *)
(***************************************************************************)
THEOREM PrintedIsReadBack == ReleasesSpec => []ReadsWhatItPrints
<1>1. ReadInit => LinesAccepted
  BY DEF ReadInit, LinesAccepted
<1>2. ReadInv /\ LinesAccepted /\ [ReadNext]_rvars => LinesAccepted'
  BY AcceptedRead
<1>3. ReadInv /\ LinesAccepted => ReadsWhatItPrints
  BY LinesAreReadBack DEF ReadInv
<1> QED
  BY <1>1, <1>2, <1>3, ReleasesInitIsRead, ReleasesStepIsRead, ReadInitInv, ReadNextInv, PTL
     DEF ReleasesSpec

(***************************************************************************)
(* A behaviour of the releases is one of program_read: its theorems hold   *)
(* of the reads from a text, too.                                          *)
(***************************************************************************)
THEOREM ReleasesAreReads == ReleasesSpec => ReadSpec
BY ReleasesInitIsRead, ReleasesStepIsRead, PTL DEF ReleasesSpec, ReadSpec

(***************************************************************************)
(* The graded releases read a text like src/done.                          *)
(***************************************************************************)
LEMMA ReadsAlike == \A s : P2!readCommand(s) = T!readCommand(s)
<1> USE DEF T!MAX_SIZE_BUFFER, P2!MAX_SIZE_BUFFER, T!Stored, P2!Stored,
            T!Fails, P2!Fails, T!Then, P2!Then
<1>1. P2!EndOfFile = T!EndOfFile /\ P2!Zero = T!Zero /\ P2!Types = T!Types
  BY DEF T!EndOfFile, P2!EndOfFile, T!Zero, P2!Zero, T!Types, P2!Types,
         T!Word, P2!Word
<1>2. \A r : P2!readUntilNextWhiteSpace(r) = T!readUntilNextWhiteSpace(r)
  BY <1>1 DEF T!readUntilNextWhiteSpace, P2!readUntilNextWhiteSpace
<1>3. \A r : P2!TypeSize(r) = T!TypeSize(r)
  BY <1>1 DEF T!TypeSize, P2!TypeSize, T!MAX_TYPE_SIZE, P2!MAX_TYPE_SIZE
<1>4. \A r : P2!Address(r) = T!Address(r)
  BY DEF T!Address, P2!Address, T!IsAddress, P2!IsAddress,
         T!SizeKept, P2!SizeKept, T!Terminator, P2!Terminator,
         T!VIRT_ADDR_MIN_LENGTH, P2!VIRT_ADDR_MIN_LENGTH,
         T!VIRT_ADDR_MAX_LENGTH, P2!VIRT_ADDR_MAX_LENGTH
<1>5. \A r : P2!WriteData(r) = T!WriteData(r)
  BY DEF T!WriteData, P2!WriteData, T!IsWriteData, P2!IsWriteData,
         T!WRITE_DATA_MIN_LENGTH, P2!WRITE_DATA_MIN_LENGTH,
         T!WRITE_DATA_MAX_LENGTH, P2!WRITE_DATA_MAX_LENGTH
<1>6. \A r : P2!handleTypeSize(r) = T!handleTypeSize(r)
  BY <1>2, <1>3 DEF T!handleTypeSize, P2!handleTypeSize
<1>7. \A r : P2!handle_virt_addr(r) = T!handle_virt_addr(r)
  BY <1>2, <1>4 DEF T!handle_virt_addr, P2!handle_virt_addr
<1>8. \A r : P2!handleRead(r) = T!handleRead(r)
  BY <1>6, <1>7 DEF T!handleRead, P2!handleRead
<1>9. \A r : P2!handleWrite(r) = T!handleWrite(r)
  BY <1>2, <1>5, <1>6, <1>7 DEF T!handleWrite, P2!handleWrite
<1>10. \A r : P2!FirstWord(r) = T!FirstWord(r)
  BY <1>1, <1>8, <1>9 DEF T!FirstWord, P2!FirstWord
<1>11. \A s : P2!Start(s) = T!Start(s)
  BY <1>1 DEF T!Start, P2!Start
<1> QED
  BY <1>2, <1>10, <1>11 DEF T!readCommand, P2!readCommand

-----------------------------------------------------------------------------
(***************************************************************************)
(* The calls of the second release, on a program with these fields.        *)
(***************************************************************************)
Prog(l, n, a, o, e) ==
  [listing |-> l, nb_lines |-> n, allocated |-> a, open |-> o, err |-> e]

LEMMA ReturnsIs ==
  ASSUME NEW l, NEW n, NEW a, NEW o, NEW e, NEW code
  PROVE  P2!Returns(Prog(l, n, a, o, e), code) = Prog(l, n, a, o, code)
BY DEF P2!Returns, Prog

LEMMA InitIs ==
  ASSUME NEW l, NEW n, NEW a, NEW o, NEW e, NEW g
  PROVE  P2!program_init(Prog(l, n, a, o, e), g) =
           Prog(IF g THEN EmptyBlock ELSE NULL, 0, START_COMMANDS_ALLOCATED, o,
                IF g THEN "ERR_NONE" ELSE "ERR_BAD_PARAMETER")
<1> DEFINE p == Prog(l, n, a, o, e)
           block == [i \in 0 .. START_COMMANDS_ALLOCATED - 1 |-> Unwritten]
<1>1. block = EmptyBlock
  BY DEF EmptyBlock
<1>2. P2!program_init(p, g) =
        [p EXCEPT !.listing = IF g THEN block ELSE NULL, !.nb_lines = 0,
                  !.allocated = START_COMMANDS_ALLOCATED,
                  !.err = IF g THEN "ERR_NONE" ELSE "ERR_BAD_PARAMETER"]
  BY DEF P2!program_init
<1> HIDE DEF block
<1> QED
  BY <1>1, <1>2 DEF Prog

LEMMA ResizeIs ==
  ASSUME NEW l, NEW n, NEW a, NEW o, NEW e, NEW size, NEW r
  PROVE  P2!program_resize(Prog(l, n, a, o, e), size, r) =
           IF l = NULL THEN Prog(l, n, a, o, "ERR_BAD_PARAMETER")
           ELSE IF size = r THEN Prog(l, n, a, o, "ERR_MEM")
           ELSE Prog(Resized(l, size), n, size, o, "ERR_NONE")
<1> DEFINE p == Prog(l, n, a, o, e)
           block == [i \in 0 .. size - 1 |-> IF i \in DOMAIN l THEN l[i] ELSE Unwritten]
<1>1. p.listing = l
  BY DEF Prog
<1>2. block = Resized(l, size)
  BY DEF Resized
<1>3. CASE l = NULL
  BY <1>1, <1>3, ReturnsIs DEF P2!program_resize
<1>4. CASE l # NULL /\ size = r
  BY <1>1, <1>4, ReturnsIs DEF P2!program_resize
<1>5. CASE l # NULL /\ size # r
  <2>1. P2!program_resize(p, size, r) =
          [p EXCEPT !.allocated = size, !.listing = block, !.err = "ERR_NONE"]
    BY <1>1, <1>5 DEF P2!program_resize
  <2> HIDE DEF block
  <2> QED
    BY <1>2, <1>5, <2>1 DEF Prog
<1> QED
  BY <1>3, <1>4, <1>5

LEMMA ShrinkIs ==
  ASSUME NEW l, NEW n, NEW a, NEW o, NEW e, NEW r
  PROVE  P2!program_shrink(Prog(l, n, a, o, e), r) =
           LET size == IF n > 0 THEN n ELSE START_COMMANDS_ALLOCATED
           IN  IF n > 0 /\ a <= n THEN Prog(l, n, a, o, "ERR_NONE")
               ELSE IF l = NULL \/ size = r THEN Prog(l, n, a, o, "ERR_MEM")
               ELSE Prog(Resized(l, size), n, size, o, "ERR_NONE")
<1> DEFINE p == Prog(l, n, a, o, e)
           size == IF n > 0 THEN n ELSE START_COMMANDS_ALLOCATED
           q == P2!program_resize(p, size, r)
<1>1. p.nb_lines = n /\ p.allocated = a
  BY DEF Prog
<1>2. q = IF l = NULL THEN Prog(l, n, a, o, "ERR_BAD_PARAMETER")
          ELSE IF size = r THEN Prog(l, n, a, o, "ERR_MEM")
          ELSE Prog(Resized(l, size), n, size, o, "ERR_NONE")
  BY ResizeIs
<1>3. P2!program_shrink(p, r) =
        IF n > 0 /\ a <= n THEN P2!Returns(p, "ERR_NONE")
        ELSE IF q.err = "ERR_NONE" THEN q ELSE P2!Returns(p, "ERR_MEM")
  BY <1>1 DEF P2!program_shrink
<1>4. /\ P2!Returns(p, "ERR_NONE") = Prog(l, n, a, o, "ERR_NONE")
      /\ P2!Returns(p, "ERR_MEM") = Prog(l, n, a, o, "ERR_MEM")
  BY ReturnsIs
<1>5. q.err = IF l = NULL THEN "ERR_BAD_PARAMETER" ELSE IF size = r THEN "ERR_MEM" ELSE "ERR_NONE"
  <2> HIDE DEF q, size
  <2> QED
    BY <1>2 DEF Prog
<1> HIDE DEF q, p
<1>6. P2!program_shrink(p, r) =
        IF n > 0 /\ a <= n THEN Prog(l, n, a, o, "ERR_NONE")
        ELSE IF l = NULL \/ size = r THEN Prog(l, n, a, o, "ERR_MEM")
        ELSE Prog(Resized(l, size), n, size, o, "ERR_NONE")
  <2> HIDE DEF size
  <2> QED
    BY <1>2, <1>3, <1>4, <1>5
<1> QED
  BY <1>6 DEF p

LEMMA AcceptedAlike ==
  ASSUME NEW l, NEW n, NEW a, NEW o, NEW e, NEW c \in Commands
  PROVE  P2!IsAccepted(Prog(l, n, a, o, e), c) <=> l # NULL /\ IsAccepted(c)
<1>1. /\ c.order \in {READ, WRITE} /\ c.type \in {INSTRUCTION, DATA}
      /\ c.data_size \in Nat /\ c.write_data \in Nat /\ c.page_offset \in Nat
  BY CommandsAssumption DEF Command
<1>2. Prog(l, n, a, o, e).listing = l
  BY DEF Prog
<1> QED
  BY <1>1, <1>2 DEF P2!IsAccepted, IsAccepted, P2!BYTE_MAX, BYTE_MAX, READ, WRITE,
     INSTRUCTION, DATA, BYTE_SIZE, WORD_SIZE

-----------------------------------------------------------------------------
(***************************************************************************)
(* The rounds of the loop of program_add_command.                          *)
(***************************************************************************)
GrowRounds(p, r, N, f) ==
  f = [k \in 0 .. N |-> IF k = 0 THEN P2!Returns(p, "ERR_NONE")
                        ELSE P2!Grows(f[k - 1], r)]

LEMMA GrowsInRounds ==
  ASSUME NEW p, NEW r, NEW N \in Nat
  PROVE  \E f : GrowRounds(p, r, N, f)
<1> DEFINE D == {k \in 0 .. N : \E f : GrowRounds(p, r, k, f)}
<1>1. 0 \in D
  <2>1. GrowRounds(p, r, 0, [k \in 0 .. 0 |-> P2!Returns(p, "ERR_NONE")])
    BY DEF GrowRounds
  <2> QED
    BY <2>1
<1>2. ASSUME NEW k \in 1 .. N, k - 1 \in D
      PROVE  k \in D
  <2>1. PICK f : GrowRounds(p, r, k - 1, f)
    BY <1>2
  <2> DEFINE g == [i \in 0 .. k |-> IF i = k THEN P2!Grows(f[k - 1], r) ELSE f[i]]
  <2>2. ASSUME NEW i \in 0 .. k
        PROVE  g[i] = IF i = 0 THEN P2!Returns(p, "ERR_NONE") ELSE P2!Grows(g[i - 1], r)
    <3>1. i < k => i \in 0 .. k - 1 /\ (i # 0 => i - 1 \in 0 .. k - 1)
      OBVIOUS
    <3>2. \A j \in 0 .. k - 1 :
            f[j] = IF j = 0 THEN P2!Returns(p, "ERR_NONE") ELSE P2!Grows(f[j - 1], r)
      BY <2>1 DEF GrowRounds
    <3>3. \A j \in 0 .. k - 1 : g[j] = f[j]
      OBVIOUS
    <3>4. g[k] = P2!Grows(f[k - 1], r) /\ k # 0 /\ k - 1 \in 0 .. k - 1
      OBVIOUS
    <3> HIDE DEF g
    <3>5. CASE i = k
      BY <3>3, <3>4, <3>5
    <3>6. CASE i < k
      BY <3>1, <3>2, <3>3, <3>6
    <3> QED
      BY <3>5, <3>6
  <2>3. GrowRounds(p, r, k, g)
    <3>1. g = [i \in 0 .. k |-> g[i]]
      OBVIOUS
    <3> HIDE DEF g
    <3> QED
      BY <2>2, <3>1 DEF GrowRounds
  <2> QED
    BY <2>3
<1>3. 0 .. N \subseteq D
  <2> HIDE DEF D
  <2> QED
    BY <1>1, <1>2, EveryRound
<1> QED
  BY <1>3

LEMMA GrowRoundsAre ==
  ASSUME NEW p, NEW r, NEW n \in Nat, NEW f, GrowRounds(p, r, n + 1, f)
  PROVE  /\ f[0] = P2!Returns(p, "ERR_NONE")
         /\ \A k \in 1 .. n + 1 : f[k] = P2!Grows(f[k - 1], r)
<1>1. f[0] = P2!Returns(p, "ERR_NONE")
  <2>1. 0 \in 0 .. n + 1
    OBVIOUS
  <2> QED
    BY <2>1 DEF GrowRounds
<1>2. ASSUME NEW k \in 1 .. n + 1 PROVE f[k] = P2!Grows(f[k - 1], r)
  <2>1. k \in 0 .. n + 1 /\ k # 0
    OBVIOUS
  <2> QED
    BY <2>1 DEF GrowRounds
<1> QED
  BY <1>1, <1>2

LEMMA GrownIs ==
  ASSUME NEW p, NEW n \in Nat, p.nb_lines = n, NEW r
  PROVE  \E f : GrowRounds(p, r, n + 1, f) /\ P2!Grown(p, r) = f[n + 1]
<1> DEFINE at == CHOOSE f : GrowRounds(p, r, n + 1, f)
<1>1. GrowRounds(p, r, n + 1, at)
  BY GrowsInRounds
<1>2. P2!Grown(p, r) = at[n + 1]
  BY DEF P2!Grown, GrowRounds
<1> HIDE DEF at
<1> QED
  BY <1>1, <1>2

LEMMA GrowsIs ==
  ASSUME NEW l, NEW n, NEW a, NEW o, NEW e, NEW r
  PROVE  P2!Grows(Prog(l, n, a, o, e), r) =
           IF e # "ERR_NONE" \/ n < a THEN Prog(l, n, a, o, e)
           ELSE IF l = NULL \/ 2 * a = r THEN Prog(l, n, a, o, "ERR_MEM")
           ELSE Prog(Resized(l, 2 * a), n, 2 * a, o, "ERR_NONE")
<1> DEFINE p == Prog(l, n, a, o, e)
           size == 2 * a
           q == P2!program_resize(p, size, r)
<1>1. p.nb_lines = n /\ p.allocated = a /\ p.err = e
  BY DEF Prog
<1>2. q = IF l = NULL THEN Prog(l, n, a, o, "ERR_BAD_PARAMETER")
          ELSE IF size = r THEN Prog(l, n, a, o, "ERR_MEM")
          ELSE Prog(Resized(l, size), n, size, o, "ERR_NONE")
  BY ResizeIs
<1>3. P2!Grows(p, r) =
        IF e # "ERR_NONE" \/ n < a THEN p
        ELSE IF q.err # "ERR_NONE" THEN P2!Returns(p, "ERR_MEM")
        ELSE q
  BY <1>1 DEF P2!Grows
<1>4. P2!Returns(p, "ERR_MEM") = Prog(l, n, a, o, "ERR_MEM")
  BY ReturnsIs
<1>5. q.err = IF l = NULL THEN "ERR_BAD_PARAMETER" ELSE IF size = r THEN "ERR_MEM" ELSE "ERR_NONE"
  <2> HIDE DEF q, size
  <2> QED
    BY <1>2 DEF Prog
<1> HIDE DEF q, p, size
<1>6. P2!Grows(p, r) =
        IF e # "ERR_NONE" \/ n < a THEN p
        ELSE IF l = NULL \/ size = r THEN Prog(l, n, a, o, "ERR_MEM")
        ELSE Prog(Resized(l, size), n, size, o, "ERR_NONE")
  BY <1>2, <1>3, <1>4, <1>5
<1> QED
  BY <1>6 DEF p, size

(* Every round that does not end the loop adds to the allocation.          *)
LEMMA RoundsEnd ==
  ASSUME NEW l, NEW n \in Nat, NEW a \in Nat \ {0}, NEW o, NEW e, NEW r, NEW f,
         GrowRounds(Prog(l, n, a, o, e), r, n + 1, f)
  PROVE  P2!Grows(f[n + 1], r) = f[n + 1]
<1>0. /\ f[0] = Prog(l, n, a, o, "ERR_NONE")
      /\ \A k \in 1 .. n + 1 : f[k] = P2!Grows(f[k - 1], r)
  <2> DEFINE p == Prog(l, n, a, o, e)
  <2>1. P2!Returns(p, "ERR_NONE") = Prog(l, n, a, o, "ERR_NONE")
    BY ReturnsIs
  <2> HIDE DEF p
  <2>2. GrowRounds(p, r, n + 1, f)
    BY DEF p
  <2>3. /\ f[0] = P2!Returns(p, "ERR_NONE")
        /\ \A k \in 1 .. n + 1 : f[k] = P2!Grows(f[k - 1], r)
    BY <2>2, GrowRoundsAre
  <2> QED
    BY <2>1, <2>3
<1> DEFINE Is(k, b, c, x) == f[k] = Prog(b, n, c, o, x)
           D == {k \in 0 .. n + 1 :
                   \E b, x : \E c \in Nat :
                     Is(k, b, c, x) /\ (x # "ERR_NONE" \/ n < c \/ c > k)}
<1>1. 0 \in D
  <2>1. Is(0, l, a, "ERR_NONE") /\ a \in Nat /\ a > 0 /\ 0 \in 0 .. n + 1
    BY <1>0
  <2> HIDE DEF Is
  <2> QED
    BY <2>1
<1>2. ASSUME NEW k \in 1 .. n + 1, k - 1 \in D
      PROVE  k \in D
  <2>1. PICK b, x : \E c \in Nat :
               Is(k - 1, b, c, x) /\ (x # "ERR_NONE" \/ n < c \/ c > k - 1)
    <3> HIDE DEF Is
    <3> QED
      BY <1>2
  <2>2. PICK c \in Nat : Is(k - 1, b, c, x) /\ (x # "ERR_NONE" \/ n < c \/ c > k - 1)
    <3> HIDE DEF Is
    <3> QED
      BY <2>1
  <2>3. f[k] = P2!Grows(Prog(b, n, c, o, x), r)
    BY <1>0, <2>2
  <2>4. f[k] = IF x # "ERR_NONE" \/ n < c THEN Prog(b, n, c, o, x)
               ELSE IF b = NULL \/ 2 * c = r THEN Prog(b, n, c, o, "ERR_MEM")
               ELSE Prog(Resized(b, 2 * c), n, 2 * c, o, "ERR_NONE")
    BY <2>3, GrowsIs
  <2>5. CASE x # "ERR_NONE" \/ n < c
    <3>1. Is(k, b, c, x)
      BY <2>4, <2>5
    <3> HIDE DEF Is
    <3> QED
      BY <2>5, <3>1
  <2>6. CASE ~ (x # "ERR_NONE" \/ n < c) /\ (b = NULL \/ 2 * c = r)
    <3>1. Is(k, b, c, "ERR_MEM")
      BY <2>4, <2>6
    <3> HIDE DEF Is
    <3> QED
      BY <3>1
  <2>7. CASE ~ (x # "ERR_NONE" \/ n < c) /\ ~ (b = NULL \/ 2 * c = r)
    <3>1. Is(k, Resized(b, 2 * c), 2 * c, "ERR_NONE")
      BY <2>4, <2>7
    <3>2. 2 * c \in Nat /\ 2 * c > k
      <4>1. c > k - 1
        BY <2>2, <2>7
      <4> QED
        BY <4>1
    <3> HIDE DEF Is
    <3> QED
      BY <3>1, <3>2
  <2> QED
    BY <2>5, <2>6, <2>7
<1>3. n + 1 \in D
  <2>1. n + 1 \in Nat /\ n + 1 \in 0 .. n + 1
    OBVIOUS
  <2> HIDE DEF D
  <2>2. 0 .. n + 1 \subseteq D
    BY <1>1, <1>2, <2>1, EveryRound
  <2> QED
    BY <2>1, <2>2
<1>4. PICK b, x : \E c \in Nat :
             Is(n + 1, b, c, x) /\ (x # "ERR_NONE" \/ n < c \/ c > n + 1)
  <2> HIDE DEF Is
  <2> QED
    BY <1>3
<1>5. PICK c \in Nat : Is(n + 1, b, c, x) /\ (x # "ERR_NONE" \/ n < c \/ c > n + 1)
  <2> HIDE DEF Is
  <2> QED
    BY <1>4
<1>6. x # "ERR_NONE" \/ n < c
  BY <1>5
<1>7. P2!Grows(Prog(b, n, c, o, x), r) = Prog(b, n, c, o, x)
  BY <1>6, GrowsIs
<1> QED
  BY <1>5, <1>7

LEMMA GrownSteps ==
  ASSUME NEW l, l # NULL, NEW n \in Nat, NEW a \in Nat \ {0}, NEW o, NEW e, NEW r
  PROVE  P2!Grown(Prog(l, n, a, o, e), r) =
           IF n < a THEN Prog(l, n, a, o, "ERR_NONE")
           ELSE IF 2 * a = r THEN Prog(l, n, a, o, "ERR_MEM")
           ELSE P2!Grown(Prog(Resized(l, 2 * a), n, 2 * a, o, "ERR_NONE"), r)
<1> DEFINE p == Prog(l, n, a, o, e)
           d == Prog(l, n, a, o, "ERR_NONE")
<1>1. p.nb_lines = n /\ P2!Returns(p, "ERR_NONE") = d
  BY ReturnsIs DEF Prog
<1> HIDE DEF p
<1>0. PICK f : GrowRounds(p, r, n + 1, f) /\ P2!Grown(p, r) = f[n + 1]
  BY <1>1, GrownIs
<1>2. /\ f[0] = d
      /\ \A k \in 1 .. n + 1 : f[k] = P2!Grows(f[k - 1], r)
      /\ P2!Grown(p, r) = f[n + 1]
  BY <1>0, <1>1, GrowRoundsAre
<1>3. f[1] = P2!Grows(d, r) /\ n + 1 \in Nat /\ n + 1 \in 0 .. n + 1
  <2>1. 1 \in 1 .. n + 1 /\ 1 - 1 = 0
    OBVIOUS
  <2> HIDE DEF d
  <2> QED
    BY <1>2, <2>1
<1>4. CASE n < a
  <2> DEFINE D == {k \in 0 .. n + 1 : f[k] = d}
  <2>1. 0 \in D
    BY <1>2
  <2>2. P2!Grows(d, r) = d
    BY <1>4, GrowsIs
  <2>3. ASSUME NEW k \in 1 .. n + 1, k - 1 \in D PROVE k \in D
    <3> HIDE DEF d
    <3> QED
      BY <1>2, <2>2, <2>3
  <2> HIDE DEF D
  <2>4. n + 1 \in D
    BY <1>3, <2>1, <2>3, EveryRound
  <2> QED
    BY <1>2, <1>4, <2>4 DEF D, p
<1>5. CASE ~ (n < a) /\ 2 * a = r
  <2> DEFINE m == Prog(l, n, a, o, "ERR_MEM")
             D == {k \in 0 .. n + 1 : k > 0 => f[k] = m}
  <2>1. 0 \in D
    OBVIOUS
  <2>2. P2!Grows(d, r) = m /\ P2!Grows(m, r) = m
    BY <1>5, GrowsIs
  <2>3. ASSUME NEW k \in 1 .. n + 1, k - 1 \in D PROVE k \in D
    <3> HIDE DEF d, m
    <3>1. CASE k = 1
      BY <1>3, <2>2, <3>1
    <3>2. CASE k > 1
      BY <1>2, <2>2, <2>3, <3>2
    <3> QED
      BY <3>1, <3>2
  <2> HIDE DEF D
  <2>4. n + 1 \in D
    BY <1>3, <2>1, <2>3, EveryRound
  <2> QED
    BY <1>2, <1>5, <2>4 DEF D, p
<1>6. CASE ~ (n < a) /\ 2 * a # r
  <2> DEFINE q == Prog(Resized(l, 2 * a), n, 2 * a, o, "ERR_NONE")
  <2>1. P2!Grows(d, r) = q
    BY <1>6, GrowsIs
  <2>2. q.nb_lines = n /\ P2!Returns(q, "ERR_NONE") = q
    BY ReturnsIs DEF Prog
  <2> HIDE DEF q
  <2>9. PICK g : GrowRounds(q, r, n + 1, g) /\ P2!Grown(q, r) = g[n + 1]
    BY <2>2, GrownIs
  <2>3. /\ g[0] = q
        /\ \A k \in 1 .. n + 1 : g[k] = P2!Grows(g[k - 1], r)
        /\ P2!Grown(q, r) = g[n + 1]
    BY <2>2, <2>9, GrowRoundsAre
  <2> DEFINE E == {k \in 0 .. n : g[k] = f[k + 1]}
  <2>4. 0 \in E
    <3> HIDE DEF d, q
    <3> QED
      BY <1>3, <2>1, <2>3
  <2>5. ASSUME NEW k \in 1 .. n, k - 1 \in E PROVE k \in E
    <3>1. g[k - 1] = f[k]
      BY <2>5
    <3>2. k \in 1 .. n + 1 /\ k + 1 \in 1 .. n + 1 /\ (k + 1) - 1 = k
      OBVIOUS
    <3>3. g[k] = P2!Grows(g[k - 1], r)
      BY <2>3, <3>2
    <3>4. f[k + 1] = P2!Grows(f[k], r)
      BY <1>2, <3>2
    <3> QED
      BY <3>1, <3>3, <3>4
  <2>6. g[n] = f[n + 1]
    <3> HIDE DEF E
    <3>1. n \in E
      BY <2>4, <2>5, EveryRound
    <3> QED
      BY <3>1 DEF E
  <2>7. P2!Grows(f[n + 1], r) = f[n + 1]
    BY <1>0, RoundsEnd DEF p
  <2>8. g[n + 1] = P2!Grows(g[n], r)
    <3>1. n + 1 \in 1 .. n + 1 /\ (n + 1) - 1 = n
      OBVIOUS
    <3> QED
      BY <2>3, <3>1
  <2>10. P2!Grown(p, r) = P2!Grown(q, r)
    BY <1>2, <2>3, <2>6, <2>7, <2>8
  <2> QED
    BY <1>6, <2>10 DEF p, q
<1> QED
  BY <1>4, <1>5, <1>6

-----------------------------------------------------------------------------
(***************************************************************************)
(* program_add_command of the second release, one round at a time.         *)
(***************************************************************************)
LEMMA AddRefusedIs ==
  ASSUME NEW l, NEW n, NEW a, NEW o, NEW e, NEW r, NEW c \in Commands,
         l = NULL \/ ~ IsAccepted(c)
  PROVE  P2!program_add_command(Prog(l, n, a, o, e), c, r)
           = Prog(l, n, a, o, "ERR_BAD_PARAMETER")
<1>1. ~ P2!IsAccepted(Prog(l, n, a, o, e), c)
  BY AcceptedAlike
<1> QED
  BY <1>1, ReturnsIs DEF P2!program_add_command

LEMMA AddSteps ==
  ASSUME NEW l, l # NULL, NEW n \in Nat, NEW a \in Nat \ {0}, NEW o, NEW e, NEW r,
         DOMAIN l = 0 .. a - 1, NEW c \in Commands, IsAccepted(c)
  PROVE  P2!program_add_command(Prog(l, n, a, o, e), c, r) =
           IF n < a THEN Prog(Stored(l, n, c), n + 1, a, o, "ERR_NONE")
           ELSE IF 2 * a = r THEN Prog(l, n, a, o, "ERR_MEM")
           ELSE P2!program_add_command(Prog(Resized(l, 2 * a), n, 2 * a, o, "ERR_NONE"), c, r)
<1> DEFINE p == Prog(l, n, a, o, e)
           b == Resized(l, 2 * a)
           q == Prog(b, n, 2 * a, o, "ERR_NONE")
           After(s) == IF s.err # "ERR_NONE" THEN s
                       ELSE [s EXCEPT !.listing[s.nb_lines] = c, !.nb_lines = @ + 1]
<1> HIDE DEF p, q
<1>1. P2!program_add_command(p, c, r) = After(P2!Grown(p, r))
  <2>1. P2!IsAccepted(p, c)
    BY AcceptedAlike DEF p
  <2> QED
    BY <2>1 DEF P2!program_add_command
<1>2. P2!Grown(p, r) = IF n < a THEN Prog(l, n, a, o, "ERR_NONE")
                       ELSE IF 2 * a = r THEN Prog(l, n, a, o, "ERR_MEM")
                       ELSE P2!Grown(q, r)
  BY GrownSteps DEF p, q
<1>3. ASSUME n < a
      PROVE  P2!program_add_command(p, c, r) = Prog(Stored(l, n, c), n + 1, a, o, "ERR_NONE")
  <2> DEFINE s == Prog(l, n, a, o, "ERR_NONE")
             m == [l EXCEPT ![n] = c]
  <2>1. s.err = "ERR_NONE" /\ s.nb_lines = n /\ s.listing = l
    BY DEF Prog
  <2> DEFINE k == n + 1
  <2>2. After(s) = [s EXCEPT !.listing = m, !.nb_lines = k]
    BY <2>1
  <2>3. m = Stored(l, n, c)
    <3>1. n \in DOMAIN l /\ DOMAIN l \cup {n} = DOMAIN l
      BY <1>3
    <3> QED
      BY <3>1 DEF Stored
  <2> HIDE DEF m, k
  <2>4. [s EXCEPT !.listing = m, !.nb_lines = k] = Prog(m, k, a, o, "ERR_NONE")
    <3>1. [s EXCEPT !.listing = m] = Prog(m, n, a, o, "ERR_NONE")
      BY DEF Prog
    <3>2. [Prog(m, n, a, o, "ERR_NONE") EXCEPT !.nb_lines = k] = Prog(m, k, a, o, "ERR_NONE")
      BY DEF Prog
    <3>3. [s EXCEPT !.listing = m, !.nb_lines = k]
            = [[s EXCEPT !.listing = m] EXCEPT !.nb_lines = k]
      <4> HIDE DEF s
      <4> QED
        OBVIOUS
    <3> QED
      BY <3>1, <3>2, <3>3
  <2>5. P2!Grown(p, r) = s
    BY <1>2, <1>3
  <2> HIDE DEF After, s
  <2> QED
    BY <1>1, <2>2, <2>3, <2>4, <2>5 DEF k
<1>4. ASSUME ~ (n < a), 2 * a = r
      PROVE  P2!program_add_command(p, c, r) = Prog(l, n, a, o, "ERR_MEM")
  <2> DEFINE s == Prog(l, n, a, o, "ERR_MEM")
  <2>1. s.err = "ERR_MEM"
    BY DEF Prog
  <2>2. P2!Grown(p, r) = s
    BY <1>2, <1>4
  <2>3. After(s) = s
    BY <2>1
  <2> QED
    BY <1>1, <2>2, <2>3
<1>5. ASSUME ~ (n < a), 2 * a # r
      PROVE  P2!program_add_command(p, c, r) = P2!program_add_command(q, c, r)
  <2>1. b # NULL
    <3>1. 2 * a \in Nat \ {0} /\ DOMAIN b = 0 .. 2 * a - 1
      BY DEF Resized
    <3> QED
      BY <3>1, BlockNotNull
  <2>2. P2!IsAccepted(q, c)
    <3> HIDE DEF b
    <3> QED
      BY <2>1, AcceptedAlike DEF q
  <2>3. P2!program_add_command(q, c, r) = After(P2!Grown(q, r))
    BY <2>2 DEF P2!program_add_command
  <2>4. P2!Grown(p, r) = P2!Grown(q, r)
    BY <1>2, <1>5
  <2> HIDE DEF After
  <2> QED
    BY <1>1, <2>3, <2>4
<1> QED
  BY <1>3, <1>4, <1>5 DEF p, q

-----------------------------------------------------------------------------
(***************************************************************************)
(* A command is known by the words that readCommand takes.                 *)
(***************************************************************************)
ReadsAs(t, c, w) ==
  /\ t # << >> /\ T!readCommand(t).err = "ERR_NONE"
  /\ T!readCommand(t).command = c /\ T!readCommand(t).rest = w

LEMMA SameCommand ==
  ASSUME NEW s \in Seq(T!Words), s # << >>, T!readCommand(s).err = "ERR_NONE",
         NEW t \in Seq(T!Words), NEW k, k = Len(s) - Len(T!readCommand(s).rest),
         Len(t) >= k, \A i \in 1 .. k : t[i] = s[i]
  PROVE  /\ k \in 1 .. Len(s) /\ T!readCommand(s).rest = Left(s, k)
         /\ ReadsAs(t, T!readCommand(s).command, Left(t, k))
<1>1. Len(s) \in Nat /\ Len(t) \in Nat
  BY LenProperties
<1>2. ASSUME NEW n \in {3, 4}, Len(s) >= n, NEW c, NEW w,
             T!readCommand(s) = Parser(c, w, Left(s, n), "ERR_NONE")
      PROVE  k = n /\ k \in 1 .. Len(s) /\ T!readCommand(s).rest = Left(s, k) /\ t # << >>
             /\ T!readCommand(s).command = c
  <2>1. n \in 0 .. Len(s)
    BY <1>1, <1>2
  <2>2. Len(Left(s, n)) = Len(s) - n
    BY <2>1, LeftIs
  <2>3. T!readCommand(s).rest = Left(s, n) /\ T!readCommand(s).command = c
    BY <1>2 DEF Parser
  <2>4. k = n
    BY <1>1, <2>2, <2>3
  <2>5. t # << >>
    BY <1>1, <2>4, EmptySeq
  <2> QED
    BY <1>1, <1>2, <2>3, <2>4, <2>5
<1>3. CASE IsFetch(s)
  <2>1. T!readCommand(s) = Parser(FetchOf(s), s[3], Left(s, 3), "ERR_NONE") /\ Len(s) >= 3
    BY <1>3, CommandIsRead DEF IsFetch
  <2>2. k = 3 /\ k \in 1 .. Len(s) /\ T!readCommand(s).rest = Left(s, k) /\ t # << >>
        /\ T!readCommand(s).command = FetchOf(s)
    BY <1>2, <2>1
  <2>3. t[1] = s[1] /\ t[2] = s[2] /\ t[3] = s[3] /\ Len(t) >= 3
    BY <2>2
  <2>4. IsFetch(t) /\ FetchOf(t) = FetchOf(s)
    BY <1>3, <2>3 DEF IsFetch, FetchOf
  <2>5. T!readCommand(t) = Parser(FetchOf(s), t[3], Left(t, 3), "ERR_NONE")
    BY <2>2, <2>4, CommandIsRead
  <2>6. T!readCommand(t).err = "ERR_NONE" /\ T!readCommand(t).command = T!readCommand(s).command
        /\ T!readCommand(t).rest = Left(t, k)
    BY <2>2, <2>5 DEF Parser
  <2> QED
    BY <2>2, <2>6 DEF ReadsAs
<1>4. CASE ~ IsFetch(s) /\ IsStore(s)
  <2>1. T!readCommand(s) = Parser(StoreOf(s), s[4], Left(s, 4), "ERR_NONE") /\ Len(s) >= 4
    BY <1>4, CommandIsRead DEF IsStore
  <2>2. k = 4 /\ k \in 1 .. Len(s) /\ T!readCommand(s).rest = Left(s, k) /\ t # << >>
        /\ T!readCommand(s).command = StoreOf(s)
    BY <1>2, <2>1
  <2>3. t[1] = s[1] /\ t[2] = s[2] /\ t[3] = s[3] /\ t[4] = s[4] /\ Len(t) >= 4
    BY <2>2
  <2>4. IsStore(t) /\ StoreOf(t) = StoreOf(s) /\ ~ IsFetch(t)
    BY <1>4, <2>3 DEF IsStore, StoreOf, IsFetch
  <2>5. T!readCommand(t) = Parser(StoreOf(s), t[4], Left(t, 4), "ERR_NONE")
    BY <2>2, <2>4, CommandIsRead
  <2>6. T!readCommand(t).err = "ERR_NONE" /\ T!readCommand(t).command = T!readCommand(s).command
        /\ T!readCommand(t).rest = Left(t, k)
    BY <2>2, <2>5 DEF Parser
  <2> QED
    BY <2>2, <2>6 DEF ReadsAs
<1>5. IsFetch(s) \/ IsStore(s)
  BY CommandIsRead
<1> QED
  BY <1>3, <1>4, <1>5

(***************************************************************************)
(* Once a round changes nothing, no later one does.                        *)
(***************************************************************************)
LEMMA RoundsStay ==
  ASSUME NEW N \in Nat, NEW n \in 0 .. N, NEW f,
         \A k \in n + 1 .. N : f[k - 1] = f[n] => f[k] = f[n]
  PROVE  f[N] = f[n]
<1> DEFINE D == {k \in 0 .. N : k >= n => f[k] = f[n]}
<1>1. 0 \in D
  OBVIOUS
<1>2. ASSUME NEW k \in 1 .. N, k - 1 \in D PROVE k \in D
  <2>1. CASE k > n
    <3>1. k \in n + 1 .. N /\ f[k - 1] = f[n]
      BY <1>2, <2>1
    <3> QED
      BY <3>1
  <2>2. CASE k <= n
    BY <2>2
  <2> QED
    BY <2>1, <2>2
<1>3. N \in D
  <2> HIDE DEF D
  <2> QED
    BY <1>1, <1>2, EveryRound
<1> QED
  BY <1>3

(***************************************************************************)
(* The rounds of the loop of program_read.                                 *)
(***************************************************************************)
Run(p, words) == [program |-> p, rest |-> words]

AddRounds(p, words, r, N, f) ==
  f = [k \in 0 .. N |-> IF k = 0 THEN Run(p, words) ELSE P2!Adds(f[k - 1], r)]

(* The program and the words left after n rounds.                          *)
At(p, words, r, n, s) == \A f : AddRounds(p, words, r, Len(words), f) => f[n] = s

LEMMA AddsInRounds ==
  ASSUME NEW p, NEW words, NEW r, NEW N \in Nat
  PROVE  \E f : AddRounds(p, words, r, N, f)
<1> DEFINE D == {k \in 0 .. N : \E f : AddRounds(p, words, r, k, f)}
           a == Run(p, words)
<1>1. 0 \in D
  <2>1. AddRounds(p, words, r, 0, [k \in 0 .. 0 |-> a])
    BY DEF AddRounds
  <2> QED
    BY <2>1
<1>2. ASSUME NEW k \in 1 .. N, k - 1 \in D
      PROVE  k \in D
  <2>1. PICK f : AddRounds(p, words, r, k - 1, f)
    BY <1>2
  <2> DEFINE g == [i \in 0 .. k |-> IF i = k THEN P2!Adds(f[k - 1], r) ELSE f[i]]
  <2>2. ASSUME NEW i \in 0 .. k
        PROVE  g[i] = IF i = 0 THEN a ELSE P2!Adds(g[i - 1], r)
    <3>1. i < k => i \in 0 .. k - 1 /\ (i # 0 => i - 1 \in 0 .. k - 1)
      OBVIOUS
    <3>2. \A j \in 0 .. k - 1 : f[j] = IF j = 0 THEN a ELSE P2!Adds(f[j - 1], r)
      BY <2>1 DEF AddRounds
    <3>3. \A j \in 0 .. k - 1 : g[j] = f[j]
      OBVIOUS
    <3>4. g[k] = P2!Adds(f[k - 1], r) /\ k # 0 /\ k - 1 \in 0 .. k - 1
      OBVIOUS
    <3> HIDE DEF g, a
    <3>5. CASE i = k
      BY <3>3, <3>4, <3>5
    <3>6. CASE i < k
      BY <3>1, <3>2, <3>3, <3>6
    <3> QED
      BY <3>5, <3>6
  <2>3. AddRounds(p, words, r, k, g)
    <3>1. g = [i \in 0 .. k |-> g[i]]
      OBVIOUS
    <3> HIDE DEF g
    <3> QED
      BY <2>2, <3>1 DEF AddRounds
  <2> QED
    BY <2>3
<1>3. 0 .. N \subseteq D
  <2> HIDE DEF D
  <2> QED
    BY <1>1, <1>2, EveryRound
<1> QED
  BY <1>3

LEMMA AddRoundsAre ==
  ASSUME NEW p, NEW words, NEW r, NEW N \in Nat, NEW f, AddRounds(p, words, r, N, f)
  PROVE  /\ f[0] = Run(p, words)
         /\ \A k \in 1 .. N : f[k] = P2!Adds(f[k - 1], r)
<1>1. f[0] = Run(p, words)
  BY DEF AddRounds
<1>2. ASSUME NEW k \in 1 .. N PROVE f[k] = P2!Adds(f[k - 1], r)
  <2>1. k \in 0 .. N /\ k # 0
    OBVIOUS
  <2> QED
    BY <2>1 DEF AddRounds
<1> QED
  BY <1>1, <1>2

LEMMA AddedIs ==
  ASSUME NEW p, NEW words, NEW r, Len(words) \in Nat
  PROVE  \E f : /\ AddRounds(p, words, r, Len(words), f)
                /\ P2!Added(p, words, r) = f[Len(words)].program
<1> DEFINE N == Len(words)
           at == CHOOSE f : AddRounds(p, words, r, N, f)
<1>1. AddRounds(p, words, r, N, at)
  BY AddsInRounds
<1>2. P2!Added(p, words, r) = at[N].program
  BY DEF P2!Added, AddRounds, Run
<1> HIDE DEF at
<1> QED
  BY <1>1, <1>2

LEMMA AtFirst ==
  ASSUME NEW p, NEW words, NEW r, Len(words) \in Nat
  PROVE  At(p, words, r, 0, Run(p, words))
BY AddRoundsAre DEF At

LEMMA AtNext ==
  ASSUME NEW p, NEW words, NEW r, Len(words) \in Nat, NEW n \in Nat, n + 1 <= Len(words),
         NEW s, At(p, words, r, n, s)
  PROVE  At(p, words, r, n + 1, P2!Adds(s, r))
<1> SUFFICES ASSUME NEW f, AddRounds(p, words, r, Len(words), f)
             PROVE  f[n + 1] = P2!Adds(s, r)
  BY DEF At
<1>1. f[n] = s
  BY DEF At
<1>2. n + 1 \in 1 .. Len(words) /\ (n + 1) - 1 = n
  OBVIOUS
<1>3. \A k \in 1 .. Len(words) : f[k] = P2!Adds(f[k - 1], r)
  BY AddRoundsAre
<1> QED
  BY <1>1, <1>2, <1>3

LEMMA AtEnd ==
  ASSUME NEW p, NEW words, NEW r, Len(words) \in Nat, NEW n \in Nat, n <= Len(words),
         NEW s, At(p, words, r, n, s), P2!Adds(s, r) = s
  PROVE  P2!Added(p, words, r) = s.program
<1> DEFINE N == Len(words)
<1>1. PICK f : /\ AddRounds(p, words, r, N, f)
               /\ P2!Added(p, words, r) = f[N].program
  BY AddedIs
<1>2. f[n] = s
  BY <1>1 DEF At
<1>3. \A k \in 1 .. N : f[k] = P2!Adds(f[k - 1], r)
  BY <1>1, AddRoundsAre
<1>4. N \in Nat /\ n \in 0 .. N
  OBVIOUS
<1>5. ASSUME NEW k \in n + 1 .. N, f[k - 1] = f[n] PROVE f[k] = f[n]
  <2>1. k \in 1 .. N
    BY <1>4
  <2> QED
    BY <1>2, <1>3, <1>5, <2>1
<1>6. f[N] = f[n]
  <2> HIDE DEF N
  <2> QED
    BY <1>4, <1>5, RoundsStay
<1> QED
  BY <1>1, <1>2, <1>6

LEMMA AddsIs ==
  ASSUME NEW p, NEW words, NEW r
  PROVE  P2!Adds(Run(p, words), r) =
           IF words = << >> \/ p.err # "ERR_NONE" THEN Run(p, words)
           ELSE IF T!readCommand(words).err # "ERR_NONE"
                THEN Run(P2!Returns(p, T!readCommand(words).err), T!readCommand(words).rest)
           ELSE Run(P2!program_add_command(p, T!readCommand(words).command, r),
                    T!readCommand(words).rest)
<1> DEFINE s == Run(p, words)
<1>1. s.program = p /\ s.rest = words
  BY DEF Run
<1>2. P2!readCommand(words) = T!readCommand(words)
  BY ReadsAlike
<1> HIDE DEF s
<1>3. P2!Adds(s, r) =
           IF words = << >> \/ p.err # "ERR_NONE" THEN s
           ELSE IF T!readCommand(words).err # "ERR_NONE"
                THEN Run(P2!Returns(p, T!readCommand(words).err), T!readCommand(words).rest)
           ELSE Run(P2!program_add_command(p, T!readCommand(words).command, r),
                    T!readCommand(words).rest)
  BY <1>1, <1>2 DEF P2!Adds, Run
<1> QED
  BY <1>3 DEF s

(***************************************************************************)
(* Where the loop of program_read stops: at the end of the text, at a line *)
(* that does not parse, or at a command that cannot be added.              *)
(***************************************************************************)
LEMMA StopsAtEnd ==
  ASSUME NEW p, NEW words, NEW r, Len(words) \in Nat, NEW n \in Nat, n <= Len(words),
         NEW q, At(p, words, r, n, Run(q, << >>))
  PROVE  P2!Added(p, words, r) = q
<1>1. P2!Adds(Run(q, << >>), r) = Run(q, << >>)
  BY AddsIs
<1>2. P2!Added(p, words, r) = Run(q, << >>).program
  BY <1>1, AtEnd
<1> QED
  BY <1>2 DEF Run

LEMMA StopsFailed ==
  ASSUME NEW p, NEW words, NEW r, Len(words) \in Nat, NEW n \in Nat, n <= Len(words),
         NEW q, q.err # "ERR_NONE", NEW w, At(p, words, r, n, Run(q, w))
  PROVE  P2!Added(p, words, r) = q
<1>1. P2!Adds(Run(q, w), r) = Run(q, w)
  BY AddsIs
<1>2. P2!Added(p, words, r) = Run(q, w).program
  BY <1>1, AtEnd
<1> QED
  BY <1>2 DEF Run

LEMMA StopsAtLine ==
  ASSUME NEW p, NEW words, NEW r, Len(words) \in Nat, NEW n \in Nat, n + 1 <= Len(words),
         NEW q, q.err = "ERR_NONE", NEW w, w # << >>, At(p, words, r, n, Run(q, w)),
         NEW s, s.err # "ERR_NONE",
         IF T!readCommand(w).err # "ERR_NONE"
         THEN s = P2!Returns(q, T!readCommand(w).err)
         ELSE s = P2!program_add_command(q, T!readCommand(w).command, r)
  PROVE  P2!Added(p, words, r) = s
<1>1. P2!Adds(Run(q, w), r) = Run(s, T!readCommand(w).rest)
  BY AddsIs
<1>2. At(p, words, r, n + 1, P2!Adds(Run(q, w), r))
  BY AtNext
<1>3. At(p, words, r, n + 1, Run(s, T!readCommand(w).rest))
  BY <1>1, <1>2
<1> DEFINE m == n + 1
<1>4. m \in Nat /\ m <= Len(words) /\ At(p, words, r, m, Run(s, T!readCommand(w).rest))
  BY <1>3
<1> HIDE DEF m
<1> QED
  BY <1>4, StopsFailed

(* The program that program_read has set up before the first line.         *)
Fresh == Prog(EmptyBlock, 0, START_COMMANDS_ALLOCATED, FALSE, "ERR_NONE")

LEMMA NotInitialized ==
  ASSUME NEW l, NEW n, NEW a, NEW o, NEW e, NEW words, NEW g, ~ g, NEW r, NEW fe
  PROVE  P2!program_read(Prog(l, n, a, o, e), words, g, r, fe)
           = Prog(NULL, 0, START_COMMANDS_ALLOCATED, o, "ERR_BAD_PARAMETER")
<1> DEFINE p == Prog(l, n, a, o, e)
           q == P2!program_init(p, g)
<1>1. q = Prog(NULL, 0, START_COMMANDS_ALLOCATED, o, "ERR_BAD_PARAMETER")
  BY InitIs
<1> HIDE DEF q
<1>2. q.err = "ERR_BAD_PARAMETER"
  BY <1>1 DEF Prog
<1> HIDE DEF p
<1>3. P2!program_read(p, words, g, r, fe) = q
  BY <1>2 DEF P2!program_read, q
<1> QED
  BY <1>1, <1>3 DEF p

-----------------------------------------------------------------------------
(***************************************************************************)
(* What a step of a call of src/done comes to in the second release.       *)
(***************************************************************************)
Here(o, e) == Prog(listing, nb_lines, allocated, o, e)

LEMMA AddActs ==
  ASSUME IInv, LinesAccepted, op = "adding", NEW o
  PROVE  /\ AddGrows => \A r : r # 2 * allocated =>
              P2!program_add_command(Here(o, "ERR_NONE"), command, r)
                = P2!program_add_command(
                    Prog(listing', nb_lines', allocated', o, "ERR_NONE"), command, r)
         /\ AddStores => \A r :
              P2!program_add_command(Here(o, "ERR_NONE"), command, r)
                = Prog(listing', nb_lines', allocated', o, "ERR_NONE")
         /\ AddFails =>
              P2!program_add_command(Here(o, "ERR_NONE"), command, 2 * allocated)
                = Prog(listing', nb_lines', allocated', o, "ERR_MEM")
<1>1. /\ listing # NULL /\ nb_lines \in Nat /\ allocated \in Nat \ {0}
      /\ DOMAIN listing = 0 .. allocated - 1
      /\ command \in Commands /\ IsAccepted(command)
  BY DEF IInv, TypeOK, ListingFits, LinesAccepted
<1>2. ASSUME NEW r
      PROVE  P2!program_add_command(Here(o, "ERR_NONE"), command, r) =
               IF nb_lines < allocated
               THEN Prog(Stored(listing, nb_lines, command), nb_lines + 1, allocated, o, "ERR_NONE")
               ELSE IF 2 * allocated = r THEN Prog(listing, nb_lines, allocated, o, "ERR_MEM")
               ELSE P2!program_add_command(
                      Prog(Resized(listing, 2 * allocated), nb_lines, 2 * allocated, o, "ERR_NONE"),
                      command, r)
  BY <1>1, AddSteps DEF Here
<1>3. ASSUME AddGrows
      PROVE  \A r : r # 2 * allocated =>
              P2!program_add_command(Here(o, "ERR_NONE"), command, r)
                = P2!program_add_command(
                    Prog(listing', nb_lines', allocated', o, "ERR_NONE"), command, r)
  <2>1. /\ ~ (nb_lines < allocated) /\ listing' = Resized(listing, 2 * allocated)
        /\ nb_lines' = nb_lines /\ allocated' = 2 * allocated
    BY <1>1, <1>3 DEF AddGrows, NeedsRoom, resize_succeeds
  <2> QED
    BY <1>2, <2>1
<1>4. ASSUME AddStores
      PROVE  \A r : P2!program_add_command(Here(o, "ERR_NONE"), command, r)
                      = Prog(listing', nb_lines', allocated', o, "ERR_NONE")
  <2>1. /\ nb_lines < allocated /\ listing' = Stored(listing, nb_lines, command)
        /\ nb_lines' = nb_lines + 1 /\ allocated' = allocated
    BY <1>1, <1>4 DEF AddStores, NeedsRoom
  <2> QED
    BY <1>2, <2>1
<1>5. ASSUME AddFails
      PROVE  P2!program_add_command(Here(o, "ERR_NONE"), command, 2 * allocated)
                = Prog(listing', nb_lines', allocated', o, "ERR_MEM")
  <2>1. ~ (nb_lines < allocated) /\ UNCHANGED << listing, nb_lines, allocated >>
    BY <1>1, <1>5 DEF AddFails, NeedsRoom, resize_fails
  <2> QED
    BY <1>2, <2>1
<1> QED
  BY <1>3, <1>4, <1>5

(* program_shrink is called on b, and the listing has been cut or not yet. *)
ShrunkFrom(b, o) ==
  \/ b = Here(o, err)
  \/ /\ nb_lines > 0 /\ allocated = nb_lines
     /\ P2!program_shrink(b, 0) = Here(o, "ERR_NONE")

LEMMA ShrinkActs ==
  ASSUME IInv, NEW b, NEW o, ShrunkFrom(b, o), ShrinkProceeds
  PROVE  IF op' = "idle"
         THEN P2!program_shrink(b, 0) = Prog(listing', nb_lines', allocated', o, err')
         ELSE /\ nb_lines' > 0 /\ allocated' = nb_lines' /\ err' = err
              /\ P2!program_shrink(b, 0) = Prog(listing', nb_lines', allocated', o, "ERR_NONE")
<1>1. nb_lines \in Nat /\ allocated \in Nat /\ START_COMMANDS_ALLOCATED \in Nat \ {0}
  BY StartAssumption DEF IInv, TypeOK
<1>2. P2!program_shrink(Here(o, err), 0) =
           IF nb_lines > 0 /\ allocated <= nb_lines
           THEN Prog(listing, nb_lines, allocated, o, "ERR_NONE")
           ELSE IF listing = NULL \/ ShrinkSize = 0
                THEN Prog(listing, nb_lines, allocated, o, "ERR_MEM")
           ELSE Prog(Resized(listing, ShrinkSize), nb_lines, ShrinkSize, o, "ERR_NONE")
  BY ShrinkIs DEF Here, ShrinkSize
<1>3. ShrinkSize # 0
  BY <1>1 DEF ShrinkSize
<1>4. CASE ShrinkEnds
  <2>1. /\ op' = "idle" /\ err' = "ERR_NONE" /\ nb_lines > 0 /\ allocated <= nb_lines
        /\ UNCHANGED << listing, nb_lines, allocated >>
    BY <1>1, <1>4 DEF ShrinkEnds, MustShrink, Returns
  <2> QED
    BY <1>2, <2>1 DEF ShrunkFrom, Here
<1>5. ASSUME MustShrink PROVE b = Here(o, err) /\ ~ (nb_lines > 0 /\ allocated <= nb_lines)
  BY <1>1, <1>5 DEF MustShrink, ShrunkFrom
<1>6. CASE ShrinkRefused
  <2>1. /\ MustShrink /\ listing = NULL /\ op' = "idle" /\ err' = "ERR_MEM"
        /\ UNCHANGED << listing, nb_lines, allocated >>
    BY <1>6 DEF ShrinkRefused, Returns
  <2> QED
    BY <1>2, <1>5, <2>1
<1>7. CASE ShrinkResizes
  <2>1. /\ MustShrink /\ listing # NULL
        /\ listing' = Resized(listing, ShrinkSize) /\ allocated' = ShrinkSize
        /\ nb_lines' = nb_lines
        /\ IF nb_lines > 0 THEN op' = op /\ err' = err ELSE op' = "idle" /\ err' = "ERR_NONE"
    BY <1>7 DEF ShrinkResizes, resize_succeeds, Returns
  <2>2. P2!program_shrink(b, 0) = Prog(listing', nb_lines', allocated', o, "ERR_NONE")
    BY <1>2, <1>3, <1>5, <2>1
  <2>3. op = "shrinking"
    BY <2>1 DEF MustShrink
  <2> QED
    BY <1>1, <2>1, <2>2, <2>3 DEF ShrinkSize
<1> QED
  BY <1>4, <1>6, <1>7 DEF ShrinkProceeds

LEMMA ShrinkFailsActs ==
  ASSUME IInv, NEW o, NEW e, ShrinkFails
  PROVE  P2!program_shrink(Here(o, e), ShrinkSize) = Prog(listing', nb_lines', allocated', o, err')
<1>1. nb_lines \in Nat /\ allocated \in Nat
  BY DEF IInv, TypeOK
<1>2. P2!program_shrink(Here(o, e), ShrinkSize) =
           IF nb_lines > 0 /\ allocated <= nb_lines
           THEN Prog(listing, nb_lines, allocated, o, "ERR_NONE")
           ELSE Prog(listing, nb_lines, allocated, o, "ERR_MEM")
  BY ShrinkIs DEF Here, ShrinkSize
<1>3. /\ ~ (nb_lines > 0 /\ allocated <= nb_lines) /\ err' = "ERR_MEM"
      /\ UNCHANGED << listing, nb_lines, allocated >>
  BY <1>1 DEF ShrinkFails, MustShrink, resize_fails, Returns
<1> QED
  BY <1>2, <1>3

-----------------------------------------------------------------------------
(***************************************************************************)
(* The text and the lines of the file.                                     *)
(***************************************************************************)
LEMMA ParsedByRounds ==
  ASSUME NEW words, Len(words) \in Nat
  PROVE  \E f : /\ ParseRounds(words, Len(words), f)
                /\ Parsed(words) = f[Len(words)].lines
<1> DEFINE at == CHOOSE f : ParseRounds(words, Len(words), f)
<1>1. ParseRounds(words, Len(words), at)
  BY ParsesInRounds
<1>2. Parsed(words) = at[Len(words)].lines
  BY DEF Parsed, ParseRounds
<1> HIDE DEF at
<1> QED
  BY <1>1, <1>2

LEMMA ParseRoundIs ==
  ASSUME NEW words, NEW N \in Nat, NEW f, ParseRounds(words, N, f), NEW k \in 1 .. N
  PROVE  f[k] = Parses(f[k - 1])
<1>1. k \in 0 .. N /\ k # 0
  OBVIOUS
<1> QED
  BY <1>1 DEF ParseRounds

LEMMA LineTaken ==
  ASSUME NEW u \in Seq(T!Words), u # << >>, T!readCommand(u).err = "ERR_NONE"
  PROVE  T!readCommand(u).rest \in Seq(T!Words)
<1>1. IF IsFetch(u) THEN T!readCommand(u) = Parser(FetchOf(u), u[3], Left(u, 3), "ERR_NONE")
      ELSE IsStore(u) /\ T!readCommand(u) = Parser(StoreOf(u), u[4], Left(u, 4), "ERR_NONE")
  BY CommandIsRead
<1>2. IF IsFetch(u) THEN 3 \in 0 .. Len(u) /\ T!readCommand(u).rest = Left(u, 3)
      ELSE 4 \in 0 .. Len(u) /\ T!readCommand(u).rest = Left(u, 4)
  BY <1>1, LenProperties DEF IsFetch, IsStore, Parser
<1> QED
  BY <1>2, LeftIs

(* A round keeps the lines it finds.                                       *)
ParsedLines == Commands \cup {Malformed} \cup {T!readCommand(s).command : s \in Seq(T!Words)}

LEMMA ParsesKeeps ==
  ASSUME NEW s, s.lines \in Seq(ParsedLines), s.rest \in Seq(T!Words)
  PROVE  /\ Parses(s).lines \in Seq(ParsedLines) /\ Parses(s).rest \in Seq(T!Words)
         /\ Len(Parses(s).lines) >= Len(s.lines)
         /\ \A i \in 1 .. Len(s.lines) : Parses(s).lines[i] = s.lines[i]
         /\ s.rest # << >> =>
              /\ Len(Parses(s).lines) = Len(s.lines) + 1
              /\ Parses(s).lines[Len(s.lines) + 1] =
                   IF T!readCommand(s.rest).err # "ERR_NONE" THEN Malformed
                   ELSE T!readCommand(s.rest).command
<1> DEFINE r == T!readCommand(s.rest)
           L == s.lines
<1>1. Len(L) \in Nat
  BY LenProperties
<1>2. CASE s.rest = << >>
  <2>1. Parses(s) = s
    BY <1>2 DEF Parses
  <2>2. Parses(s).lines = L /\ Parses(s).rest = s.rest /\ L \in Seq(ParsedLines)
    BY <2>1
  <2> HIDE DEF L
  <2>3. Len(L) >= Len(L)
    BY <1>1
  <2>4. /\ Parses(s).lines \in Seq(ParsedLines) /\ Parses(s).rest \in Seq(T!Words)
        /\ Len(Parses(s).lines) >= Len(L)
        /\ \A i \in 1 .. Len(L) : Parses(s).lines[i] = L[i]
    BY <2>2, <2>3
  <2> QED
    BY <1>2, <2>4 DEF L
<1>3. CASE s.rest # << >>
  <2> DEFINE x == IF r.err # "ERR_NONE" THEN Malformed ELSE r.command
             w == IF r.err # "ERR_NONE" THEN << >> ELSE r.rest
  <2>1. x \in ParsedLines
    BY DEF ParsedLines
  <2>2. w \in Seq(T!Words)
    <3>1. CASE r.err # "ERR_NONE"
      BY <3>1, EmptySeq
    <3>2. CASE r.err = "ERR_NONE"
      <4> DEFINE u == s.rest
      <4>1. u \in Seq(T!Words) /\ u # << >> /\ T!readCommand(u).err = "ERR_NONE"
        BY <1>3, <3>2
      <4> HIDE DEF u
      <4>2. T!readCommand(u).rest \in Seq(T!Words)
        BY <4>1, LineTaken
      <4> QED
        BY <3>2, <4>2 DEF u
    <3> QED
      BY <3>1, <3>2
  <2>3. Parses(s) = [lines |-> Append(L, x), rest |-> w]
    BY <1>3 DEF Parses
  <2> HIDE DEF x, w
  <2>4. /\ Append(L, x) \in Seq(ParsedLines) /\ Len(Append(L, x)) = Len(L) + 1
        /\ \A i \in 1 .. Len(L) : Append(L, x)[i] = L[i]
        /\ Append(L, x)[Len(L) + 1] = x
    BY <2>1, AppendProperties
  <2>5. Parses(s).lines = Append(L, x) /\ Parses(s).rest = w
    BY <2>3
  <2>6. x = IF T!readCommand(s.rest).err # "ERR_NONE" THEN Malformed
            ELSE T!readCommand(s.rest).command
    BY DEF x
  <2> QED
    BY <1>1, <2>2, <2>4, <2>5, <2>6
<1> QED
  BY <1>2, <1>3

(***************************************************************************)
(* The lines that have been read, the one being added included, are those  *)
(* of the words that have been read.                                       *)
(***************************************************************************)
Round == nb_lines + IF op = "adding" THEN 1 ELSE 0

ParsedSoFar ==
  \A f : ParseRounds(text, Len(text), f) =>
           f[Round] = [lines |-> Lines \o Pending, rest |-> Unread]

TextRead ==
  /\ text \in Seq(T!Words) /\ position \in 0 .. Len(text) /\ Round <= position
  /\ file = Parsed(text) /\ ParsedSoFar

LEMMA NextLine ==
  ASSUME ReadInv, TextRead, reader = "reading", op = "idle"
  PROVE  /\ Unread = << >> <=> rest = << >>
         /\ Unread # << >> =>
              Head(rest) = IF T!readCommand(Unread).err # "ERR_NONE" THEN Malformed
                           ELSE T!readCommand(Unread).command
<1> DEFINE n == nb_lines
           N == Len(text)
<1>1. /\ Lines \in Seq(Commands) /\ Len(Lines) = n /\ n \in Nat /\ IInv
      /\ rest \in Seq(FileLine) /\ N \in Nat /\ n <= position /\ position \in 0 .. N
  BY LinesTyped, LenProperties DEF ReadInv, IInv, TypeOK, TextRead, Round
<1>2. Lines \o Pending = Lines /\ Lines \o rest = file
  <2>1. Pending = << >>
    BY DEF Pending
  <2>2. Lines \o << >> = Lines
    BY <1>1, ConcatEmptySeq
  <2>3. Lines \o Pending \o rest = file
    BY DEF ReadInv, NothingSkipped
  <2> QED
    BY <2>1, <2>2, <2>3
<1>3. PICK f : ParseRounds(text, N, f) /\ Parsed(text) = f[N].lines
  <2>1. Len(text) \in Nat
    BY <1>1
  <2> QED
    BY <2>1, ParsedByRounds
<1>4. f[n] = [lines |-> Lines, rest |-> Unread]
  <2>1. Round = n
    BY <1>1 DEF Round
  <2>2. f[Round] = [lines |-> Lines \o Pending, rest |-> Unread]
    <3>1. ParseRounds(text, Len(text), f)
      BY <1>3
    <3> QED
      BY <3>1, Zenon DEF TextRead, ParsedSoFar
  <2>3. f[n] = [lines |-> Lines \o Pending, rest |-> Unread]
    <3> HIDE DEF n
    <3> QED
      BY <2>1, <2>2, Zenon
  <2> HIDE DEF n
  <2> QED
    BY <1>2, <2>3
<1>5. \A k \in 1 .. N : f[k] = Parses(f[k - 1])
  <2>1. N \in Nat /\ ParseRounds(text, N, f)
    BY <1>1, <1>3
  <2> HIDE DEF N
  <2> QED
    BY <2>1, ParseRoundIs
<1>9. file = f[N].lines
  <2>1. file = Parsed(text)
    BY DEF TextRead
  <2> HIDE DEF N
  <2> QED
    BY <1>3, <2>1, Zenon
<1>6. /\ Len(file) = n + Len(rest) /\ Len(rest) \in Nat
      /\ rest # << >> => Head(rest) = file[n + 1] /\ Len(rest) > 0
  <2>1. Lines \in Seq(FileLine)
    BY <1>1, SeqMonotonic DEF FileLine
  <2>2. /\ Len(file) = n + Len(rest)
        /\ \A i \in 1 .. n + Len(rest) : file[i] = IF i <= n THEN Lines[i] ELSE rest[i - n]
    BY <1>1, <1>2, <2>1, ConcatProperties
  <2>3. Len(rest) \in Nat
    BY <1>1, LenProperties
  <2>4. ASSUME rest # << >> PROVE Head(rest) = file[n + 1] /\ Len(rest) > 0
    <3>1. Len(rest) > 0 /\ Head(rest) = rest[1]
      BY <1>1, <2>3, <2>4, HeadTailProperties, EmptySeq
    <3>2. n + 1 \in 1 .. n + Len(rest) /\ ~ (n + 1 <= n) /\ (n + 1) - n = 1
      BY <1>1, <2>3, <3>1
    <3> QED
      BY <2>2, <3>1, <3>2
  <2> QED
    BY <2>2, <2>3, <2>4
<1> HIDE DEF N
<1>7. ASSUME Unread = << >> PROVE rest = << >>
  <2>1. Parses(f[n]) = f[n]
    BY <1>4, <1>7 DEF Parses
  <2>2. f[N] = f[n]
    <3>1. N \in Nat /\ n \in 0 .. N
      BY <1>1
    <3>2. ASSUME NEW k \in n + 1 .. N, f[k - 1] = f[n] PROVE f[k] = f[n]
      <4>1. k \in 1 .. N
        BY <1>1
      <4> QED
        BY <1>5, <2>1, <3>2, <4>1
    <3> QED
      BY <3>1, <3>2, RoundsStay
  <2>3. file = Lines
    BY <1>4, <1>9, <2>2
  <2> QED
    BY <1>1, <1>6, <2>3, EmptySeq
<1>8. ASSUME Unread # << >>
      PROVE  /\ rest # << >>
             /\ Head(rest) = IF T!readCommand(Unread).err # "ERR_NONE" THEN Malformed
                             ELSE T!readCommand(Unread).command
  <2> DEFINE x == IF T!readCommand(Unread).err # "ERR_NONE" THEN Malformed
                  ELSE T!readCommand(Unread).command
             Is(k) == /\ f[k].lines \in Seq(ParsedLines) /\ f[k].rest \in Seq(T!Words)
                      /\ Len(f[k].lines) >= n + 1 /\ f[k].lines[n + 1] = x
             D == {k \in 0 .. N : k > n => Is(k)}
  <2>1. position < N /\ n + 1 <= N
    <3>1. Left(text, position) = << >> <=> position = N
      BY LeftIs DEF TextRead, N
    <3> QED
      BY <1>1, <1>8, <3>1 DEF Unread, Left, N
  <2>2. f[n].lines = Lines /\ f[n].rest = Unread
    BY <1>4
  <2>3. Lines \in Seq(ParsedLines) /\ Unread \in Seq(T!Words)
    <3>1. Left(text, position) \in Seq(T!Words)
      BY LeftIs DEF TextRead
    <3> QED
      BY <1>1, <3>1, SeqMonotonic DEF ParsedLines, Unread, Left
  <2>4. 0 \in D
    BY <1>1
  <2>5. ASSUME NEW k \in 1 .. N, k - 1 \in D PROVE k \in D
    <3>1. f[k] = Parses(f[k - 1])
      BY <1>5
    <3>2. CASE k <= n
      BY <1>1, <3>2
    <3>3. CASE k = n + 1
      <4> DEFINE s == f[n]
      <4>1. f[k] = Parses(s) /\ k - 1 = n
        BY <1>1, <3>1, <3>3
      <4>2. s.lines \in Seq(ParsedLines) /\ s.rest \in Seq(T!Words) /\ s.rest # << >>
            /\ Len(s.lines) = n
        BY <1>1, <1>8, <2>2, <2>3
      <4>3. x = IF T!readCommand(s.rest).err # "ERR_NONE" THEN Malformed
                ELSE T!readCommand(s.rest).command
        BY <2>2
      <4> HIDE DEF s, x
      <4>4. Is(k)
        BY <1>1, <4>1, <4>2, <4>3, ParsesKeeps
      <4> QED
        BY <4>4
    <3>4. CASE k > n + 1
      <4> DEFINE s == f[k - 1]
      <4> HIDE DEF x
      <4>1. Is(k - 1)
        BY <1>1, <2>5, <3>4
      <4>2. f[k] = Parses(s) /\ s.lines \in Seq(ParsedLines) /\ s.rest \in Seq(T!Words)
            /\ Len(s.lines) >= n + 1 /\ s.lines[n + 1] = x
        BY <3>1, <4>1
      <4> HIDE DEF s
      <4>3. Len(s.lines) \in Nat
        BY <4>2, LenProperties
      <4>4. n + 1 \in 1 .. Len(s.lines)
        BY <1>1, <4>2, <4>3
      <4>5. /\ Parses(s).lines \in Seq(ParsedLines) /\ Parses(s).rest \in Seq(T!Words)
            /\ Len(Parses(s).lines) >= Len(s.lines)
            /\ \A i \in 1 .. Len(s.lines) : Parses(s).lines[i] = s.lines[i]
        BY <4>2, ParsesKeeps
      <4>6. Len(Parses(s).lines) \in Nat
        BY <4>5, LenProperties
      <4>7. Is(k)
        BY <1>1, <4>2, <4>3, <4>4, <4>5, <4>6
      <4> QED
        BY <4>7
    <3> QED
      BY <1>1, <3>2, <3>3, <3>4
  <2>6. N \in D
    <3> HIDE DEF D
    <3>1. N \in Nat /\ N \in 0 .. N
      BY <1>1
    <3>2. 0 .. N \subseteq D
      BY <2>4, <2>5, <3>1, EveryRound
    <3> QED
      BY <3>1, <3>2
  <2>7. Len(file) >= n + 1 /\ file[n + 1] = x
    <3> HIDE DEF x
    <3> QED
      BY <1>1, <1>9, <2>1, <2>6
  <2>8. rest # << >>
    BY <1>1, <1>6, <2>7, EmptySeq
  <2> HIDE DEF x
  <2>9. Head(rest) = x
    BY <1>6, <2>7, <2>8
  <2> QED
    BY <2>8, <2>9 DEF x
<1> QED
  BY <1>7, <1>8

-----------------------------------------------------------------------------
(***************************************************************************)
(* A text that starts with the words that src/done has read.               *)
(***************************************************************************)
Agrees(W) ==
  W \in Seq(T!Words) /\ Len(W) >= position /\ \A i \in 1 .. position : W[i] = text[i]

LEMMA CommandTaken ==
  ASSUME NEW t \in Seq(T!Words), NEW n \in 0 .. Len(t),
         NEW u, u = Left(t, n), u # << >>, T!readCommand(u).err = "ERR_NONE",
         NEW m, m = Len(t) - Len(T!readCommand(u).rest)
  PROVE  m \in n + 1 .. Len(t) /\ T!readCommand(u).rest = Left(t, m)
<1> DEFINE k == Len(u) - Len(T!readCommand(u).rest)
<1>1. /\ Len(t) \in Nat /\ u \in Seq(T!Words) /\ Len(u) = Len(t) - n
      /\ \A i \in 1 .. Len(t) - n : u[i] = t[n + i]
  BY LenProperties, LeftIs
<1>2. Len(u) >= k /\ k \in 1 .. Len(u) /\ T!readCommand(u).rest = Left(u, k)
  <2>1. T!readCommand(u).rest \in Seq(T!Words)
    BY <1>1, LineTaken
  <2>2. Len(T!readCommand(u).rest) \in Nat /\ Len(u) \in Nat
    BY <1>1, <2>1, LenProperties
  <2>3. Len(u) >= k
    BY <2>2
  <2>4. \A i \in 1 .. k : u[i] = u[i]
    OBVIOUS
  <2> HIDE DEF k
  <2>5. k = Len(u) - Len(T!readCommand(u).rest)
    BY DEF k
  <2> QED
    BY <1>1, <2>3, <2>5, SameCommand
<1>3. Len(T!readCommand(u).rest) = Len(u) - k
  BY <1>1, <1>2, LeftIs
<1>4. m = n + k /\ m \in n + 1 .. Len(t) /\ k \in 0 .. Len(t) - n
  BY <1>1, <1>2, <1>3
<1>5. T!readCommand(u).rest = Left(t, m)
  <2> HIDE DEF k
  <2>1. Left(Left(t, n), k) = Left(t, n + k)
    BY <1>4, LeftOfLeft
  <2> QED
    BY <1>2, <1>4, <2>1
<1> QED
  BY <1>4, <1>5

LEMMA CommandTakenAlike ==
  ASSUME NEW t \in Seq(T!Words), NEW n \in 0 .. Len(t),
         NEW u, u = Left(t, n), u # << >>, T!readCommand(u).err = "ERR_NONE",
         NEW m, m = Len(t) - Len(T!readCommand(u).rest),
         NEW W \in Seq(T!Words), Len(W) >= m, \A i \in 1 .. m : W[i] = t[i],
         NEW v, v = Left(W, n)
  PROVE  ReadsAs(v, T!readCommand(u).command, Left(W, m))
<1> DEFINE k == Len(u) - Len(T!readCommand(u).rest)
<1>1. /\ Len(t) \in Nat /\ u \in Seq(T!Words) /\ Len(u) = Len(t) - n
      /\ \A i \in 1 .. Len(t) - n : u[i] = t[n + i]
  BY LenProperties, LeftIs
<1>2. m \in n + 1 .. Len(t)
  BY CommandTaken
<1>3. Len(T!readCommand(u).rest) = Len(t) - m
  <2>1. T!readCommand(u).rest \in Seq(T!Words)
    BY <1>1, LineTaken
  <2>2. Len(T!readCommand(u).rest) \in Nat
    BY <2>1, LenProperties
  <2> QED
    BY <1>1, <2>2
<1>4. m = n + k /\ k \in 1 .. Len(u) /\ k \in 0 .. Len(t) - n
  BY <1>1, <1>2, <1>3
<1> HIDE DEF k
<1>5. Len(W) \in Nat /\ n \in 0 .. Len(W)
  BY <1>2, LenProperties
<1>6. /\ v \in Seq(T!Words) /\ Len(v) = Len(W) - n
      /\ \A i \in 1 .. Len(W) - n : v[i] = W[n + i]
  <2>1. \A S : \A w \in Seq(S) : \A j \in 0 .. Len(w) :
          /\ Left(w, j) \in Seq(S) /\ Len(Left(w, j)) = Len(w) - j
          /\ \A i \in 1 .. Len(w) - j : Left(w, j)[i] = w[j + i]
    BY LeftIs
  <2> QED
    BY <1>5, <2>1
<1>7. Len(v) >= k /\ k \in 0 .. Len(W) - n
  BY <1>1, <1>4, <1>5, <1>6
<1>8. ASSUME NEW i \in 1 .. k PROVE v[i] = u[i]
  <2> DEFINE a == Len(W)
             b == Len(t)
  <2>1. a \in Nat /\ b \in Nat /\ n \in Nat
    BY <1>1, <1>5
  <2>2. k \in 0 .. b - n /\ m = n + k
    BY <1>4
  <2>3. k \in 0 .. a - n
    BY <1>7
  <2> HIDE DEF a, b
  <2>4. i \in 1 .. a - n /\ i \in 1 .. b - n /\ n + i \in 1 .. m
    BY <2>1, <2>2, <2>3
  <2>5. i \in 1 .. Len(W) - n /\ i \in 1 .. Len(t) - n /\ n + i \in 1 .. m
    BY <2>4 DEF a, b
  <2>6. v[i] = W[n + i] /\ u[i] = t[n + i] /\ W[n + i] = t[n + i]
    BY <1>1, <1>6, <2>5
  <2> QED
    BY <2>6
<1>9. k = Len(u) - Len(T!readCommand(u).rest)
  BY DEF k
<1>10. v \in Seq(T!Words) /\ Len(v) >= k /\ u \in Seq(T!Words)
  BY <1>1, <1>6, <1>7
<1>11. \A i \in 1 .. k : v[i] = u[i]
  BY <1>8
<1>12. ReadsAs(v, T!readCommand(u).command, Left(v, k))
  BY <1>9, <1>10, <1>11, SameCommand
<1>13. Left(Left(W, n), k) = Left(W, n + k)
  BY <1>5, <1>7, LeftOfLeft
<1> QED
  BY <1>4, <1>12, <1>13

(* A request of the allocator that the read of src/done has not made yet.  *)
Unasked(r) ==
  r \in Nat /\ (r = 0 \/ allocated = START_COMMANDS_ALLOCATED
                \/ (2 * r > allocated /\ r # allocated))

(***************************************************************************)
(* The invariant.  A call that has returned has done what the call of the  *)
(* second release does.  One that is under way will, whatever it does      *)
(* next: the call of the release, if no request that has been granted is   *)
(* refused, gets to the present state.                                     *)
(***************************************************************************)
AddedLater ==
  \A r \in Nat : r = 0 \/ r > allocated =>
    P2!program_add_command(projet02, command, r)
      = P2!program_add_command(Here(open, "ERR_NONE"), command, r)

CallsAlike ==
  /\ op = "idle" => projet02 = Here(open, err)
  /\ op = "adding" => AddedLater
  /\ op = "shrinking" => ShrunkFrom(projet02, open)

(* The second release after the lines so far, or while one is being added. *)
LineAdded(r) ==
  IF op = "adding" THEN P2!program_add_command(Here(FALSE, "ERR_NONE"), command, r)
  ELSE Here(FALSE, "ERR_NONE")

RunsAlike ==
  \A W, r : Agrees(W) /\ Unasked(r) =>
    At(Fresh, W, r, Round, Run(LineAdded(r), Left(W, position)))

LoopsAlike ==
  /\ op \in {"idle", "adding"} /\ err = "ERR_NONE" /\ open = TRUE
  /\ allocated >= START_COMMANDS_ALLOCATED
  /\ allocated = START_COMMANDS_ALLOCATED \/ 2 * Round > allocated
  /\ TextRead
  /\ RunsAlike

ShrinksAlike ==
  /\ op = "shrinking" /\ err = "ERR_NONE"
  /\ P2!Added(Fresh, text, 0).err = "ERR_NONE"
  /\ ShrunkFrom(P2!Added(Fresh, text, 0), open)
  /\ MustShrink => P2!Added(Fresh, text, ShrinkSize) = Here(open, "ERR_NONE")

ReleaseInv ==
  /\ reader = "none" => CallsAlike
  /\ reader # "none" => P2!program_init(projet02, TRUE) = Fresh
  /\ reader = "reading" => LoopsAlike
  /\ reader = "shrinking" => ShrinksAlike

-----------------------------------------------------------------------------
(***************************************************************************)
(* The steps of the caller's own calls.                                    *)
(***************************************************************************)
LEMMA InitAlike ==
  ASSUME projet02 = Here(open, err), program_init,
         projet02' = P2!program_init(projet02, listing' # NULL)
  PROVE  op' = "idle" /\ projet02' = Prog(listing', nb_lines', allocated', open, err')
<1> DEFINE g == listing' # NULL
<1> HIDE DEF g
<1>1. P2!program_init(projet02, g) =
        Prog(IF g THEN EmptyBlock ELSE NULL, 0, START_COMMANDS_ALLOCATED, open,
             IF g THEN "ERR_NONE" ELSE "ERR_BAD_PARAMETER")
  BY InitIs DEF Here
<1>2. /\ op' = "idle" /\ nb_lines' = 0 /\ allocated' = START_COMMANDS_ALLOCATED
      /\ listing' = IF g THEN EmptyBlock ELSE NULL
      /\ err' = IF g THEN "ERR_NONE" ELSE "ERR_BAD_PARAMETER"
  <2>1. EmptyBlock # NULL
    BY BlockNotNull, StartAssumption DEF EmptyBlock
  <2>2. program_init
    OBVIOUS
  <2>3. CASE listing' = EmptyBlock /\ err' = "ERR_NONE"
    BY <2>1, <2>2, <2>3 DEF program_init, g
  <2>4. CASE listing' = NULL /\ err' = "ERR_BAD_PARAMETER"
    BY <2>2, <2>4 DEF program_init, g
  <2> QED
    BY <2>2, <2>3, <2>4 DEF program_init
<1>3. projet02' = P2!program_init(projet02, g)
  BY DEF g
<1> QED
  BY <1>1, <1>2, <1>3

LEMMA FreeIs ==
  ASSUME NEW l, NEW n, NEW a, NEW o, NEW e
  PROVE  P2!program_free(Prog(l, n, a, o, e)) = Prog(NULL, 0, 0, o, "ERR_NONE")
<1> DEFINE p == Prog(l, n, a, o, e)
           p1 == [p EXCEPT !.listing = NULL]
           p2 == [p1 EXCEPT !.allocated = 0]
           p3 == [p2 EXCEPT !.nb_lines = 0]
           p4 == [p3 EXCEPT !.err = "ERR_NONE"]
<1>1. p1 = Prog(NULL, n, a, o, e)
  BY DEF Prog
<1>2. p2 = Prog(NULL, n, 0, o, e)
  <2> HIDE DEF p1
  <2> QED
    BY <1>1 DEF Prog
<1>3. p3 = Prog(NULL, 0, 0, o, e)
  <2> HIDE DEF p2
  <2> QED
    BY <1>2 DEF Prog
<1>4. p4 = Prog(NULL, 0, 0, o, "ERR_NONE")
  <2> HIDE DEF p3
  <2> QED
    BY <1>3 DEF Prog
<1>5. P2!program_free(p) = p4
  <2> HIDE DEF p
  <2> QED
    BY DEF P2!program_free, p1, p2, p3, p4
<1> QED
  BY <1>4, <1>5

LEMMA AddBeginsAlike ==
  ASSUME IInv, NEW c \in Commands, listing # NULL, IsAccepted(c), NEW o, NEW e, NEW r
  PROVE  P2!program_add_command(Here(o, e), c, r)
           = P2!program_add_command(Here(o, "ERR_NONE"), c, r)
<1>1. nb_lines \in Nat /\ allocated \in Nat \ {0} /\ DOMAIN listing = 0 .. allocated - 1
  BY DEF IInv, TypeOK, ListingFits
<1> DEFINE x == IF nb_lines < allocated
                THEN Prog(Stored(listing, nb_lines, c), nb_lines + 1, allocated, o, "ERR_NONE")
                ELSE IF 2 * allocated = r THEN Prog(listing, nb_lines, allocated, o, "ERR_MEM")
                ELSE P2!program_add_command(
                       Prog(Resized(listing, 2 * allocated), nb_lines, 2 * allocated, o,
                            "ERR_NONE"), c, r)
<1>2. P2!program_add_command(Here(o, e), c, r) = x
  BY <1>1, AddSteps DEF Here
<1>3. P2!program_add_command(Here(o, "ERR_NONE"), c, r) = x
  BY <1>1, AddSteps DEF Here
<1> QED
  BY <1>2, <1>3

LEMMA CallBeginsAlike ==
  ASSUME IInv, op = "idle", CallsAlike, CallBegins, open' = open
  PROVE  CallsAlike'
<1>1. projet02 = Here(open, err)
  BY DEF CallsAlike
<1>2. ASSUME op' = "idle",
             projet02' = Prog(listing', nb_lines', allocated', open, err')
      PROVE  CallsAlike'
  BY <1>2 DEF CallsAlike, Here
<1>3. CASE InitBoth
  <2>1. program_init /\ projet02' = P2!program_init(projet02, listing' # NULL)
    BY <1>3 DEF InitBoth, Both
  <2> QED
    BY <1>1, <1>2, <2>1, InitAlike
<1>4. CASE FreeBoth
  <2>1. /\ projet02' = P2!program_free(projet02)
        /\ op' = "idle" /\ listing' = NULL /\ nb_lines' = 0 /\ allocated' = 0
        /\ err' = "ERR_NONE"
    BY <1>4 DEF FreeBoth, Both, program_free
  <2>2. P2!program_free(projet02) = Prog(NULL, 0, 0, open, "ERR_NONE")
    BY <1>1, FreeIs DEF Here
  <2> QED
    BY <1>2, <2>1, <2>2
<1>5. ASSUME NEW c \in Commands, AddRefusedBoth(c) PROVE CallsAlike'
  <2>1. /\ listing = NULL \/ ~ IsAccepted(c)
        /\ op' = "idle" /\ err' = "ERR_BAD_PARAMETER"
        /\ UNCHANGED << listing, nb_lines, allocated >>
        /\ projet02' = P2!program_add_command(projet02, c, Granted)
    BY <1>5 DEF AddRefusedBoth, AddRefused, AddBoth, Both
  <2>2. P2!program_add_command(projet02, c, Granted) = Here(open, "ERR_BAD_PARAMETER")
    BY <1>1, <2>1, AddRefusedIs DEF Here
  <2> QED
    BY <1>2, <2>1, <2>2 DEF Here
<1>6. ASSUME NEW c \in Commands, AddBegins(c), Unfinished PROVE CallsAlike'
  <2>1. /\ op' = "adding" /\ command' = c /\ listing # NULL /\ IsAccepted(c)
        /\ UNCHANGED << listing, nb_lines, allocated, err, projet02 >>
    BY <1>6 DEF AddBegins, Unfinished
  <2>2. ASSUME NEW r \in Nat
        PROVE  P2!program_add_command(projet02, c, r)
                 = P2!program_add_command(Here(open, "ERR_NONE"), c, r)
    BY <1>1, <2>1, AddBeginsAlike
  <2>3. AddedLater'
    BY <2>1, <2>2 DEF AddedLater, Here
  <2> QED
    BY <2>1, <2>3 DEF CallsAlike
<1>7. CASE ShrinkBegins /\ Unfinished
  <2>1. /\ op' = "shrinking"
        /\ UNCHANGED << listing, nb_lines, allocated, err, projet02 >>
    BY <1>7 DEF ShrinkBegins, Unfinished
  <2>2. projet02' = Here(open, err)'
    BY <1>1, <2>1 DEF Here
  <2> QED
    BY <2>1, <2>2 DEF CallsAlike, ShrunkFrom
<1> QED
  BY <1>3, <1>4, <1>5, <1>6, <1>7 DEF CallBegins

LEMMA CallProceedsAlike ==
  ASSUME IInv, LinesAccepted, CallsAlike, CallProceeds, open' = open
  PROVE  CallsAlike'
<1>1. ASSUME op' = "idle",
             projet02' = Prog(listing', nb_lines', allocated', open, err')
      PROVE  CallsAlike'
  BY <1>1 DEF CallsAlike, Here
<1>2. CASE AddGrows /\ Unfinished
  <2>1. /\ op = "adding" /\ op' = "adding" /\ command' = command /\ projet02' = projet02
        /\ allocated' = 2 * allocated /\ allocated \in Nat \ {0}
    BY <1>2 DEF AddGrows, NeedsRoom, resize_succeeds, Unfinished, IInv, TypeOK, ListingFits
  <2>2. ASSUME NEW r \in Nat, r = 0 \/ r > allocated'
        PROVE  P2!program_add_command(projet02, command, r)
                 = P2!program_add_command(
                     Prog(listing', nb_lines', allocated', open, "ERR_NONE"), command, r)
    <3>1. r # 2 * allocated /\ (r = 0 \/ r > allocated)
      BY <2>1, <2>2
    <3>2. P2!program_add_command(projet02, command, r)
            = P2!program_add_command(Here(open, "ERR_NONE"), command, r)
      BY <2>1, <3>1 DEF CallsAlike, AddedLater
    <3>3. P2!program_add_command(Here(open, "ERR_NONE"), command, r)
            = P2!program_add_command(
                Prog(listing', nb_lines', allocated', open, "ERR_NONE"), command, r)
      BY <1>2, <2>1, <3>1, AddActs
    <3> QED
      BY <3>2, <3>3
  <2>3. AddedLater'
    BY <2>1, <2>2 DEF AddedLater, Here
  <2> QED
    BY <2>1, <2>3 DEF CallsAlike
<1>3. CASE AddStores /\ AddBoth(command, Granted)
  <2>1. /\ op = "adding" /\ op' = "idle" /\ err' = "ERR_NONE"
        /\ projet02' = P2!program_add_command(projet02, command, 0)
    BY <1>3 DEF AddStores, Returns, AddBoth, Both, Granted
  <2>2. P2!program_add_command(projet02, command, 0)
          = P2!program_add_command(Here(open, "ERR_NONE"), command, 0)
    BY <2>1 DEF CallsAlike, AddedLater
  <2>3. P2!program_add_command(Here(open, "ERR_NONE"), command, 0)
          = Prog(listing', nb_lines', allocated', open, "ERR_NONE")
    BY <1>3, <2>1, AddActs
  <2> QED
    BY <1>1, <2>1, <2>2, <2>3
<1>4. CASE /\ ShrinkResizes \/ ShrinkRefused \/ ShrinkEnds
           /\ IF op' = "idle" THEN ShrinkBoth(Granted) ELSE Unfinished
  <2>1. ShrinkProceeds /\ op = "shrinking" /\ op' \in {"idle", "shrinking"}
    BY <1>4 DEF ShrinkProceeds, ShrinkResizes, ShrinkRefused, ShrinkEnds, MustShrink, Returns
  <2>2. ShrunkFrom(projet02, open)
    BY <2>1 DEF CallsAlike
  <2>3. IF op' = "idle"
        THEN P2!program_shrink(projet02, 0) = Prog(listing', nb_lines', allocated', open, err')
        ELSE /\ nb_lines' > 0 /\ allocated' = nb_lines' /\ err' = err
             /\ P2!program_shrink(projet02, 0)
                  = Prog(listing', nb_lines', allocated', open, "ERR_NONE")
    BY <2>1, <2>2, ShrinkActs
  <2>4. CASE op' = "idle"
    <3>1. projet02' = P2!program_shrink(projet02, 0)
      BY <1>4, <2>4 DEF ShrinkBoth, Both, Granted
    <3> QED
      BY <1>1, <2>3, <2>4, <3>1
  <2>5. CASE op' = "shrinking"
    <3>1. projet02' = projet02
      BY <1>4, <2>5 DEF Unfinished
    <3>2. ShrunkFrom(projet02, open)'
      BY <2>3, <2>5, <3>1 DEF ShrunkFrom, Here
    <3> QED
      BY <2>5, <3>2 DEF CallsAlike
  <2> QED
    BY <2>1, <2>4, <2>5
<1> QED
  BY <1>2, <1>3, <1>4 DEF CallProceeds

LEMMA CallFailsAlike ==
  ASSUME IInv, LinesAccepted, CallsAlike, CallFails, open' = open
  PROVE  CallsAlike'
<1>1. ASSUME op' = "idle",
             projet02' = Prog(listing', nb_lines', allocated', open, err')
      PROVE  CallsAlike'
  BY <1>1 DEF CallsAlike, Here
<1>2. CASE AddFails /\ AddBoth(command, 2 * allocated)
  <2>1. /\ op = "adding" /\ op' = "idle" /\ err' = "ERR_MEM" /\ allocated \in Nat \ {0}
        /\ projet02' = P2!program_add_command(projet02, command, 2 * allocated)
    BY <1>2 DEF AddFails, NeedsRoom, Returns, AddBoth, Both, IInv, TypeOK, ListingFits
  <2>2. 2 * allocated \in Nat /\ 2 * allocated > allocated
    BY <2>1
  <2>3. P2!program_add_command(projet02, command, 2 * allocated)
          = P2!program_add_command(Here(open, "ERR_NONE"), command, 2 * allocated)
    BY <2>1, <2>2 DEF CallsAlike, AddedLater
  <2>4. P2!program_add_command(Here(open, "ERR_NONE"), command, 2 * allocated)
          = Prog(listing', nb_lines', allocated', open, "ERR_MEM")
    BY <1>2, <2>1, AddActs
  <2> QED
    BY <1>1, <2>1, <2>3, <2>4
<1>3. CASE ShrinkFails /\ ShrinkBoth(ShrinkSize)
  <2>1. /\ MustShrink /\ op = "shrinking" /\ op' = "idle"
        /\ projet02' = P2!program_shrink(projet02, ShrinkSize)
    BY <1>3 DEF ShrinkFails, MustShrink, Returns, ShrinkBoth, Both
  <2>2. projet02 = Here(open, err)
    <3>1. nb_lines \in Nat /\ allocated \in Nat /\ ShrunkFrom(projet02, open)
      BY <2>1 DEF CallsAlike, IInv, TypeOK
    <3> QED
      BY <2>1, <3>1 DEF ShrunkFrom, MustShrink
  <2>3. P2!program_shrink(Here(open, err), ShrinkSize)
          = Prog(listing', nb_lines', allocated', open, err')
    BY <1>3, ShrinkFailsActs
  <2> QED
    BY <1>1, <2>1, <2>2, <2>3
<1> QED
  BY <1>2, <1>3 DEF CallFails

(* The caller's calls do not change what a read would.                     *)
LEMMA UsesAlike ==
  ASSUME IInv, LinesAccepted, ReleaseInv, Uses(CallBegins \/ CallProceeds \/ CallFails)
  PROVE  ReleaseInv'
<1>1. reader = "none" /\ reader' = "none" /\ open' = open /\ CallsAlike
  BY DEF Uses, stream, ReleaseInv
<1>2. CASE CallBegins
  <2>1. op = "idle"
    BY <1>2 DEF CallBegins, InitBoth, FreeBoth, AddRefusedBoth, program_init, program_free,
                AddRefused, AddBegins, ShrinkBegins
  <2> QED
    BY <1>1, <1>2, <2>1, CallBeginsAlike DEF ReleaseInv
<1>3. CASE CallProceeds
  BY <1>1, <1>3, CallProceedsAlike DEF ReleaseInv
<1>4. CASE CallFails
  BY <1>1, <1>4, CallFailsAlike DEF ReleaseInv
<1> QED
  BY <1>2, <1>3, <1>4 DEF Uses

-----------------------------------------------------------------------------
(***************************************************************************)
(* program_read begins.                                                    *)
(***************************************************************************)
LEMMA CannotOpenAlike ==
  ASSUME ReleaseInv, CannotOpenAny
  PROVE  ReleaseInv'
<1>1. /\ reader = "none" /\ op = "idle" /\ reader' = "none" /\ op' = "idle" /\ open' = open
      /\ err' = "ERR_BAD_PARAMETER" /\ UNCHANGED << listing, nb_lines, allocated >>
      /\ projet02' = P2!program_read_not_opened(projet02)
  BY DEF CannotOpenAny, CannotOpen, Calls, ProgramKept, stream, Both
<1>2. projet02 = Here(open, err)
  BY <1>1 DEF ReleaseInv, CallsAlike
<1>3. projet02' = Here(open, "ERR_BAD_PARAMETER")
  BY <1>1, <1>2, ReturnsIs DEF Here, P2!program_read_not_opened
<1> QED
  BY <1>1, <1>3 DEF ReleaseInv, CallsAlike, Here

LEMMA OpensAlike ==
  ASSUME ReleaseInv, NEW t \in Texts, OpensAll(t)
  PROVE  ReleaseInv'
<1>1. /\ reader = "none" /\ op = "idle" /\ op' = "idle" /\ open = FALSE
      /\ nb_lines' = 0 /\ allocated' = START_COMMANDS_ALLOCATED
      /\ \/ listing' = EmptyBlock /\ err' = "ERR_NONE"
         \/ listing' = NULL /\ err' = "ERR_BAD_PARAMETER"
  BY DEF OpensAll, Opens, Calls, program_init
<1>2. projet02 = Prog(listing, nb_lines, allocated, FALSE, err)
  BY <1>1 DEF ReleaseInv, CallsAlike, Here
<1>3. CASE err' # "ERR_NONE"
  <2>1. listing' = NULL /\ err' = "ERR_BAD_PARAMETER" /\ reader' = "none" /\ open' = FALSE
    BY <1>1, <1>3 DEF OpensAll, Opens
  <2>2. projet02' = P2!program_read(projet02, t, FALSE, Granted, FALSE)
    BY <1>3 DEF OpensAll, ReadBoth, Both
  <2>3. projet02' = Prog(NULL, 0, START_COMMANDS_ALLOCATED, FALSE, "ERR_BAD_PARAMETER")
    <3> DEFINE fe == FALSE
               g == FALSE
               o == FALSE
    <3>1. ~ g
      OBVIOUS
    <3> HIDE DEF fe, g, o
    <3>2. P2!program_read(Prog(listing, nb_lines, allocated, o, err), t, g, Granted, fe)
            = Prog(NULL, 0, START_COMMANDS_ALLOCATED, o, "ERR_BAD_PARAMETER")
      BY <3>1, NotInitialized
    <3> QED
      BY <1>2, <2>2, <3>2 DEF fe, g, o
  <2> QED
    BY <1>1, <2>1, <2>3 DEF ReleaseInv, CallsAlike, Here
<1>4. CASE err' = "ERR_NONE"
  <2>1. /\ listing' = EmptyBlock /\ reader' = "reading" /\ open' = TRUE /\ file' = Parsed(t)
        /\ text' = t /\ position' = 0 /\ projet02' = projet02
    BY <1>1, <1>4 DEF OpensAll, Opens, Unfinished
  <2>2. t \in Seq(T!Words) /\ Len(t) \in Nat
    BY TextsAreFiles, LenProperties
  <2>3. P2!program_init(projet02, TRUE) = Fresh
    <3> DEFINE g == TRUE
               o == FALSE
    <3> HIDE DEF g, o
    <3>1. P2!program_init(Prog(listing, nb_lines, allocated, o, err), g)
            = Prog(IF g THEN EmptyBlock ELSE NULL, 0, START_COMMANDS_ALLOCATED, o,
                   IF g THEN "ERR_NONE" ELSE "ERR_BAD_PARAMETER")
      BY InitIs
    <3> QED
      BY <1>2, <3>1 DEF g, o, Fresh
  <2>4. Round' = 0 /\ Lines' = << >> /\ Pending' = << >> /\ Unread' = t
    <3>1. Unread' = Left(t, 0)
      BY <2>1 DEF Unread, Left
    <3>2. Lines' = << >>
      BY <1>1, NoLines DEF Lines
    <3>3. Left(t, 0) = t
      BY <2>2, NothingReadYet
    <3> QED
      BY <1>1, <3>1, <3>2, <3>3 DEF Round, Pending
  <2>5. Here(FALSE, "ERR_NONE")' = Fresh
    BY <1>1, <2>1 DEF Here, Fresh
  <2>6. TextRead'
    <3>1. ASSUME NEW f, ParseRounds(t, Len(t), f)
          PROVE  f[0] = [lines |-> << >> \o << >>, rest |-> t]
      <4>1. f[0] = [lines |-> << >>, rest |-> t]
        BY <2>2, <3>1 DEF ParseRounds
      <4>2. << >> \o << >> = << >>
        BY EmptySeq, ConcatEmptySeq
      <4> QED
        BY <4>1, <4>2
    <3>2. ParsedSoFar'
      BY <2>1, <2>4, <3>1 DEF ParsedSoFar
    <3> QED
      BY <2>1, <2>2, <2>4, <3>2 DEF TextRead
  <2>7. RunsAlike'
    <3>1. ASSUME NEW W \in Seq(T!Words), NEW r
          PROVE  At(Fresh, W, r, 0, Run(Fresh, Left(W, 0)))
      <4>1. Left(W, 0) = W /\ Len(W) \in Nat
        BY NothingReadYet, LenProperties
      <4> QED
        BY <4>1, AtFirst
    <3>2. ASSUME NEW r PROVE LineAdded(r)' = Fresh
      BY <1>1, <2>5 DEF LineAdded
    <3>3. ASSUME NEW W, NEW r, Agrees(W)', Unasked(r)'
          PROVE  At(Fresh, W, r, Round', Run(LineAdded(r)', Left(W, position')))
      BY <2>1, <2>4, <3>1, <3>2, <3>3 DEF Agrees
    <3> QED
      BY <3>3 DEF RunsAlike
  <2>8. LoopsAlike'
    BY <1>1, <1>4, <2>1, <2>6, <2>7, StartAssumption DEF LoopsAlike
  <2> QED
    BY <2>1, <2>3, <2>8 DEF ReleaseInv
<1> QED
  BY <1>3, <1>4

-----------------------------------------------------------------------------
(***************************************************************************)
(* program_read reads a line.                                              *)
(***************************************************************************)
CutOff(q) == [q EXCEPT !.err = "ERR_IO", !.open = TRUE]

LEMMA ReadStops ==
  ASSUME ReleaseInv, reader # "none", NEW W, NEW r, NEW q, q = P2!Added(Fresh, W, r),
         q.err # "ERR_NONE"
  PROVE  /\ P2!program_read(projet02, W, TRUE, r, TRUE) = q
         /\ P2!program_read(projet02, W, TRUE, r, FALSE) = q
<1>1. P2!program_init(projet02, TRUE) = Fresh /\ Fresh.err = "ERR_NONE"
  BY DEF ReleaseInv, Fresh, Prog
<1> QED
  BY <1>1 DEF P2!program_read

LEMMA ReadGoesOn ==
  ASSUME ReleaseInv, reader # "none", NEW W, NEW r, NEW q, q = P2!Added(Fresh, W, r),
         q.err = "ERR_NONE"
  PROVE  /\ P2!program_read(projet02, W, TRUE, r, TRUE) = CutOff(q)
         /\ P2!program_read(projet02, W, TRUE, r, FALSE) = P2!program_shrink(q, r)
<1>1. P2!program_init(projet02, TRUE) = Fresh /\ Fresh.err = "ERR_NONE"
  BY DEF ReleaseInv, Fresh, Prog
<1> QED
  BY <1>1 DEF P2!program_read, CutOff

LEMMA CutOffIs ==
  CutOff(Here(FALSE, "ERR_NONE")) = Prog(listing, nb_lines, allocated, TRUE, "ERR_IO")
<1> DEFINE no  == FALSE
           yes == TRUE
           p == Here(no, "ERR_NONE")
           q == [p EXCEPT !.err = "ERR_IO"]
           u == [q EXCEPT !.open = yes]
<1> HIDE DEF no, yes
<1>1. q = Here(no, "ERR_IO")
  BY DEF Here, Prog
<1>2. u = Prog(listing, nb_lines, allocated, yes, "ERR_IO")
  <2> HIDE DEF q
  <2> QED
    BY <1>1 DEF Here, Prog
<1>3. CutOff(p) = u
  <2> HIDE DEF p
  <2> QED
    BY DEF CutOff, yes, q, u
<1> HIDE DEF u
<1> QED
  BY <1>2, <1>3 DEF no, yes, p

LEMMA HereReturns ==
  ASSUME NEW code
  PROVE  P2!Returns(Here(FALSE, "ERR_NONE"), code) = Here(FALSE, code)
<1> DEFINE o == FALSE
<1> HIDE DEF o
<1>1. P2!Returns(Here(o, "ERR_NONE"), code) = Here(o, code)
  BY ReturnsIs DEF Here
<1> QED
  BY <1>1 DEF o

LEMMA CallReturned ==
  ASSUME reader' = "none", op' = "idle",
         projet02' = Prog(listing', nb_lines', allocated', open', err')
  PROVE  ReleaseInv'
BY DEF ReleaseInv, CallsAlike, Here

LEMMA ReadingIs ==
  ASSUME ReadInv, ReleaseInv, reader = "reading"
  PROVE  /\ LoopsAlike /\ IInv /\ TextRead /\ RunsAlike
         /\ nb_lines \in Nat /\ allocated \in Nat /\ Round \in Nat
         /\ text \in Seq(T!Words) /\ Len(text) \in Nat
         /\ position \in 0 .. Len(text) /\ Round <= position
         /\ START_COMMANDS_ALLOCATED \in Nat \ {0}
         /\ Unread = Left(text, position)
<1>1. LoopsAlike /\ IInv /\ TextRead /\ RunsAlike /\ START_COMMANDS_ALLOCATED \in Nat \ {0}
  BY StartAssumption DEF ReleaseInv, LoopsAlike, ReadInv
<1>2. nb_lines \in Nat /\ allocated \in Nat /\ Round \in Nat
  BY <1>1 DEF IInv, TypeOK, Round
<1>3. /\ text \in Seq(T!Words) /\ Len(text) \in Nat
      /\ position \in 0 .. Len(text) /\ Round <= position
  BY <1>1, LenProperties DEF TextRead
<1>4. Unread = Left(text, position)
  BY DEF Unread, Left
<1> QED
  BY <1>1, <1>2, <1>3, <1>4

(* The text itself, and no request refused.                                *)
LEMMA TextAgrees ==
  ASSUME ReadInv, ReleaseInv, reader = "reading", NEW r, Unasked(r)
  PROVE  At(Fresh, text, r, Round, Run(LineAdded(r), Unread))
<1>1. Agrees(text)
  BY ReadingIs DEF Agrees
<1> QED
  BY <1>1, ReadingIs DEF RunsAlike

LEMMA CommandOfLine ==
  ASSUME ReadInv, ReleaseInv, reader = "reading", op = "idle",
         rest # << >>, Head(rest) # Malformed
  PROVE  /\ Unread # << >> /\ T!readCommand(Unread).err = "ERR_NONE"
         /\ T!readCommand(Unread).command = Head(rest) /\ Head(rest) \in Commands
<1>1. TextRead
  BY ReadingIs
<1>2. Unread # << >>
  BY <1>1, NextLine
<1>3. Head(rest) = IF T!readCommand(Unread).err # "ERR_NONE" THEN Malformed
                   ELSE T!readCommand(Unread).command
  BY <1>1, <1>2, NextLine
<1>4. rest \in Seq(FileLine)
  BY DEF ReadInv
<1>5. Head(rest) \in FileLine
  BY <1>4, HeadTailProperties
<1> QED
  BY <1>2, <1>3, <1>5 DEF FileLine

(***************************************************************************)
(* program_read returns without having read the whole text.                *)
(***************************************************************************)
LEMMA RefusesTextAlike ==
  ASSUME ReadInv, ReleaseInv, RefusesText
  PROVE  ReleaseInv'
<1>1. /\ reader = "reading" /\ op = "idle" /\ rest # << >>
      /\ reader' = "none" /\ op' = "idle" /\ open' = FALSE /\ err' # "ERR_NONE"
      /\ UNCHANGED << listing, nb_lines, allocated >>
      /\ projet02' = P2!program_read(projet02, text, TRUE, 0, FALSE)
      /\ \/ err' = T!readCommand(Unread).err
         \/ /\ Head(rest) # Malformed /\ err' = "ERR_BAD_PARAMETER"
            /\ listing = NULL \/ ~ IsAccepted(Head(rest))
  BY DEF RefusesText, ReadsMalformed, ReadsRefused, AddRefused, Loops, Abandons, ProgramKept,
         ReadBoth, Both, Granted
<1> DEFINE p == Here(FALSE, "ERR_NONE")
           s == Here(FALSE, err')
<1>2. /\ Unread # << >> /\ Len(text) \in Nat /\ Round \in Nat /\ Round + 1 <= Len(text)
  <2>1. Unread # << >>
    BY <1>1, NextLine, ReadingIs
  <2>2. Left(text, position) = << >> <=> position = Len(text)
    BY <1>1, ReadingIs, LeftIs
  <2> QED
    BY <1>1, <2>1, <2>2, ReadingIs
<1>3. At(Fresh, text, 0, Round, Run(p, Unread))
  <2>1. Unasked(0)
    BY DEF Unasked
  <2> QED
    BY <1>1, <2>1, TextAgrees DEF LineAdded
<1>4. p.err = "ERR_NONE" /\ s.err = err'
  BY DEF Here, Prog
<1>5. IF T!readCommand(Unread).err # "ERR_NONE"
      THEN s = P2!Returns(p, T!readCommand(Unread).err)
      ELSE s = P2!program_add_command(p, T!readCommand(Unread).command, 0)
  <2>1. CASE err' = T!readCommand(Unread).err
    BY <1>1, <2>1, HereReturns
  <2>2. CASE /\ Head(rest) # Malformed /\ err' = "ERR_BAD_PARAMETER"
             /\ listing = NULL \/ ~ IsAccepted(Head(rest))
    <3>1. /\ T!readCommand(Unread).err = "ERR_NONE"
          /\ T!readCommand(Unread).command = Head(rest) /\ Head(rest) \in Commands
      BY <1>1, <2>2, CommandOfLine
    <3>2. P2!program_add_command(p, Head(rest), 0) = s
      BY <2>2, <3>1, AddRefusedIs DEF Here
    <3> QED
      BY <3>1, <3>2
  <2> QED
    BY <1>1, <2>1, <2>2
<1> HIDE DEF p, s
<1>6. s = P2!Added(Fresh, text, 0)
  BY <1>1, <1>2, <1>3, <1>4, <1>5, StopsAtLine
<1>7. projet02' = s
  BY <1>1, <1>4, <1>6, ReadStops
<1> QED
  BY <1>1, <1>7, CallReturned DEF s, Here

LEMMA CannotAddAlike ==
  ASSUME ReadInv, LinesAccepted, ReleaseInv, CannotAddRead
  PROVE  ReleaseInv'
<1> DEFINE r == 2 * allocated
           s == Prog(listing', nb_lines', allocated', FALSE, "ERR_MEM")
<1>1. /\ reader = "reading" /\ op = "adding" /\ AddFails
      /\ reader' = "none" /\ op' = "idle" /\ open' = FALSE /\ err' = "ERR_MEM"
      /\ projet02' = P2!program_read(projet02, text, TRUE, r, FALSE)
  BY DEF CannotAddRead, CannotAdd, AddFails, NeedsRoom, Returns, Abandons, ReadBoth, Both
<1>2. /\ Len(text) \in Nat /\ Round \in Nat /\ Round <= Len(text) /\ allocated \in Nat \ {0}
      /\ IInv
  BY <1>1, ReadingIs DEF LoopsAlike
<1>3. At(Fresh, text, r, Round, Run(s, Unread))
  <2>1. Unasked(r)
    BY <1>2 DEF Unasked
  <2>2. At(Fresh, text, r, Round, Run(LineAdded(r), Unread))
    BY <1>1, <2>1, TextAgrees
  <2>3. LineAdded(r) = s
    BY <1>1, <1>2, AddActs DEF LineAdded
  <2> QED
    BY <2>2, <2>3
<1>4. s.err = "ERR_MEM"
  BY DEF Prog
<1> HIDE DEF s, r
<1>5. s = P2!Added(Fresh, text, r)
  BY <1>2, <1>3, <1>4, StopsFailed
<1>6. projet02' = s
  BY <1>1, <1>4, <1>5, ReadStops
<1> QED
  BY <1>1, <1>6, CallReturned DEF s

LEMMA FailsBeforeAlike ==
  ASSUME ReadInv, ReleaseInv, FailsBeforeLine
  PROVE  ReleaseInv'
<1> DEFINE W == SubSeq(text, 1, position)
           p == Here(FALSE, "ERR_NONE")
<1>1. /\ reader = "reading" /\ op = "idle"
      /\ reader' = "none" /\ op' = "idle" /\ open' = open /\ err' = "ERR_IO"
      /\ UNCHANGED << listing, nb_lines, allocated >>
      /\ projet02' = P2!program_read(projet02, W, TRUE, 0, TRUE)
  BY DEF FailsBeforeLine, ReadFailsBeforeLine, Loops, ProgramKept, ReadBoth, Both, Granted
<1>2. /\ Len(text) \in Nat /\ text \in Seq(T!Words) /\ position \in 0 .. Len(text)
      /\ Round \in Nat /\ Round <= position /\ open = TRUE
  BY <1>1, ReadingIs DEF LoopsAlike
<1>3. /\ W \in Seq(T!Words) /\ Len(W) = position
      /\ \A i \in 1 .. position : W[i] = text[i]
  <2>1. 1 \in Int /\ position \in Int /\ \A i \in 1 .. position : text[i] \in T!Words
    BY <1>2, ElementOfSeq
  <2>2. /\ SubSeq(text, 1, position) \in Seq(T!Words)
        /\ Len(SubSeq(text, 1, position)) = IF 1 <= position THEN position - 1 + 1 ELSE 0
        /\ \A i \in 1 .. position - 1 + 1 : SubSeq(text, 1, position)[i] = text[1 + i - 1]
    BY <2>1, SubSeqProperties
  <2> QED
    BY <1>2, <2>2
<1> HIDE DEF W
<1>4. Left(W, position) = << >>
  BY <1>2, <1>3, LeftIs
<1>5. At(Fresh, W, 0, Round, Run(p, << >>))
  <2>1. Agrees(W) /\ Unasked(0)
    BY <1>2, <1>3 DEF Agrees, Unasked
  <2>2. At(Fresh, W, 0, Round, Run(LineAdded(0), Left(W, position)))
    BY <1>1, <2>1, ReadingIs DEF RunsAlike
  <2> QED
    BY <1>1, <1>4, <2>2 DEF LineAdded
<1>6. p = P2!Added(Fresh, W, 0)
  <2> HIDE DEF p
  <2> QED
    BY <1>2, <1>3, <1>5, StopsAtEnd
<1>7. p.err = "ERR_NONE"
  BY DEF Here, Prog
<1>8. projet02' = CutOff(p)
  <2> HIDE DEF p
  <2> QED
    BY <1>1, <1>6, <1>7, ReadGoesOn
<1>9. projet02' = Prog(listing, nb_lines, allocated, TRUE, "ERR_IO")
  BY <1>8, CutOffIs
<1> QED
  BY <1>1, <1>2, <1>9, CallReturned

LEMMA FailsInLineAlike ==
  ASSUME ReadInv, ReleaseInv, FailsInLine
  PROVE  ReleaseInv'
<1>1. PICK k \in position + 1 .. Len(text) :
        /\ err' = T!readCommand(SubSeq(CutAfter(k), position + 1, k)).err
        /\ projet02' = P2!program_read(projet02, CutAfter(k), TRUE, 0, TRUE)
  BY DEF FailsInLine, ReadBoth, Both, Granted
<1> DEFINE W == CutAfter(k)
           p == Here(FALSE, "ERR_NONE")
           s == Here(FALSE, err')
<1>2. /\ reader = "reading" /\ op = "idle"
      /\ reader' = "none" /\ op' = "idle" /\ open' = FALSE /\ err' # "ERR_NONE"
      /\ UNCHANGED << listing, nb_lines, allocated >>
  BY DEF FailsInLine, ReadFailsInLine, Loops, ProgramKept, Abandons
<1>3. /\ Len(text) \in Nat /\ text \in Seq(T!Words) /\ position \in 0 .. Len(text)
      /\ Round \in Nat /\ Round <= position
  BY <1>2, ReadingIs
<1>4. /\ W \in Seq(T!Words) /\ Len(W) = k
      /\ \A i \in 1 .. position : W[i] = text[i]
  <2>1. k \in Nat /\ k \in 1 .. Len(text) /\ position < k
    BY <1>3
  <2>2. ASSUME NEW i \in 1 .. k PROVE text[i] \in T!Words
    <3>1. i \in 1 .. Len(text)
      BY <1>3, <2>1
    <3> QED
      BY <1>3, <3>1, ElementOfSeq
  <2>3. ASSUME NEW i \in 1 .. k PROVE [text[i] EXCEPT !.ends = "end"] \in T!Words
    BY <2>2 DEF T!Words
  <2>4. W = [i \in 1 .. k |-> IF i = k THEN [text[i] EXCEPT !.ends = "end"] ELSE text[i]]
    BY DEF CutAfter
  <2> HIDE DEF W
  <2>5. W \in [1 .. k -> T!Words]
    BY <2>2, <2>3, <2>4
  <2>6. W \in Seq(T!Words) /\ Len(W) = k
    BY <2>1, <2>5
  <2>7. ASSUME NEW i \in 1 .. position PROVE W[i] = text[i]
    <3>1. i \in 1 .. k /\ i # k
      BY <1>3, <2>1
    <3> QED
      BY <2>4, <3>1
  <2> QED
    BY <2>6, <2>7
<1>5. Left(W, position) = SubSeq(W, position + 1, k)
  BY <1>4 DEF Left
<1> HIDE DEF W
<1>6. Left(W, position) # << >>
  <2>1. position \in 0 .. Len(W) /\ position # Len(W)
    BY <1>3, <1>4
  <2> QED
    BY <1>4, <2>1, LeftIs
<1>7. At(Fresh, W, 0, Round, Run(p, Left(W, position)))
  <2>1. Agrees(W) /\ Unasked(0)
    BY <1>3, <1>4 DEF Agrees, Unasked
  <2>2. At(Fresh, W, 0, Round, Run(LineAdded(0), Left(W, position)))
    BY <1>2, <2>1, ReadingIs DEF RunsAlike
  <2> QED
    BY <1>2, <2>2 DEF LineAdded
<1>8. p.err = "ERR_NONE" /\ s.err = err' /\ s = P2!Returns(p, err')
  BY HereReturns DEF Here, Prog
<1>9. T!readCommand(Left(W, position)).err = err'
  BY <1>1, <1>5 DEF W
<1>10. Round + 1 <= Len(W) /\ Len(W) \in Nat
  BY <1>3, <1>4
<1> HIDE DEF p, s
<1>11. s = P2!Added(Fresh, W, 0)
  <2> DEFINE w == Left(W, position)
  <2> HIDE DEF w
  <2>1. /\ w # << >> /\ At(Fresh, W, 0, Round, Run(p, w))
        /\ IF T!readCommand(w).err # "ERR_NONE"
           THEN s = P2!Returns(p, T!readCommand(w).err)
           ELSE s = P2!program_add_command(p, T!readCommand(w).command, 0)
    BY <1>2, <1>6, <1>7, <1>8, <1>9 DEF w
  <2> QED
    BY <1>2, <1>3, <1>8, <1>10, <2>1, StopsAtLine
<1>12. projet02' = P2!program_read(projet02, W, TRUE, 0, TRUE)
  BY <1>1 DEF W
<1>13. projet02' = s
  BY <1>2, <1>8, <1>11, <1>12, ReadStops
<1> QED
  BY <1>2, <1>13, CallReturned DEF s, Here

(***************************************************************************)
(* The end of the text, and the shrink of the program.                     *)
(***************************************************************************)
LEMMA ReachesEndAlike ==
  ASSUME ReadInv, ReleaseInv, ReachesEndOfText
  PROVE  ReleaseInv'
<1>1. /\ reader = "reading" /\ op = "idle" /\ rest = << >>
      /\ reader' = "shrinking" /\ op' = "shrinking" /\ open' = FALSE
      /\ UNCHANGED << listing, nb_lines, allocated, err, text, projet02 >>
  BY DEF ReachesEndOfText, ReachesEnd, Loops, ShrinkBegins, Unfinished, SameText
<1> DEFINE p == Here(FALSE, "ERR_NONE")
<1>2. /\ Len(text) \in Nat /\ Round \in Nat /\ Round <= Len(text) /\ Round = nb_lines
      /\ nb_lines \in Nat /\ allocated \in Nat /\ err = "ERR_NONE"
      /\ allocated = START_COMMANDS_ALLOCATED \/ 2 * nb_lines > allocated
      /\ START_COMMANDS_ALLOCATED \in Nat \ {0}
  <2>1. Round = nb_lines
    BY <1>1, ReadingIs DEF Round
  <2> QED
    BY <1>1, <2>1, ReadingIs DEF LoopsAlike
<1>3. Unread = << >>
  BY <1>1, NextLine, ReadingIs
<1>4. ASSUME NEW r, Unasked(r) PROVE P2!Added(Fresh, text, r) = p
  <2>1. At(Fresh, text, r, Round, Run(p, << >>))
    BY <1>1, <1>3, <1>4, TextAgrees DEF LineAdded
  <2> HIDE DEF p
  <2> QED
    BY <1>2, <2>1, StopsAtEnd
<1>5. P2!Added(Fresh, text, 0) = p
  <2>1. Unasked(0)
    BY DEF Unasked
  <2> QED
    BY <1>4, <2>1
<1>6. ASSUME nb_lines = 0 \/ allocated > nb_lines
      PROVE  P2!Added(Fresh, text, ShrinkSize) = p
  <2>1. Unasked(ShrinkSize)
    BY <1>2, <1>6 DEF Unasked, ShrinkSize
  <2> QED
    BY <1>4, <2>1
<1> DEFINE size == ShrinkSize
<1> DEFINE q == Here(open, "ERR_NONE")
<1>7. q' = p /\ size' = size
  BY <1>1 DEF Here, ShrinkSize
<1>8. ShrunkFrom(P2!Added(Fresh, text, 0), open)'
  <2>1. P2!Added(Fresh, text', 0) = q'
    BY <1>1, <1>5, <1>7
  <2>2. q' = Here(open, err)'
    BY <1>1, <1>2
  <2> HIDE DEF q
  <2> QED
    BY <2>1, <2>2 DEF ShrunkFrom
<1>9. MustShrink' => P2!Added(Fresh, text', size') = q'
  <2>1. MustShrink' => nb_lines = 0 \/ allocated > nb_lines
    BY <1>1 DEF MustShrink
  <2>2. MustShrink' => P2!Added(Fresh, text, size) = p
    BY <1>6, <2>1
  <2> HIDE DEF p, q, size
  <2> QED
    BY <1>1, <1>7, <2>2
<1>11. P2!Added(Fresh, text', 0).err = "ERR_NONE"
  <2>1. p.err = "ERR_NONE"
    BY DEF Here, Prog
  <2> HIDE DEF p
  <2> QED
    BY <1>1, <1>5, <2>1
<1>10. ShrinksAlike'
  BY <1>1, <1>2, <1>8, <1>9, <1>11 DEF ShrinksAlike
<1> QED
  BY <1>1, <1>10 DEF ReleaseInv

LEMMA ShrinksAlikeStep ==
  ASSUME ReadInv, ReleaseInv, ShrinksRead
  PROVE  ReleaseInv'
<1> DEFINE a == P2!Added(Fresh, text, 0)
<1>1. reader = "shrinking" /\ ShrinkProceeds /\ open' = open
  BY DEF ShrinksRead, Shrinks
<1>6. op = "shrinking" /\ err = "ERR_NONE" /\ ShrunkFrom(a, open) /\ IInv
  BY <1>1 DEF ReleaseInv, ShrinksAlike, ReadInv
<1>7. op' \in {"idle", "shrinking"}
  BY <1>1, <1>6 DEF ShrinkProceeds, ShrinkResizes, ShrinkRefused, ShrinkEnds, Returns
<1>2. a.err = "ERR_NONE"
  BY <1>1 DEF ReleaseInv, ShrinksAlike
<1>3. IF op' = "idle"
      THEN P2!program_shrink(a, 0) = Prog(listing', nb_lines', allocated', open, err')
      ELSE /\ nb_lines' > 0 /\ allocated' = nb_lines' /\ err' = err
           /\ P2!program_shrink(a, 0) = Prog(listing', nb_lines', allocated', open, "ERR_NONE")
  BY <1>1, <1>6, ShrinkActs
<1>4. CASE op' = "idle"
  <2>1. reader' = "none" /\ projet02' = P2!program_read(projet02, text, TRUE, 0, FALSE)
    BY <1>4 DEF ShrinksRead, Shrinks, ReadBoth, Both, Granted
  <2>2. projet02' = P2!program_shrink(a, 0)
    BY <1>1, <1>2, <2>1, ReadGoesOn
  <2> QED
    BY <1>1, <1>3, <1>4, <2>1, <2>2, CallReturned
<1>5. CASE op' = "shrinking"
  <2>1. reader' = reader /\ projet02' = projet02 /\ text' = text
    BY <1>5 DEF ShrinksRead, Shrinks, Unfinished, SameText
  <2>2. nb_lines' > 0 /\ allocated' = nb_lines'
    BY <1>3, <1>5
  <2>3. ~ MustShrink'
    <3>1. nb_lines' = nb_lines /\ nb_lines \in Nat
      BY <1>1, <1>6 DEF ShrinkProceeds, ShrinkResizes, ShrinkRefused, ShrinkEnds, resize_succeeds,
                  IInv, TypeOK
    <3> QED
      BY <2>2, <3>1 DEF MustShrink
  <2>4. ShrunkFrom(a, open)'
    BY <1>1, <1>3, <1>5, <2>1, <2>2 DEF ShrunkFrom, Here
  <2>5. ShrinksAlike'
    BY <1>2, <1>3, <1>5, <1>6, <2>1, <2>3, <2>4 DEF ShrinksAlike
  <2> QED
    BY <1>1, <2>1, <2>5 DEF ReleaseInv
<1> QED
  BY <1>4, <1>5, <1>7

LEMMA CannotShrinkAlike ==
  ASSUME ReadInv, ReleaseInv, CannotShrinkRead
  PROVE  ReleaseInv'
<1> DEFINE p == Here(open, "ERR_NONE")
<1>1. /\ reader = "shrinking" /\ ShrinkFails /\ MustShrink /\ op' = "idle" /\ reader' = "none"
      /\ open' = open /\ IInv
      /\ P2!Added(Fresh, text, ShrinkSize) = p
      /\ projet02' = P2!program_read(projet02, text, TRUE, ShrinkSize, FALSE)
  BY DEF CannotShrinkRead, Shrinks, ShrinkFails, Returns, ReadBoth, Both, ReleaseInv,
         ShrinksAlike, ReadInv
<1>2. p.err = "ERR_NONE"
  BY DEF Here, Prog
<1>3. projet02' = P2!program_shrink(p, ShrinkSize)
  <2> HIDE DEF p
  <2> QED
    BY <1>1, <1>2, ReadGoesOn
<1>4. P2!program_shrink(p, ShrinkSize) = Prog(listing', nb_lines', allocated', open, err')
  BY <1>1, ShrinkFailsActs
<1> QED
  BY <1>1, <1>3, <1>4, CallReturned

(***************************************************************************)
(* A command is read and added.                                            *)
(***************************************************************************)
LEMMA ReadsCommandAlike ==
  ASSUME ReadInv, ReleaseInv, ReadsCommandText
  PROVE  ReleaseInv'
<1> DEFINE m == position'
           c == Head(rest)
           p == Here(FALSE, "ERR_NONE")
<1>1. /\ reader = "reading" /\ op = "idle" /\ rest # << >> /\ Head(rest) # Malformed
      /\ reader' = "reading" /\ op' = "adding" /\ command' = c
      /\ m = Len(text) - Len(T!readCommand(Unread).rest)
      /\ UNCHANGED << listing, nb_lines, allocated, err, open, file, text, projet02 >>
  BY DEF ReadsCommandText, ReadsCommand, Loops, AddBegins, Unfinished
<1>2. /\ LoopsAlike /\ IInv /\ TextRead /\ RunsAlike
      /\ nb_lines \in Nat /\ allocated \in Nat /\ Round \in Nat
      /\ text \in Seq(T!Words) /\ Len(text) \in Nat
      /\ position \in 0 .. Len(text) /\ Round <= position
      /\ Unread = Left(text, position)
  BY <1>1, ReadingIs
<1>3. /\ Unread # << >> /\ T!readCommand(Unread).err = "ERR_NONE"
      /\ T!readCommand(Unread).command = c /\ c \in Commands
  BY <1>1, CommandOfLine
<1>4. Round = nb_lines /\ Round' = nb_lines + 1
  BY <1>1, <1>2 DEF Round
<1> HIDE DEF m
<1>5. m \in position + 1 .. Len(text) /\ T!readCommand(Unread).rest = Left(text, m)
  BY <1>1, <1>2, <1>3, CommandTaken
<1>6. ASSUME NEW W \in Seq(T!Words), Len(W) >= m, \A i \in 1 .. m : W[i] = text[i]
      PROVE  /\ Left(W, position) # << >> /\ T!readCommand(Left(W, position)).err = "ERR_NONE"
             /\ T!readCommand(Left(W, position)).command = c
             /\ T!readCommand(Left(W, position)).rest = Left(W, m)
  <2> DEFINE t == text
             n == position
             u == Unread
             v == Left(W, position)
  <2>1. /\ t \in Seq(T!Words) /\ n \in 0 .. Len(t)
        /\ u = Left(t, n) /\ u # << >> /\ T!readCommand(u).err = "ERR_NONE"
        /\ m = Len(t) - Len(T!readCommand(u).rest)
    BY <1>1, <1>2, <1>3
  <2>2. W \in Seq(T!Words) /\ Len(W) >= m /\ (\A i \in 1 .. m : W[i] = t[i]) /\ v = Left(W, n)
    BY <1>6
  <2>3. T!readCommand(u).command = c
    BY <1>3
  <2> HIDE DEF t, n, u, v, c
  <2>4. ReadsAs(v, T!readCommand(u).command, Left(W, m))
    BY <2>1, <2>2, CommandTakenAlike
  <2> QED
    BY <2>3, <2>4 DEF v, n, ReadsAs
<1>7. Unread' = Left(text, m)
  BY <1>1 DEF Unread, Left, m
<1>8. ParsedSoFar'
  <2>1. Lines' \o Pending' = Append(Lines, c) /\ Lines \o Pending = Lines
    <3>1. Lines' = Lines /\ Pending' = << c >> /\ Pending = << >>
      BY <1>1, <1>2, LinesUnchanged DEF Pending
    <3>2. Lines \in Seq(Commands)
      BY <1>2, LinesTyped
    <3>3. Append(Lines, c) = Lines \o << c >> /\ Lines \o << >> = Lines
      BY <1>3, <3>2, AppendIsConcat, ConcatEmptySeq
    <3> QED
      BY <3>1, <3>3
  <2>2. ASSUME NEW f, ParseRounds(text, Len(text), f)
        PROVE  f[nb_lines + 1] = [lines |-> Append(Lines, c), rest |-> Left(text, m)]
    <3> DEFINE s == [lines |-> Lines, rest |-> Unread]
               k == nb_lines + 1
    <3>1. f[nb_lines] = s
      BY <1>2, <1>4, <2>1, <2>2 DEF TextRead, ParsedSoFar
    <3>2. k \in 1 .. Len(text) /\ k - 1 = nb_lines
      BY <1>2, <1>4, <1>5
    <3>3. s.lines = Lines /\ s.rest = Unread
      OBVIOUS
    <3> HIDE DEF s, k
    <3>4. f[k] = Parses(f[k - 1])
      <4> DEFINE N == Len(text)
      <4>1. N \in Nat /\ ParseRounds(text, N, f) /\ k \in 1 .. N
        BY <1>2, <2>2, <3>2
      <4> HIDE DEF N
      <4> QED
        BY <4>1, ParseRoundIs
    <3>5. f[k] = Parses(s)
      BY <3>1, <3>2, <3>4
    <3>6. Parses(s) = [lines |-> Append(s.lines, c), rest |-> Left(text, m)]
      BY <1>3, <1>5, <3>3 DEF Parses
    <3> QED
      BY <3>3, <3>5, <3>6 DEF k
  <2> QED
    BY <1>1, <1>4, <1>7, <2>1, <2>2 DEF ParsedSoFar
<1>9. TextRead'
  <2>1. m \in 0 .. Len(text) /\ nb_lines + 1 <= m
    BY <1>2, <1>4, <1>5
  <2> QED
    BY <1>1, <1>2, <1>4, <1>8, <2>1 DEF TextRead, m
<1>10. ASSUME NEW W, NEW r, Agrees(W)', Unasked(r)'
       PROVE  At(Fresh, W, r, Round', Run(LineAdded(r)', Left(W, m)))
  <2>1. W \in Seq(T!Words) /\ Len(W) >= m /\ \A i \in 1 .. m : W[i] = text[i]
    BY <1>1, <1>10 DEF Agrees, m
  <2>2. Len(W) \in Nat /\ Round + 1 <= Len(W)
    BY <1>2, <1>5, <2>1, LenProperties
  <2>3. Agrees(W) /\ Unasked(r)
    <3>1. Len(W) >= position /\ \A i \in 1 .. position : i \in 1 .. m
      BY <1>2, <1>5, <2>1, <2>2
    <3> QED
      BY <1>1, <1>10, <2>1, <3>1 DEF Agrees, Unasked
  <2> DEFINE w == Left(W, position)
  <2>4. At(Fresh, W, r, Round, Run(p, w))
    <3>1. At(Fresh, W, r, Round, Run(LineAdded(r), w))
      BY <1>2, <2>3 DEF RunsAlike
    <3>2. LineAdded(r) = p
      BY <1>1 DEF LineAdded
    <3> QED
      BY <3>1, <3>2
  <2>5. /\ w # << >> /\ T!readCommand(w).err = "ERR_NONE" /\ T!readCommand(w).command = c
        /\ T!readCommand(w).rest = Left(W, m)
    BY <1>6, <2>1
  <2>6. p.err = "ERR_NONE"
    BY DEF Here, Prog
  <2>7. LineAdded(r)' = P2!program_add_command(p, c, r)
    BY <1>1 DEF LineAdded, Here
  <2> HIDE DEF w, p, c
  <2>8. P2!Adds(Run(p, w), r) = Run(P2!program_add_command(p, c, r), Left(W, m))
    BY <2>5, <2>6, AddsIs
  <2>9. At(Fresh, W, r, Round + 1, P2!Adds(Run(p, w), r))
    BY <1>2, <2>2, <2>4, AtNext
  <2> QED
    BY <1>4, <2>7, <2>8, <2>9
<1>11. RunsAlike'
  BY <1>10 DEF RunsAlike, m
<1>12. LoopsAlike'
  <2>1. allocated = START_COMMANDS_ALLOCATED \/ 2 * (nb_lines + 1) > allocated
    BY <1>2, <1>4 DEF LoopsAlike
  <2>2. err' = "ERR_NONE" /\ open' = TRUE /\ allocated' >= START_COMMANDS_ALLOCATED
    BY <1>1, <1>2 DEF LoopsAlike
  <2> QED
    BY <1>1, <1>4, <1>9, <1>11, <2>1, <2>2 DEF LoopsAlike
<1> QED
  BY <1>1, <1>12 DEF ReleaseInv

-----------------------------------------------------------------------------
(***************************************************************************)
(* The addition of a command that was read.                                *)
(***************************************************************************)
LEMMA TextKept ==
  ASSUME TextRead, UNCHANGED << text, position, file >>,
         Round' = Round, Lines' \o Pending' = Lines \o Pending
  PROVE  TextRead'
<1>1. Unread' = Unread
  BY DEF Unread
<1>2. ParsedSoFar'
  BY <1>1 DEF TextRead, ParsedSoFar
<1> QED
  BY <1>2 DEF TextRead

LEMMA GrowsReadAlike ==
  ASSUME ReadInv, LinesAccepted, ReleaseInv, reader = "reading", AddGrows,
         UNCHANGED << reader, stream, projet02, text, position >>
  PROVE  ReleaseInv'
<1>1. /\ op = "adding" /\ op' = "adding" /\ command' = command /\ err' = err
      /\ nb_lines' = nb_lines /\ allocated' = 2 * allocated /\ nb_lines >= allocated
      /\ file' = file /\ open' = open
  BY DEF AddGrows, NeedsRoom, resize_succeeds, stream
<1>2. /\ LoopsAlike /\ IInv /\ TextRead /\ RunsAlike
      /\ nb_lines \in Nat /\ allocated \in Nat /\ START_COMMANDS_ALLOCATED \in Nat \ {0}
  BY ReadingIs
<1>3. Round = nb_lines + 1 /\ Round' = Round /\ allocated >= START_COMMANDS_ALLOCATED
  BY <1>1, <1>2 DEF Round, LoopsAlike
<1>4. TextRead'
  <2>1. Lines' = Lines
    BY <1>2, LinesUnchanged
  <2>2. Lines' \o Pending' = Lines \o Pending
    BY <1>1, <2>1 DEF Pending
  <2> QED
    BY <1>1, <1>2, <1>3, <2>2, TextKept
<1>5. ASSUME NEW W, NEW r, Agrees(W)', Unasked(r)'
      PROVE  At(Fresh, W, r, Round', Run(LineAdded(r)', Left(W, position')))
  <2>1. Agrees(W)
    BY <1>5 DEF Agrees
  <2>2. Unasked(r) /\ r # 2 * allocated
    BY <1>1, <1>2, <1>3, <1>5 DEF Unasked
  <2>3. LineAdded(r)' = LineAdded(r)
    <3> DEFINE o == FALSE
    <3> HIDE DEF o
    <3>1. P2!program_add_command(Here(o, "ERR_NONE"), command, r)
            = P2!program_add_command(
                Prog(listing', nb_lines', allocated', o, "ERR_NONE"), command, r)
      BY <1>1, <1>2, <2>2, AddActs
    <3>2. LineAdded(r) = P2!program_add_command(Here(o, "ERR_NONE"), command, r)
      BY <1>1 DEF LineAdded, o
    <3>3. LineAdded(r)' = P2!program_add_command(
                Prog(listing', nb_lines', allocated', o, "ERR_NONE"), command, r)
      BY <1>1 DEF LineAdded, Here, o
    <3> QED
      BY <3>1, <3>2, <3>3
  <2>4. At(Fresh, W, r, Round, Run(LineAdded(r), Left(W, position)))
    BY <1>2, <2>1, <2>2 DEF RunsAlike
  <2> QED
    BY <1>3, <2>3, <2>4
<1>6. RunsAlike'
  BY <1>5 DEF RunsAlike
<1>7. allocated' >= START_COMMANDS_ALLOCATED /\ 2 * Round' > allocated'
  BY <1>1, <1>2, <1>3
<1>8. LoopsAlike'
  BY <1>1, <1>2, <1>4, <1>6, <1>7 DEF LoopsAlike
<1>9. reader' = "reading" /\ P2!program_init(projet02', TRUE) = Fresh
  BY DEF ReleaseInv
<1> QED
  BY <1>8, <1>9 DEF ReleaseInv

LEMMA StoresReadAlike ==
  ASSUME ReadInv, LinesAccepted, ReleaseInv, reader = "reading", AddStores,
         UNCHANGED << reader, stream, projet02, text, position >>
  PROVE  ReleaseInv'
<1>1. /\ op = "adding" /\ op' = "idle" /\ err' = "ERR_NONE"
      /\ nb_lines' = nb_lines + 1 /\ allocated' = allocated
      /\ file' = file /\ open' = open
  BY DEF AddStores, Returns, stream
<1>2. /\ LoopsAlike /\ IInv /\ TextRead /\ RunsAlike
      /\ nb_lines \in Nat /\ allocated \in Nat
  BY ReadingIs
<1>3. Round' = Round
  BY <1>1, <1>2 DEF Round
<1>4. TextRead'
  <2>1. Lines' = Append(Lines, command)
    BY <1>2, LinesAppended
  <2>2. Lines \in Seq(Commands) /\ command \in Commands
    BY <1>1, <1>2, LinesTyped DEF IInv, TypeOK
  <2>3. Append(Lines, command) = Lines \o << command >>
    BY <2>2, AppendIsConcat
  <2>4. Append(Lines, command) \in Seq(Commands)
    BY <2>2, AppendProperties
  <2>5. Lines' \o << >> = Lines'
    BY <2>1, <2>4, ConcatEmptySeq
  <2>6. Lines' \o Pending' = Lines \o Pending
    BY <1>1, <2>1, <2>3, <2>5 DEF Pending
  <2> QED
    BY <1>1, <1>2, <1>3, <2>6, TextKept
<1>5. ASSUME NEW W, NEW r, Agrees(W)', Unasked(r)'
      PROVE  At(Fresh, W, r, Round', Run(LineAdded(r)', Left(W, position')))
  <2>1. Agrees(W) /\ Unasked(r)
    BY <1>1, <1>5 DEF Agrees, Unasked
  <2>2. LineAdded(r)' = LineAdded(r)
    <3> DEFINE o == FALSE
    <3> HIDE DEF o
    <3>1. P2!program_add_command(Here(o, "ERR_NONE"), command, r)
            = Prog(listing', nb_lines', allocated', o, "ERR_NONE")
      BY <1>1, <1>2, AddActs
    <3>2. LineAdded(r) = P2!program_add_command(Here(o, "ERR_NONE"), command, r)
      BY <1>1 DEF LineAdded, o
    <3>3. LineAdded(r)' = Prog(listing', nb_lines', allocated', o, "ERR_NONE")
      BY <1>1 DEF LineAdded, Here, o
    <3> QED
      BY <3>1, <3>2, <3>3
  <2>3. At(Fresh, W, r, Round, Run(LineAdded(r), Left(W, position)))
    BY <1>2, <2>1 DEF RunsAlike
  <2> QED
    BY <1>3, <2>2, <2>3
<1>6. RunsAlike'
  BY <1>5 DEF RunsAlike
<1>7. LoopsAlike'
  BY <1>1, <1>2, <1>3, <1>4, <1>6 DEF LoopsAlike
<1>8. reader' = "reading" /\ P2!program_init(projet02', TRUE) = Fresh
  BY DEF ReleaseInv
<1> QED
  BY <1>7, <1>8 DEF ReleaseInv

-----------------------------------------------------------------------------
(***************************************************************************)
(* The invariant, and what it comes to when a call has returned.           *)
(***************************************************************************)
LEMMA ReleaseInitInv == ReleasesInit => ReleaseInv
<1> SUFFICES ASSUME ReleasesInit PROVE ReleaseInv
  OBVIOUS
<1>1. /\ reader = "none" /\ op = "idle" /\ listing = NULL /\ nb_lines = 0 /\ allocated = 0
      /\ open = FALSE /\ err = "ERR_NONE"
      /\ projet02 = [listing |-> NULL, nb_lines |-> 0, allocated |-> 0,
                     open |-> FALSE, err |-> "ERR_NONE"]
  BY DEF ReleasesInit, ReadInit
<1>2. projet02 = Here(open, err)
  BY <1>1 DEF Here, Prog
<1> QED
  BY <1>1, <1>2 DEF ReleaseInv, CallsAlike

LEMMA ReleaseNextInv ==
  ReadInv /\ LinesAccepted /\ ReleaseInv /\ [ReleasesNext]_releases_vars => ReleaseInv'
<1> SUFFICES ASSUME ReadInv, LinesAccepted, ReleaseInv, [ReleasesNext]_releases_vars
             PROVE  ReleaseInv'
  OBVIOUS
<1>1. CASE CannotOpenAny
  BY <1>1, CannotOpenAlike
<1>2. ASSUME NEW t \in Texts, OpensAll(t) PROVE ReleaseInv'
  BY <1>2, OpensAlike
<1>3. CASE FailsInLine
  BY <1>3, FailsInLineAlike
<1>4. CASE FailsBeforeLine
  BY <1>4, FailsBeforeAlike
<1>5. CASE CannotAddRead
  BY <1>5, CannotAddAlike
<1>6. CASE CannotShrinkRead
  BY <1>6, CannotShrinkAlike
<1>7. CASE RefusesText
  BY <1>7, RefusesTextAlike
<1>8. CASE ReadsCommandText
  BY <1>8, ReadsCommandAlike
<1>9. CASE AddsRead
  <2>1. /\ reader = "reading" /\ (AddGrows \/ AddStores)
        /\ UNCHANGED << reader, stream, projet02, text, position >>
    BY <1>9 DEF AddsRead, Adds, Unfinished, SameText
  <2>2. CASE AddGrows
    BY <2>1, <2>2, GrowsReadAlike
  <2>3. CASE AddStores
    BY <2>1, <2>3, StoresReadAlike
  <2> QED
    BY <2>1, <2>2, <2>3
<1>10. CASE ReachesEndOfText
  BY <1>10, ReachesEndAlike
<1>11. CASE ShrinksRead
  BY <1>11, ShrinksAlikeStep
<1>12. CASE Uses(CallBegins \/ CallProceeds \/ CallFails)
  BY <1>12, UsesAlike DEF ReadInv
<1>13. CASE UNCHANGED releases_vars
  <2>1. UNCHANGED << listing, nb_lines, allocated, op, command, err, reader, file, rest, open,
                     text, position, projet02 >>
    BY <1>13 DEF releases_vars, rvars, vars, stream
  <2>2. CallsAlike' = CallsAlike
    BY <2>1 DEF CallsAlike, AddedLater, ShrunkFrom, Here
  <2>3. Round' = Round /\ Lines' = Lines /\ Pending' = Pending /\ MustShrink' = MustShrink
        /\ ShrinkSize' = ShrinkSize
    BY <2>1 DEF Round, Lines, Pending, MustShrink, ShrinkSize
  <2>4. TextRead => TextRead'
    <3>1. Lines' \o Pending' = Lines \o Pending
      BY <2>3
    <3> QED
      BY <2>1, <2>3, <3>1, TextKept
  <2>5. RunsAlike => RunsAlike'
    BY <2>1, <2>3 DEF RunsAlike, Agrees, Unasked, LineAdded, Here
  <2>6. LoopsAlike => LoopsAlike'
    BY <2>1, <2>3, <2>4, <2>5 DEF LoopsAlike
  <2>7. ShrinksAlike => ShrinksAlike'
    BY <2>1, <2>3 DEF ShrinksAlike, ShrunkFrom, Here
  <2>8. P2!program_init(projet02, TRUE)' = P2!program_init(projet02, TRUE)
    BY <2>1
  <2> QED
    BY <2>1, <2>2, <2>6, <2>7, <2>8 DEF ReleaseInv
<1> QED
  BY <1>1, <1>2, <1>3, <1>4, <1>5, <1>6, <1>7, <1>8, <1>9, <1>10, <1>11, <1>12, <1>13,
     Zenon DEF ReleasesNext

(***************************************************************************)
(* Whenever a call of src/done has returned, whatever loop of it an        *)
(* allocation or a read failed in, the second release has done in one step *)
(* of its own what that call did.                                          *)
(***************************************************************************)
THEOREM ReleasesActAlike == ReleasesSpec => []ActsAsProjet02
<1>1. ReadInit => LinesAccepted
  BY DEF ReadInit, LinesAccepted
<1>2. ReadInv /\ LinesAccepted /\ [ReadNext]_rvars => LinesAccepted'
  BY AcceptedRead
<1>3. ReleaseInv => ActsAsProjet02
  BY DEF ReleaseInv, CallsAlike, Here, Prog, ActsAsProjet02
<1> QED
  BY <1>1, <1>2, <1>3, ReleasesInitIsRead, ReleasesStepIsRead, ReadInitInv, ReadNextInv,
     ReleaseInitInv, ReleaseNextInv, PTL DEF ReleasesSpec

=============================================================================
