--------------------------- MODULE RegisterServer ---------------------------
(***************************************************************************)
(* The multiplex server the controller registers (fw/moteus_controller.cc, *)
(* MoteusController::Impl): the writes of one frame assemble a command,    *)
(* which the next Poll of the main loop hands to the servo.                *)
(***************************************************************************)
EXTENDS Integers, Sequences

\* What one register write does: a mode the servo knows, a mode number past
\* kNumModes, a field of the command, and a UUID mask that does not match.
WriteKind == {"mode", "badMode", "field", "otherUuid"}

\* A frame as it arrives; `bytes' is FALSE for a datagram of size zero.
FrameType == [id: Nat, writes: Seq(WriteKind), reply: BOOLEAN, bytes: BOOLEAN]

\* command_, by the writes it was built from: <<0, 0>> is the default mode.
CommandData == [mode: Nat \X Nat, fields: SUBSET (Nat \X Nat)]
ControllerType == [valid: BOOLEAN, discard: BOOLEAN, command: CommandData]

InitController ==
    [valid |-> FALSE, discard |-> FALSE,
     command |-> [mode |-> <<0, 0>>, fields |-> {}]]

\* Mutants: what an earlier frame left survives into the next one.
KeepingStartFrame(c) == [c EXCEPT !.discard = FALSE]
StickyStartFrame(c) == [c EXCEPT !.valid = FALSE]

StartFrame(c) == [c EXCEPT !.valid = FALSE, !.discard = FALSE]

\* Write: write number k of frame f.  A mode starts the command afresh.
Write(c, f, k) ==
    CASE c.discard -> c
      [] ~c.discard /\ f.writes[k] = "mode" ->
            [c EXCEPT !.valid = TRUE, !.command = [mode |-> <<f.id, k>>, fields |-> {}]]
      [] ~c.discard /\ f.writes[k] = "field" ->
            [c EXCEPT !.command.fields = @ \cup {<<f.id, k>>}]
      [] ~c.discard /\ f.writes[k] = "otherUuid" -> [c EXCEPT !.discard = TRUE]
      [] OTHER -> c

\* Mutant: a discarded frame is not taken back.
LenientCompleteFrame(c) == c

CompleteFrame(c) == IF c.discard THEN [c EXCEPT !.valid = FALSE] ELSE c

\* The multiplex server runs a frame through the three calls above; Written is
\* the controller after each of its writes.
Written(c, f) ==
    LET after[k \in 0..Len(f.writes)] ==
            IF k = 0 THEN StartFrame(c) ELSE Write(after[k - 1], f, k)
    IN  after
ProcessFrame(c, f) == CompleteFrame(Written(c, f)[Len(f.writes)])

\* The reference: a frame commands the servo when it writes a mode and its
\* UUID matches; the command is its last mode and the fields written after it.
Modes(f) == {k \in DOMAIN f.writes : f.writes[k] = "mode"}
Commanding(f) == Modes(f) # {} /\ \A k \in DOMAIN f.writes : f.writes[k] # "otherUuid"
Commanded(f) ==
    LET last == CHOOSE k \in Modes(f) : \A j \in Modes(f) : j <= k
    IN  [mode |-> <<f.id, last>>,
         fields |-> {<<f.id, k>> : k \in {j \in DOMAIN f.writes :
                                             j > last /\ f.writes[j] = "field"}}]
=============================================================================
