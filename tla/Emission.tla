------------------------------ MODULE Emission ------------------------------
(***************************************************************************)
(* Package emit: the instructions of the Dockerfile written for a plan,    *)
(* those for each stage after its FROM.  An instruction keeps what its step *)
(* stands for, the part of the file (its stage) and the form Docker runs   *)
(* it in.  Labels and the wording of commands are left out.                *)
(***************************************************************************)
EXTENDS BuildPlans

Instruction(instr, part, what) ==
    [instr |-> instr, part |-> part, what |-> what, form |-> "none",
     from |-> "none", mounts |-> {}, flag |-> "none"]

\* A CMD is split into words, unless its step asks for a shell; an ENTRYPOINT
\* always is; RUN and HEALTHCHECK are always left to a shell.
Form(step) ==
    CASE step.op \in {"RUN", "FETCHTOOL", "HEALTHCHECK"} -> "shell"
      [] step.op = "CMD" -> IF step.flag = "shell" THEN "shell" ELSE "exec"
      [] step.op = "ENTRYPOINT" -> "exec"
      [] OTHER -> "none"

writeRun(step) == (IF step.cache THEN {"cache"} ELSE {}) \cup step.secrets

\* An ENV that does not hold exactly one name and value is not written.
writeStep(step, part) ==
    IF step.op = "ENV" /\ step.flag = "pairs" THEN <<>>
    ELSE <<[Instruction(CASE step.op = "COPYFROM" -> "COPY"
                          [] step.op = "FETCHTOOL" -> "RUN"
                          [] OTHER -> step.op, part, step.what)
            EXCEPT !.form = Form(step), !.from = step.stage, !.flag = step.flag,
                   !.mounts = IF step.op = "RUN" THEN writeRun(step) ELSE {}]>>

writeStage(stage, part) ==
    <<Instruction("FROM", part, stage.from)>>
      \o FlattenSeq([j \in DOMAIN stage.steps |-> writeStep(stage.steps[j], part)])

\* The first line tells BuildKit the syntax, while it is the first.
SyntaxDirective == Instruction("syntax", 0, "directive")

EmitDockerfile(stages) ==
    <<SyntaxDirective>> \o FlattenSeq([i \in DOMAIN stages |-> writeStage(stages[i], i)])
=============================================================================
