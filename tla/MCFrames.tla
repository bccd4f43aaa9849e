------------------------------- MODULE MCFrames -------------------------------
(***************************************************************************)
(* A small machine for Frames.                                             *)
(***************************************************************************)
EXTENDS Frames

Segment(vaddr, memsz) == [vaddr |-> vaddr, memsz |-> memsz]
Elf(kind, segments) == [kind |-> kind, segments |-> segments, length |-> 0]

MCRam == (1 .. 10) \union (16 .. 17)
MCKernelImage == 16 .. 16

MCPrograms ==
    {Elf("executable", {Segment(2, 1), Segment(4, 1)}),
     Elf("executable", {Segment(3, 2)}),
     Elf("executable", {Segment(2, 6)}),
     Elf("other", {}),
     [kind |-> "raw", segments |-> {}, length |-> 1]}

\* What a frame holds is looked at while it is a directory or a table.
TableFrames ==
    {FrameOf(use) : use \in {u \in Uses : u[2] \in {"directory", "table"}}}
    \union vmm_free_dir(vmm_cur_directory)

View == <<bitmap, [f \in TableFrames |-> memory[f]], kernel_directory, vmm_cur_directory,
          runningTask, taskVars, pc, at, target, program, stack, loaded, strayFrees, ranOut>>
=============================================================================
