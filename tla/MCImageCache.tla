---------------------------- MODULE MCImageCache ----------------------------
(* Instances of ImageCache for TLC: the command lines of the launchers and   *)
(* the tools of their hosts.                                                 *)
EXTENDS ImageCache

Command(gpu, format, force, packer, fuse) ==
  [gpu |-> gpu, format |-> format, force |-> force, packer |-> packer, fuse |-> fuse]

\* The default format with all tools; one asked for without the tools; the
\* default with another driver and without the packer, or forced; directories without
\* any tools, also forced.
TheCommands ==
  { Command(FALSE, "auto", FALSE, TRUE, TRUE),
    Command(FALSE, "squashfs", FALSE, TRUE, FALSE),
    Command(TRUE, "auto", FALSE, FALSE, TRUE),
    Command(TRUE, "auto", TRUE, TRUE, TRUE),
    Command(FALSE, "dir", FALSE, FALSE, FALSE),
    Command(FALSE, "dir", TRUE, FALSE, FALSE) }
=============================================================================
