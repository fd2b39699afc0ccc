----------------------------- MODULE MCInstaller -----------------------------
(* Installer on a small instance: an extension of VS Code and VS Code itself  *)
(* share a file, in which they look for servers in different sections; a      *)
(* third client has a file of its own.                                        *)
EXTENDS Installer, TLC

CONSTANTS augment, vscode, cursor, settings, own, ida, flat, nested

Order  == <<augment, vscode, cursor>>
Files  == augment :> settings @@ vscode :> settings @@ cursor :> own
InFile == augment :> flat @@ vscode :> nested @@ cursor :> flat
=============================================================================
