\* An uninstall with its watchdog alive, no fault of the environment.
SPECIFICATION Spec
CONSTANTS
  Proc = {p1, p2}
  NoProc = NoProc
  Faults = {}
PROPERTY UninstallDeletesExe
