SPECIFICATION Spec
CONSTANTS
  Threads = {t1, t2}
  Free = Free
  Builds = {"b1", "b2", "b3", "b4"}
  NoBuild = "none"
  Platform <- MCPlatform
  Report <- MCReport
  Exports <- MCExports
  Signed <- MCSigned
  Disk <- MCDisk
  Rewrites <- MCRewrites
  Calls <- MCCalls
  MaxCalls = 3
  MaxRewrites = 2
INVARIANTS
  LoaderMatchesAdmission
  HandlesMatchTheirPolicy
  AdmittedIsPinned
  PreparedPolicyDescribesOneBuild
CHECK_DEADLOCK FALSE
