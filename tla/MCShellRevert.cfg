CONSTANTS
  Lines <- MCLines
  Paths <- MCPaths
  Inodes = {1, 2}
  Environ0 <- MCEnviron
  EnvVisible = 2
SPECIFICATION Spec
INVARIANT RevertRestores
