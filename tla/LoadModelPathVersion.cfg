\* "Modelica 3.2.10" and "Modelica 4.0.0" in one directory.
SPECIFICATION SearchSpec
CONSTANTS
  Dirs = 1
  PerDir = 2
  None = None
  Layouts <- MCReleases
INVARIANTS HighestVersion
