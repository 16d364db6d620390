SPECIFICATION Spec
CONSTANTS FOPEN_MAX = 3
          NAMESIZE = 2
          BUFSIZ = 2
          Modulus = 4
          Chars = {1}
          Leftovers <- MCLeftovers
          Names <- MCNames
          KSTDIN <- MCIn
          KSTDOUT <- MCOut
          KSTDERR <- MCErr
INVARIANTS TableAgrees CharactersPassThrough
CHECK_DEADLOCK FALSE
